----------------------------- MODULE CisoProofs -----------------------------
(***************************************************************************)
(* Proofs about CisoWriter and CisoReader, for every image and every value *)
(* of the sizes: up to the first part that ends unaligned, both passes     *)
(* agree on every sector; a manifest that can be kept is kept, and every   *)
(* readable sector is found by a reader.                                   *)
(*                                                                         *)
(* Neither pass keeps a table of the parts.  What ties the two together is *)
(* the index: a sector begins a part exactly if its position is below its  *)
(* predecessor's, and PartAt counts these.  The inductive invariant IInv   *)
(* says that the index of the sectors sized so far is the layout of the    *)
(* image (IndexOK), that a size is recorded for every part that ended      *)
(* before them (SizesOK), and that the streaming pass stands, in its part  *)
(* and in its file, where the index puts its next sector (InPlace), unless *)
(* a part before it ended unaligned (OnTrack).                             *)
(***************************************************************************)
EXTENDS CisoReader, CommonLemmas

-----------------------------------------------------------------------------
(* The inductive invariant                                                   *)

Aligned(x) == x % AlignMult = 0

Rounded(x) == x + AlignPadding(x)

\* Where sector s begins and ends in its part, according to the index.
PosAt(idx, s) == idx[s].position * AlignMult
EndAt(idx, img, s) == PosAt(idx, s) + img[s]

\* The sizing pass ends a part behind sector s.
CutAfter(idx, img, s) == Rounded(EndAt(idx, img, s)) >= SplitPoint

\* The first sectors of the parts that begin at or before s; the last of
\* them, counted from 0, has s.
Begins(idx, s) == {0} \cup {b \in 1 .. s : idx[b].position < idx[b - 1].position}
PartAt(idx, s) == Cardinality(Begins(idx, s)) - 1

\* The first n sectors lie one behind the other, the first behind header and
\* index, and from 0 again behind a cut.
IndexOK(idx, img, start, n) ==
  /\ \A s \in 0 .. n - 1 :
       /\ idx[s].position \in Nat
       /\ idx[s].compressed = IsCompressed(img[s])
       /\ PosAt(idx, s) < SplitPoint
  /\ n > 0 => PosAt(idx, 0) = start
  /\ \A s \in 1 .. n - 1 : PosAt(idx, s) = IF CutAfter(idx, img, s - 1) THEN 0
                       ELSE Rounded(EndAt(idx, img, s - 1))

\* Every part that ended before sector n has the size it ended with.
SizesOK(idx, img, sizes, n) ==
  \A s \in 1 .. n - 1 : CutAfter(idx, img, s - 1) =>
      sizes[PartAt(idx, s - 1) + 1] = PaddedPartSize(Rounded(EndAt(idx, img, s - 1)))

\* The end of the sectors before n, in the part of the last of them.
TailEnd(idx, img, start, n) == IF n = 0 THEN start ELSE EndAt(idx, img, n - 1)

Sized == IF pc = "idle" THEN sizing_next_sector ELSE sector

\* The sizing pass.
SizingOK ==
  ~sizing_done /\ pc # "failed" =>
    /\ IndexOK(index_table, image, StartPosition, Sized)
    /\ SizesOK(index_table, image, sizing_part_sizes, Sized)
    /\ Len(sizing_part_sizes) = IF Sized = 0 THEN 0 ELSE PartAt(index_table, Sized - 1)
    /\ sizing_position - sizing_part_start = TailEnd(index_table, image, StartPosition, Sized)
    /\ Aligned(sizing_part_start)
    /\ pc = "sizing" => sector <= BatchEnd

\* Before the manifest is published nothing has been streamed.
PlanningOK ==
  ~sizing_done =>
    /\ pc # "emitting" /\ out_len = 0
    /\ header_index_pos = 0 /\ stream_next_sector = 0
    /\ stream_position = StartPosition /\ stream_part_start = 0
    /\ stream_part_index = 0 /\ stream_part_needs_padding = FALSE
    /\ output_manifest = <<>>
    /\ written = [name \in Names |-> 0]
    /\ landed = [s \in Sectors |-> Nowhere]

\* The index and the sizes of all parts, with the last.
DoneOK ==
  sizing_done =>
    LET total == total_data_sectors
        last == PartAt(index_table, total - 1) + 1
    IN /\ IndexOK(index_table, image, StartPosition, total)
       /\ SizesOK(index_table, image, sizing_part_sizes, total)
       /\ TotalParts = last
       /\ sizing_part_sizes[last] = PaddedPartSize(EndAt(index_table, image, total - 1))
       /\ index_table[total].position = EndAt(index_table, image, total - 1) \div AlignMult
       /\ output_manifest = [p \in 1 .. TotalParts |->
                               [name |-> SplitName(p - 1), size |-> sizing_part_sizes[p]]]

Local == stream_position - stream_part_start

\* All sectors and their padding have been handed over.
AllStreamed == stream_next_sector = total_data_sectors /\ ~stream_part_needs_padding

\* Bytes of the file of part p, counted from 0, written so far.
BytesOf(p) ==
  IF p < stream_part_index THEN sizing_part_sizes[p + 1] ELSE IF p > stream_part_index THEN 0
  ELSE IF header_index_pos < StartPosition THEN header_index_pos
  ELSE IF AllStreamed THEN sizing_part_sizes[p + 1] ELSE Local - out_len

BytesOK == \A p \in 0 .. TotalParts - 1 : written[SplitName(p)] = BytesOf(p)

\* Bytes the driver has or will be given for a file, as far as is decided.
Given(name) == written[name] + (IF name = current_entry_name THEN out_len ELSE 0)

\* The same after the step.
GivenAfter(name) == written'[name] + (IF name = current_entry_name' THEN out_len' ELSE 0)

\* The sectors streamed are in their files, and up to the first part that
\* ended unaligned they are where the index says; the others are nowhere.
LandedAt(s) ==
  IF s < stream_next_sector
  THEN /\ landed[s].offset + image[s] <= Given(landed[s].name)
       /\ InStep(s) => landed[s] = [name |-> SplitName(PartAt(index_table, s)),
                                    offset |-> PosAt(index_table, s)]
  ELSE landed[s] = Nowhere

LandedOK == \A s \in Sectors : LandedAt(s)

\* No part before the streaming pass's place ended unaligned.
OnTrack ==
  InStep(IF stream_part_needs_padding \/ stream_next_sector = total_data_sectors
         THEN stream_next_sector - 1 ELSE stream_next_sector)

\* The streaming pass stands where the index puts its next sector.
InPlace ==
  LET n == stream_next_sector
  IN /\ n < total_data_sectors => Aligned(stream_part_start)
     /\ ~stream_part_needs_padding /\ n < total_data_sectors =>
          /\ stream_part_index = PartAt(index_table, n)
          /\ Local + AlignPadding(stream_position) = PosAt(index_table, n)
     /\ stream_part_needs_padding => /\ Local = EndAt(index_table, image, n - 1)
                                     /\ stream_part_index = PartAt(index_table, n - 1)
     /\ AllStreamed => stream_part_index = PartAt(index_table, n - 1)
     /\ BytesOK

\* What holds of the streaming pass whatever the image.
Steady ==
  LET n == stream_next_sector
  IN /\ pc # "sizing"
     /\ header_index_pos <= written[SplitName(0)]
     /\ header_index_pos < StartPosition => n = 0 /\ pc = "idle"
     /\ n = 0 => /\ ~stream_part_needs_padding /\ stream_part_start = 0
                 /\ stream_position = StartPosition
     /\ stream_part_index <= n
     /\ stream_part_needs_padding =>
          /\ stream_part_index < n
          /\ n = total_data_sectors \/ Local >= SplitPoint
          /\ current_entry_name = SplitName(stream_part_index)
     /\ AllStreamed => pc = "idle"
     /\ pc = "emitting" => current_entry_name = SplitName(stream_part_index)
     /\ pc = "idle" => out_len = 0

\* The streaming pass, once the manifest is published.
StreamOK == sizing_done => Steady /\ LandedOK /\ (OnTrack => InPlace)

IInv == TypeOK /\ SizingOK /\ PlanningOK /\ DoneOK /\ StreamOK

-----------------------------------------------------------------------------
(* Arithmetic of aligned positions                                           *)

\* A multiple is divided without remainder.
LEMMA MultipleExact ==
  ASSUME NEW m \in Nat \ {0}, NEW k \in Nat
  PROVE  k * m \in Nat /\ (k * m) \div m = k /\ (k * m) % m = 0
<1> DEFINE x == k * m
<1>1. x \in Nat OBVIOUS
<1> HIDE DEF x
<1>2. k * m = x BY DEF x
<1>3. k * m <= x /\ x < k * m + m /\ x - k * m = 0 BY <1>1, <1>2
<1>4. x \div m = k /\ x % m = x - k * m BY <1>1, <1>3, DivUnique
<1> QED BY <1>1, <1>2, <1>3, <1>4

\* What is divided without remainder is a multiple.
LEMMA ExactMultiple ==
  ASSUME NEW m \in Nat \ {0}, NEW x \in Nat, x % m = 0
  PROVE  x \div m \in Nat /\ (x \div m) * m = x
BY DivMod

\* The padding reaches the next multiple.
LEMMA UpToFacts ==
  ASSUME NEW m \in Nat \ {0}, NEW x \in Nat
  PROVE  /\ UpTo(m, x) \in 0 .. m - 1
         /\ (x + UpTo(m, x)) % m = 0
         /\ x % m = 0 => UpTo(m, x) = 0
<1> DEFINE q == x \div m
           r == x % m
           p == q * m
<1>1. q \in Nat /\ r \in 0 .. m - 1 /\ x = p + r BY DivMod
<1>2. p \in Nat BY <1>1
<1> HIDE DEF q, r
<1>3. CASE r = 0
  <2>1. m % m = 0
    <3>1. (1 * m) % m = 0 BY MultipleExact
    <3> QED BY <3>1
  <2>2. UpTo(m, x) = 0 BY <1>3, <2>1 DEF UpTo, r
  <2> QED BY <1>3, <2>2 DEF r
<1>4. CASE r # 0
  <2>1. m - r \in Nat /\ m - r < m BY <1>1, <1>4
  <2> DEFINE d == m - r
  <2>2. d % m = d
    <3>1. 0 * m = 0 OBVIOUS
    <3>2. d \in Nat /\ d < m BY <2>1
    <3> HIDE DEF d
    <3>3. 0 * m <= d /\ d < 0 * m + m /\ 0 \in Nat BY <3>1, <3>2
    <3>4. d % m = d - 0 * m BY <3>2, <3>3, DivUnique
    <3> QED BY <3>1, <3>2, <3>4
  <2>3. UpTo(m, x) = d BY <2>2 DEF UpTo, r
  <2>4. x + d = (q + 1) * m
    <3>1. (q + 1) * m = p + m BY <1>1
    <3> HIDE DEF p
    <3> QED BY <1>1, <1>2, <3>1
  <2>5. (x + d) % m = 0 BY <1>1, <2>4, MultipleExact
  <2> QED BY <1>1, <1>4, <2>1, <2>3, <2>5 DEF r
<1> QED BY <1>3, <1>4

\* Shifting by a multiple changes no remainder.
LEMMA ShiftMod ==
  ASSUME NEW m \in Nat \ {0}, NEW a \in Nat, NEW x \in Nat, a % m = 0
  PROVE  (a + x) % m = x % m
<1> DEFINE k == a \div m
           q == x \div m
           r == x % m
           p == q * m
           y == a + x
<1>1. k \in Nat /\ k * m = a BY ExactMultiple
<1>2. q \in Nat /\ r \in 0 .. m - 1 /\ x = p + r BY DivMod
<1>3. p \in Nat BY <1>2
<1> HIDE DEF k, q, r
<1>4. (k + q) * m = a + p BY <1>1, <1>2
<1>5. k + q \in Nat /\ y \in Nat BY <1>1, <1>2
<1> HIDE DEF p
<1>6. (k + q) * m <= y /\ y < (k + q) * m + m /\ y - (k + q) * m = r BY <1>2, <1>3, <1>4
<1> HIDE DEF y
<1>7. y % m = y - (k + q) * m BY <1>5, <1>6, DivUnique
<1> QED BY <1>6, <1>7 DEF y, r

-----------------------------------------------------------------------------
(* Aligned positions and padded parts                                        *)

LEMMA AlignedSum ==
  ASSUME NEW a \in Nat, NEW x \in Nat, Aligned(a), Aligned(x)
  PROVE  Aligned(a + x)
<1>1. AlignMult \in Nat \ {0} /\ a % AlignMult = 0 /\ x % AlignMult = 0 BY CisoAssumption DEF Aligned
<1>2. (a + x) % AlignMult = x % AlignMult BY ONLY <1>1, a \in Nat, x \in Nat, ShiftMod
<1> QED BY <1>1, <1>2 DEF Aligned

LEMMA AlignedShift ==
  ASSUME NEW a \in Nat, NEW x \in Nat, Aligned(a)
  PROVE  AlignPadding(a + x) = AlignPadding(x)
<1>0. AlignMult \in Nat \ {0} /\ a % AlignMult = 0 BY CisoAssumption DEF Aligned
<1>1. (a + x) % AlignMult = x % AlignMult BY ONLY <1>0, a \in Nat, x \in Nat, ShiftMod
<1> QED BY <1>1 DEF AlignPadding, UpTo

\* Rounding reaches the next aligned position.
LEMMA RoundedFacts ==
  ASSUME NEW x \in Nat
  PROVE  /\ AlignPadding(x) \in Nat
         /\ Rounded(x) \in Nat
         /\ x <= Rounded(x) /\ Rounded(x) < x + AlignMult
         /\ Aligned(Rounded(x))
         /\ Aligned(x) => AlignPadding(x) = 0 /\ Rounded(x) = x
<1>1. AlignMult \in Nat \ {0} BY CisoAssumption
<1>2. /\ AlignPadding(x) \in 0 .. AlignMult - 1
      /\ (x + AlignPadding(x)) % AlignMult = 0
      /\ x % AlignMult = 0 => AlignPadding(x) = 0
  BY <1>1, UpToFacts DEF AlignPadding
<1> QED BY <1>1, <1>2 DEF Rounded, Aligned

\* There is no aligned position before it.
LEMMA RoundedLeast ==
  ASSUME NEW x \in Nat, NEW y \in Nat, x <= y, Aligned(y)
  PROVE  Rounded(x) <= y
<1> DEFINE z == Rounded(x)
           k == z \div AlignMult
           l == y \div AlignMult
<1>1. AlignMult \in Nat \ {0} BY CisoAssumption
<1>2. z \in Nat /\ z < x + AlignMult /\ Aligned(z) BY RoundedFacts
<1> HIDE DEF z
<1>3. k \in Nat /\ k * AlignMult = z /\ l \in Nat /\ l * AlignMult = y
  BY <1>1, <1>2, ExactMultiple DEF Aligned
<1> HIDE DEF k, l
<1>4. ~(l + 1 <= k)
  <2> SUFFICES ASSUME l + 1 <= k PROVE FALSE OBVIOUS
  <2>1. (l + 1) * AlignMult <= k * AlignMult BY <1>1, <1>3, MultMonotonic
  <2>2. (l + 1) * AlignMult = l * AlignMult + AlignMult BY <1>1, <1>3
  <2> QED BY <1>1, <1>2, <1>3, <2>1, <2>2
<1>5. k * AlignMult <= l * AlignMult BY <1>1, <1>3, <1>4, MultMonotonic
<1> QED BY <1>3, <1>5 DEF z

LEMMA PaddedFacts ==
  ASSUME NEW x \in Nat
  PROVE  /\ PaddedPartSize(x) \in Nat
         /\ x <= PaddedPartSize(x) /\ PaddedPartSize(x) < x + PaddingModulus
         /\ TrailingPad(x) \in Nat /\ x + TrailingPad(x) = PaddedPartSize(x)
<1>1. PaddingModulus \in Nat \ {0} BY CisoAssumption
<1>2. UpTo(PaddingModulus, x) \in 0 .. PaddingModulus - 1 BY <1>1, UpToFacts
<1> QED BY <1>1, <1>2 DEF PaddedPartSize, TrailingPad

\* Header and index of an image end aligned, before the first split point.
LEMMA StartFacts ==
  ASSUME total_data_sectors \in 1 .. MaxSectors
  PROVE  /\ StartPosition \in Nat /\ 0 < StartPosition
         /\ Aligned(StartPosition)
         /\ StartPosition < SplitPoint
<1> DEFINE n == total_data_sectors + 1
           p == EntrySize * n
           q == EntrySize * (MaxSectors + 1)
           k == EntrySize \div AlignMult
<1>1. /\ n \in Nat \ {0} /\ n <= MaxSectors + 1 /\ MaxSectors + 1 \in Nat
      /\ HeaderSize \in Nat /\ EntrySize \in Nat \ {0} /\ AlignMult \in Nat \ {0}
      /\ SplitPoint \in Nat /\ q \in Nat /\ q < SplitPoint - HeaderSize
  BY CisoAssumption
<1>2. StartPosition = HeaderSize + p BY DEF StartPosition
<1> HIDE DEF n
<1>3. p \in Nat /\ 0 < p /\ p <= q
  <2>1. n * EntrySize <= (MaxSectors + 1) * EntrySize BY <1>1, MultMonotonic
  <2>2. 1 * EntrySize <= n * EntrySize BY <1>1, MultMonotonic
  <2>3. p = n * EntrySize /\ q = (MaxSectors + 1) * EntrySize /\ 1 * EntrySize = EntrySize BY <1>1
  <2>4. p \in Nat BY <1>1
  <2> HIDE DEF p, q
  <2> QED BY <1>1, <2>1, <2>2, <2>3, <2>4
<1>4. Aligned(p)
  <2>1. k \in Nat /\ k * AlignMult = EntrySize BY <1>1, ExactMultiple, CisoAssumption
  <2> HIDE DEF k
  <2>2. p = (k * n) * AlignMult BY <1>1, <2>1
  <2>3. k * n \in Nat BY <1>1, <2>1
  <2> QED BY <1>1, <2>2, <2>3, MultipleExact DEF Aligned
<1>5. Aligned(HeaderSize) BY CisoAssumption DEF Aligned
<1> HIDE DEF p, q
<1>6. Aligned(HeaderSize + p) BY <1>1, <1>3, <1>4, <1>5, AlignedSum
<1> QED BY <1>1, <1>2, <1>3, <1>6

-----------------------------------------------------------------------------
(* Counting parts                                                            *)

\* Sector s is in part 0, 1, ... or s.
LEMMA PartAtRange ==
  ASSUME NEW idx, NEW s \in Nat
  PROVE  /\ IsFiniteSet(Begins(idx, s))
         /\ PartAt(idx, s) \in 0 .. s
         /\ Cardinality(Begins(idx, s)) = PartAt(idx, s) + 1
<1> DEFINE B == Begins(idx, s)
           I == 0 .. s
<1>1. B \subseteq I /\ 0 \in B BY DEF Begins
<1>2. IsFiniteSet(I) /\ Cardinality(I) = s + 1
  <2>1. IsFiniteSet(I) /\ Cardinality(I) = IF 0 <= s THEN s - 0 + 1 ELSE 0 BY FS_Interval
  <2> QED BY <2>1
<1> HIDE DEF B, I
<1>3. IsFiniteSet(B) /\ Cardinality(B) <= s + 1 BY <1>1, <1>2, FS_Subset
<1>4. Cardinality(B) \in Nat /\ Cardinality(B) # 0 BY <1>1, <1>3, FS_CardinalityType, FS_EmptySet
<1> QED BY <1>3, <1>4 DEF B, PartAt

LEMMA PartAtFirst ==
  ASSUME NEW idx
  PROVE  PartAt(idx, 0) = 0
<1>1. PartAt(idx, 0) \in 0 .. 0 BY PartAtRange
<1> QED BY <1>1

\* A part begins where the position goes down.
LEMMA PartAtNext ==
  ASSUME NEW idx, NEW s \in Nat \ {0}
  PROVE  PartAt(idx, s) = IF idx[s].position < idx[s - 1].position
           THEN PartAt(idx, s - 1) + 1 ELSE PartAt(idx, s - 1)
<1> DEFINE B == Begins(idx, s - 1)
           C == Begins(idx, s)
<1>1. s - 1 \in Nat OBVIOUS
<1>2. IsFiniteSet(B) /\ Cardinality(B) = PartAt(idx, s - 1) + 1 /\ PartAt(idx, s - 1) \in Nat
  BY <1>1, PartAtRange
<1>3. \A b : b \in 1 .. s <=> b \in 1 .. s - 1 \/ b = s OBVIOUS
<1>4. ~(s \in B) BY <1>1 DEF Begins
<1>5. CASE idx[s].position < idx[s - 1].position
  <2>1. C = B \cup {s} BY <1>3, <1>5 DEF Begins
  <2> HIDE DEF B, C
  <2>2. Cardinality(C) = Cardinality(B) + 1 BY <1>2, <1>4, <2>1, FS_AddElement
  <2> QED BY <1>2, <1>5, <2>2 DEF C, PartAt
<1>6. CASE ~(idx[s].position < idx[s - 1].position)
  <2>1. C = B BY <1>3, <1>6 DEF Begins
  <2> QED BY <1>6, <2>1 DEF PartAt
<1> QED BY <1>5, <1>6

\* Only the entries up to s matter.
LEMMA PartAtSame ==
  ASSUME NEW idx, NEW jdx, NEW s \in Nat, \A t \in 0 .. s : jdx[t] = idx[t]
  PROVE  PartAt(jdx, s) = PartAt(idx, s)
<1>1. \A b \in 1 .. s : b \in 0 .. s /\ b - 1 \in 0 .. s OBVIOUS
<1>2. \A b \in 1 .. s : jdx[b] = idx[b] /\ jdx[b - 1] = idx[b - 1] BY <1>1
<1>3. Begins(jdx, s) = Begins(idx, s) BY <1>2 DEF Begins
<1> QED BY <1>3 DEF PartAt

\* Later sectors are in later parts.
LEMMA PartAtMonotonic ==
  ASSUME NEW idx, NEW s \in Nat, NEW t \in Nat, s <= t
  PROVE  PartAt(idx, s) <= PartAt(idx, t)
<1>1. \A b \in 1 .. s : b \in 1 .. t OBVIOUS
<1>2. Begins(idx, s) \subseteq Begins(idx, t) BY <1>1 DEF Begins
<1>3. /\ IsFiniteSet(Begins(idx, t))
      /\ Cardinality(Begins(idx, s)) = PartAt(idx, s) + 1
      /\ Cardinality(Begins(idx, t)) = PartAt(idx, t) + 1
      /\ PartAt(idx, s) \in Int /\ PartAt(idx, t) \in Int
  BY PartAtRange
<1>4. Cardinality(Begins(idx, s)) <= Cardinality(Begins(idx, t)) BY <1>2, <1>3, FS_Subset
<1> QED BY <1>3, <1>4

-----------------------------------------------------------------------------
(* The layout an index describes                                             *)

StoredSectors(img, n) == \A s \in 0 .. n - 1 : img[s] \in StoredLens

\* A sector begins aligned, before the split point, and with its padding it
\* takes no more than SECTOR_SIZE.
LEMMA SectorFacts ==
  ASSUME NEW idx, NEW img, NEW start, NEW n \in Nat, IndexOK(idx, img, start, n),
         NEW s \in 0 .. n - 1, img[s] \in StoredLens
  PROVE  /\ idx[s].position \in Nat
         /\ PosAt(idx, s) \in Nat /\ Aligned(PosAt(idx, s)) /\ PosAt(idx, s) < SplitPoint
         /\ EndAt(idx, img, s) \in Nat /\ PosAt(idx, s) < EndAt(idx, img, s)
         /\ EndAt(idx, img, s) <= Rounded(EndAt(idx, img, s))
         /\ Rounded(EndAt(idx, img, s)) \in Nat
         /\ Rounded(EndAt(idx, img, s)) <= PosAt(idx, s) + SectorSize
         /\ IsCompressed(img[s]) \in BOOLEAN
<1> DEFINE p == PosAt(idx, s)
           e == EndAt(idx, img, s)
<1>1. idx[s].position \in Nat /\ p < SplitPoint BY DEF IndexOK
<1>2. AlignMult \in Nat \ {0} /\ SectorSize \in Nat /\ Aligned(SectorSize) BY CisoAssumption DEF Aligned
<1>3. p \in Nat /\ Aligned(p) BY <1>1, <1>2, MultipleExact DEF PosAt, Aligned
<1>4. img[s] \in 1 .. SectorSize BY CisoAssumption
<1>5. e = p + img[s] BY DEF EndAt
<1> HIDE DEF p, e
<1>6. e \in Nat /\ p < e /\ e <= p + SectorSize BY <1>2, <1>3, <1>4, <1>5
<1>7. Aligned(p + SectorSize) BY <1>2, <1>3, AlignedSum
<1>8. e <= Rounded(e) /\ Rounded(e) \in Nat BY <1>6, RoundedFacts
<1>9. Rounded(e) <= p + SectorSize
  <2>1. p + SectorSize \in Nat BY <1>2, <1>3
  <2> QED BY <1>6, <1>7, <2>1, RoundedLeast
<1>10. IsCompressed(img[s]) \in BOOLEAN BY DEF IsCompressed
<1> QED BY <1>1, <1>3, <1>6, <1>8, <1>9, <1>10 DEF p, e

\* Positions compare as their places do.
LEMMA PositionOrder ==
  ASSUME NEW a \in Nat, NEW b \in Nat
  PROVE  a < b <=> a * AlignMult < b * AlignMult
<1>1. AlignMult \in Nat \ {0} /\ a * AlignMult \in Nat /\ b * AlignMult \in Nat BY CisoAssumption
<1>2. b <= a => b * AlignMult <= a * AlignMult BY <1>1, MultMonotonic
<1>3. a + 1 <= b => (a + 1) * AlignMult <= b * AlignMult BY <1>1, MultMonotonic
<1>4. (a + 1) * AlignMult = a * AlignMult + AlignMult BY <1>1
<1> QED BY <1>1, <1>2, <1>3, <1>4

\* The position goes down exactly behind a cut: a sector alone does not reach
\* the split point.
LEMMA NextFacts ==
  ASSUME NEW idx, NEW img, NEW start, NEW n \in Nat, IndexOK(idx, img, start, n),
         NEW s \in 1 .. n - 1, img[s - 1] \in StoredLens
  PROVE  /\ idx[s].position < idx[s - 1].position <=> CutAfter(idx, img, s - 1)
         /\ PartAt(idx, s) = IF CutAfter(idx, img, s - 1)
                             THEN PartAt(idx, s - 1) + 1 ELSE PartAt(idx, s - 1)
<1> DEFINE p == PosAt(idx, s - 1)
           e == EndAt(idx, img, s - 1)
           q == PosAt(idx, s)
<1>1. s - 1 \in 0 .. n - 1 /\ s \in 0 .. n - 1 OBVIOUS
<1>2. /\ idx[s - 1].position \in Nat /\ p \in Nat
      /\ Rounded(e) \in Nat /\ p < Rounded(e) /\ Rounded(e) <= p + SectorSize
  <2>1. /\ idx[s - 1].position \in Nat /\ p \in Nat /\ e \in Nat
        /\ Rounded(e) \in Nat /\ p < e /\ e <= Rounded(e) /\ Rounded(e) <= p + SectorSize
    BY <1>1, SectorFacts
  <2> HIDE DEF p, e
  <2> QED BY <2>1
<1>3. idx[s].position \in Nat BY <1>1 DEF IndexOK
<1>4. q = IF CutAfter(idx, img, s - 1) THEN 0 ELSE Rounded(e) BY DEF IndexOK
<1>5. idx[s].position < idx[s - 1].position <=> q < p BY <1>2, <1>3, PositionOrder DEF PosAt
<1>6. CutAfter(idx, img, s - 1) <=> Rounded(e) >= SplitPoint BY DEF CutAfter
<1>7. SplitPoint \in Nat /\ SplitPoint > SectorSize /\ SectorSize \in Nat BY CisoAssumption
<1> HIDE DEF p, e, q
<1>8. q < p <=> CutAfter(idx, img, s - 1) BY <1>2, <1>4, <1>6, <1>7
<1>9. s \in Nat \ {0} OBVIOUS
<1> QED BY <1>5, <1>8, <1>9, PartAtNext

\* Where the passes decide about a cut, behind sector t, they agree if its end
\* is aligned; if it is not, the streaming pass asks for more.
LEMMA CutsAgree ==
  ASSUME NEW idx, NEW img, NEW start, NEW n \in Nat, IndexOK(idx, img, start, n),
         StoredSectors(img, n), NEW t \in 0 .. n - 1
  PROVE  /\ EndAt(idx, img, t) >= SplitPoint => CutAfter(idx, img, t)
         /\ Aligned(img[t]) => Aligned(EndAt(idx, img, t))
         /\ Aligned(img[t]) /\ CutAfter(idx, img, t) => EndAt(idx, img, t) >= SplitPoint
<1> DEFINE p == PosAt(idx, t)
           e == EndAt(idx, img, t)
<1>1. /\ p \in Nat /\ Aligned(p) /\ e \in Nat /\ e <= Rounded(e)
      /\ Rounded(e) \in Nat
  BY SectorFacts DEF StoredSectors
<1>2. CutAfter(idx, img, t) <=> Rounded(e) >= SplitPoint BY DEF CutAfter
<1>3. SplitPoint \in Nat /\ img[t] \in Nat
  <2>1. img[t] \in StoredLens BY DEF StoredSectors
  <2>2. SplitPoint \in Nat /\ StoredLens \subseteq Nat BY CisoAssumption
  <2> QED BY <2>1, <2>2
<1>4. e = p + img[t] BY DEF EndAt
<1> HIDE DEF p, e
<1>5. e >= SplitPoint => CutAfter(idx, img, t) BY <1>1, <1>2, <1>3
<1>6. Aligned(img[t]) => Aligned(e) BY <1>1, <1>3, <1>4, AlignedSum
<1>7. Aligned(img[t]) => Rounded(e) = e BY <1>1, <1>6, RoundedFacts
<1> QED BY <1>2, <1>5, <1>6, <1>7 DEF e

\* The first n sectors of two indices, and the sizes of the parts before
\* theirs, are the same.
SameEntries(idx, jdx, n) == \A s \in 0 .. n - 1 : jdx[s] = idx[s]
SameSizes(idx, sizes, sizes2, n) ==
  n > 0 => \A p \in 1 .. PartAt(idx, n - 1) : sizes2[p] = sizes[p]

\* Only the entries of the first n sectors matter to their layout.
LEMMA LayoutSame ==
  ASSUME NEW idx, NEW jdx, NEW img, NEW start, NEW n \in Nat, IndexOK(idx, img, start, n),
         NEW sizes, NEW sizes2, SizesOK(idx, img, sizes, n),
         StoredSectors(img, n), SameEntries(idx, jdx, n), SameSizes(idx, sizes, sizes2, n)
  PROVE  /\ IndexOK(jdx, img, start, n) /\ SizesOK(jdx, img, sizes2, n)
         /\ \A s \in 0 .. n - 1 : /\ PartAt(jdx, s) = PartAt(idx, s)
                                  /\ PosAt(jdx, s) = PosAt(idx, s)
                                  /\ EndAt(jdx, img, s) = EndAt(idx, img, s)
<1>1. ASSUME NEW s \in 0 .. n - 1
      PROVE  /\ PartAt(jdx, s) = PartAt(idx, s)
             /\ PosAt(jdx, s) = PosAt(idx, s)
             /\ EndAt(jdx, img, s) = EndAt(idx, img, s)
             /\ CutAfter(jdx, img, s) = CutAfter(idx, img, s)
             /\ jdx[s] = idx[s]
  <2>1. \A t \in 0 .. s : jdx[t] = idx[t] BY DEF SameEntries
  <2>2. PartAt(jdx, s) = PartAt(idx, s) BY <2>1, PartAtSame
  <2>3. PosAt(jdx, s) = PosAt(idx, s) /\ EndAt(jdx, img, s) = EndAt(idx, img, s)
    BY DEF PosAt, EndAt, SameEntries
  <2> QED BY <2>2, <2>3 DEF CutAfter, SameEntries
<1>2. \A s \in 1 .. n - 1 : s \in 0 .. n - 1 /\ s - 1 \in 0 .. n - 1 OBVIOUS
<1>3. IndexOK(jdx, img, start, n) BY <1>1, <1>2 DEF IndexOK
<1>4. SizesOK(jdx, img, sizes2, n)
  <2> SUFFICES ASSUME NEW s \in 1 .. n - 1, CutAfter(jdx, img, s - 1)
      PROVE  sizes2[PartAt(jdx, s - 1) + 1] = PaddedPartSize(Rounded(EndAt(jdx, img, s - 1)))
    BY DEF SizesOK
  <2> DEFINE p == PartAt(idx, s - 1) + 1
  <2>1. CutAfter(idx, img, s - 1) BY <1>1, <1>2
  <2>2. p = PartAt(idx, s)
    <3>1. img[s - 1] \in StoredLens BY <1>2 DEF StoredSectors
    <3> QED BY <2>1, <3>1, NextFacts
  <2>3. p \in 1 .. PartAt(idx, n - 1)
    <3>1. s - 1 \in Nat /\ s \in Nat /\ n - 1 \in Nat /\ s <= n - 1 OBVIOUS
    <3>2. PartAt(idx, s) <= PartAt(idx, n - 1) BY <3>1, PartAtMonotonic
    <3>3. PartAt(idx, s - 1) \in Nat /\ PartAt(idx, n - 1) \in Nat BY <3>1, PartAtRange
    <3> QED BY <2>2, <3>2, <3>3
  <2>4. sizes2[p] = sizes[p] BY <2>3 DEF SameSizes
  <2>5. sizes[p] = PaddedPartSize(Rounded(EndAt(idx, img, s - 1))) BY <2>1 DEF SizesOK
  <2>6. PartAt(jdx, s - 1) + 1 = p /\ EndAt(jdx, img, s - 1) = EndAt(idx, img, s - 1) BY <1>1, <1>2
  <2> QED BY <2>4, <2>5, <2>6
<1> QED BY <1>1, <1>3, <1>4

\* One more sector, recorded where the sizing pass puts it.
LEMMA LayoutExtended ==
  ASSUME NEW idx, NEW jdx, NEW img, NEW start, NEW n \in Nat, IndexOK(idx, img, start, n),
         NEW sizes, NEW sizes2, SizesOK(idx, img, sizes, n),
         StoredSectors(img, n), SameEntries(idx, jdx, n), SameSizes(idx, sizes, sizes2, n),
         n > 0 /\ CutAfter(idx, img, n - 1) =>
           sizes2[PartAt(idx, n - 1) + 1] = PaddedPartSize(Rounded(EndAt(idx, img, n - 1))),
         jdx[n].position \in Nat, jdx[n].compressed = IsCompressed(img[n]),
         PosAt(jdx, n) < SplitPoint, PosAt(jdx, n) = IF n = 0 THEN start
                         ELSE IF CutAfter(idx, img, n - 1) THEN 0
                         ELSE Rounded(EndAt(idx, img, n - 1))
  PROVE  /\ IndexOK(jdx, img, start, n + 1) /\ SizesOK(jdx, img, sizes2, n + 1)
         /\ PartAt(jdx, n) = IF n = 0 THEN 0
                             ELSE IF CutAfter(idx, img, n - 1) THEN PartAt(idx, n - 1) + 1
                             ELSE PartAt(idx, n - 1)
<1>1. /\ IndexOK(jdx, img, start, n) /\ SizesOK(jdx, img, sizes2, n)
      /\ \A s \in 0 .. n - 1 : /\ PartAt(jdx, s) = PartAt(idx, s)
                               /\ PosAt(jdx, s) = PosAt(idx, s)
                               /\ EndAt(jdx, img, s) = EndAt(idx, img, s)
  BY ONLY n \in Nat, IndexOK(idx, img, start, n), SizesOK(idx, img, sizes, n), StoredSectors(img, n),
     SameEntries(idx, jdx, n), SameSizes(idx, sizes, sizes2, n), LayoutSame
<1>2. /\ \A s \in 0 .. (n + 1) - 1 : s \in 0 .. n - 1 \/ s = n
      /\ \A s \in 1 .. (n + 1) - 1 : s \in 1 .. n - 1 \/ s = n
      /\ n > 0 => n - 1 \in 0 .. n - 1 /\ n \in 1 .. (n + 1) - 1
  OBVIOUS
<1>3. n > 0 => CutAfter(jdx, img, n - 1) = CutAfter(idx, img, n - 1) BY <1>1, <1>2 DEF CutAfter
<1>4. IndexOK(jdx, img, start, n + 1)
  <2>1. \A s \in 0 .. (n + 1) - 1 :
      /\ jdx[s].position \in Nat
      /\ jdx[s].compressed = IsCompressed(img[s])
      /\ PosAt(jdx, s) < SplitPoint
    BY <1>1, <1>2 DEF IndexOK
  <2>2. PosAt(jdx, 0) = start
    <3>1. CASE n = 0 BY <3>1
    <3>2. CASE n # 0 BY <1>1, <3>2 DEF IndexOK
    <3> QED BY <3>1, <3>2
  <2>3. ASSUME NEW s \in 1 .. (n + 1) - 1
        PROVE  PosAt(jdx, s) = IF CutAfter(jdx, img, s - 1) THEN 0
                               ELSE Rounded(EndAt(jdx, img, s - 1))
    <3>1. CASE s \in 1 .. n - 1 BY <1>1, <3>1 DEF IndexOK
    <3>2. CASE s = n
      <4>1. n > 0 /\ n # 0 BY <3>2
      <4>2. EndAt(jdx, img, n - 1) = EndAt(idx, img, n - 1) BY <1>1, <1>2, <4>1
      <4> QED BY <1>3, <3>2, <4>1, <4>2
    <3> QED BY <1>2, <3>1, <3>2
  <2> QED BY <2>1, <2>2, <2>3 DEF IndexOK
<1>5. SizesOK(jdx, img, sizes2, n + 1)
  <2> SUFFICES ASSUME NEW s \in 1 .. (n + 1) - 1, CutAfter(jdx, img, s - 1)
      PROVE  sizes2[PartAt(jdx, s - 1) + 1] = PaddedPartSize(Rounded(EndAt(jdx, img, s - 1)))
    BY DEF SizesOK
  <2>1. CASE s \in 1 .. n - 1 BY <1>1, <2>1 DEF SizesOK
  <2>2. CASE s = n
    <3>1. n > 0 /\ n - 1 \in 0 .. n - 1 BY <2>2
    <3>2. EndAt(jdx, img, n - 1) = EndAt(idx, img, n - 1) /\ PartAt(jdx, n - 1) = PartAt(idx, n - 1)
      BY <1>1, <3>1
    <3> QED BY <1>3, <2>2, <3>1, <3>2
  <2> QED BY <1>2, <2>1, <2>2
<1>6. PartAt(jdx, n) = IF n = 0 THEN 0
    ELSE IF CutAfter(idx, img, n - 1) THEN PartAt(idx, n - 1) + 1 ELSE PartAt(idx, n - 1)
  <2>1. CASE n = 0 BY <2>1, PartAtFirst
  <2>2. CASE n # 0
    <3>1. n > 0 /\ n \in 1 .. (n + 1) - 1 /\ n + 1 \in Nat /\ n - 1 \in 0 .. n - 1 BY <2>2
    <3>2. img[n - 1] \in StoredLens BY <3>1 DEF StoredSectors
    <3>3. PartAt(jdx, n) = IF CutAfter(jdx, img, n - 1)
        THEN PartAt(jdx, n - 1) + 1 ELSE PartAt(jdx, n - 1)
      BY <1>4, <3>1, <3>2, NextFacts
    <3>4. PartAt(jdx, n - 1) = PartAt(idx, n - 1) BY <1>1, <3>1
    <3> QED BY <1>3, <2>2, <3>1, <3>3, <3>4
  <2> QED BY <2>1, <2>2
<1> QED BY <1>4, <1>5, <1>6

\* A part's size bounds the end of each of its sectors, and where the sector
\* after it in the same part begins.
LEMMA SizesBound ==
  ASSUME NEW idx, NEW img, NEW start, NEW n \in Nat \ {0}, IndexOK(idx, img, start, n),
         NEW sizes, SizesOK(idx, img, sizes, n), StoredSectors(img, n),
         sizes[PartAt(idx, n - 1) + 1] = PaddedPartSize(EndAt(idx, img, n - 1)),
         NEW t \in 0 .. n - 1
  PROVE  /\ sizes[PartAt(idx, t) + 1] \in Nat
         /\ EndAt(idx, img, t) <= sizes[PartAt(idx, t) + 1]
<1> DEFINE Bounded(s) == /\ sizes[PartAt(idx, s) + 1] \in Nat
                         /\ EndAt(idx, img, s) <= sizes[PartAt(idx, s) + 1]
           E == {k \in Nat : k < n => Bounded(n - 1 - k)}
<1>1. 0 \in E
  <2>1. n - 1 - 0 = n - 1 /\ n - 1 \in 0 .. n - 1 OBVIOUS
  <2>2. EndAt(idx, img, n - 1) \in Nat BY <2>1, SectorFacts DEF StoredSectors
  <2>3. Bounded(n - 1) BY <2>2, PaddedFacts
  <2> QED BY <2>1, <2>3
<1>2. ASSUME NEW k \in Nat, k \in E
      PROVE  k + 1 \in E
  <2> SUFFICES ASSUME k + 1 < n PROVE Bounded(n - 1 - (k + 1)) OBVIOUS
  <2> DEFINE s == n - 1 - (k + 1)
  <2>1. s \in 0 .. n - 1 /\ s + 1 \in 1 .. n - 1 /\ s + 1 \in 0 .. n - 1 /\ (s + 1) - 1 = s
        /\ n - 1 - k = s + 1
    OBVIOUS
  <2>2. Bounded(s + 1) BY <1>2, <2>1
  <2> HIDE DEF s
  <2>3. /\ EndAt(idx, img, s) \in Nat
        /\ EndAt(idx, img, s) <= Rounded(EndAt(idx, img, s))
        /\ Rounded(EndAt(idx, img, s)) \in Nat
    BY <2>1, SectorFacts DEF StoredSectors
  <2>4. PosAt(idx, s + 1) \in Nat /\ EndAt(idx, img, s + 1) \in Nat
        /\ PosAt(idx, s + 1) < EndAt(idx, img, s + 1)
    BY <2>1, SectorFacts DEF StoredSectors
  <2>5. CASE CutAfter(idx, img, s)
    <3>1. sizes[PartAt(idx, s) + 1] = PaddedPartSize(Rounded(EndAt(idx, img, s)))
      BY <2>1, <2>5 DEF SizesOK
    <3>2. /\ PaddedPartSize(Rounded(EndAt(idx, img, s))) \in Nat
          /\ Rounded(EndAt(idx, img, s)) <= PaddedPartSize(Rounded(EndAt(idx, img, s)))
      BY <2>3, PaddedFacts
    <3>3. Bounded(s) BY <2>3, <3>1, <3>2
    <3> QED BY <3>3 DEF s
  <2>6. CASE ~CutAfter(idx, img, s)
    <3>1. PartAt(idx, s + 1) = PartAt(idx, s) BY <2>1, <2>6, NextFacts DEF StoredSectors
    <3>2. PosAt(idx, s + 1) = Rounded(EndAt(idx, img, s)) BY <2>1, <2>6 DEF IndexOK
    <3>3. Bounded(s) BY <2>2, <2>3, <2>4, <3>1, <3>2
    <3> QED BY <3>3 DEF s
  <2> QED BY <2>5, <2>6
<1>3. Nat \subseteq E
  <2> HIDE DEF E
  <2> QED BY <1>1, <1>2, NatInduct
<1>4. n - 1 - t \in Nat /\ n - 1 - t < n /\ n - 1 - (n - 1 - t) = t OBVIOUS
<1>5. Bounded(n - 1 - (n - 1 - t))
  <2> HIDE DEF Bounded
  <2> QED BY <1>3, <1>4
<1> QED BY <1>4, <1>5

-----------------------------------------------------------------------------
(* The sizing pass                                                           *)

\* What the types say of the image.
LEMMA ImageFacts ==
  ASSUME TypeOK
  PROVE  /\ total_data_sectors \in Nat \ {0} /\ total_data_sectors \in 1 .. MaxSectors
         /\ MaxSectors \in Nat
         /\ StoredSectors(image, total_data_sectors)
         /\ \A n \in 0 .. total_data_sectors : StoredSectors(image, n)
         /\ StartPosition \in Nat /\ 0 < StartPosition
         /\ Aligned(StartPosition) /\ StartPosition < SplitPoint
         /\ SplitPoint \in Nat
<1>1. total_data_sectors \in 1 .. MaxSectors /\ MaxSectors \in Nat /\ SplitPoint \in Nat
  BY CisoAssumption DEF TypeOK
<1>2. StoredSectors(image, total_data_sectors) BY DEF TypeOK, StoredSectors, Sectors
<1>3. \A n \in 0 .. total_data_sectors : StoredSectors(image, n) BY <1>1, <1>2 DEF StoredSectors
<1>4. total_data_sectors \in Nat \ {0} BY <1>1
<1> QED BY <1>1, <1>2, <1>3, <1>4, StartFacts

\* A freshly opened session satisfies the invariant.
LEMMA InitIInv == Init => IInv
<1> SUFFICES ASSUME Init PROVE IInv OBVIOUS
<1> USE CisoAssumption DEF Init
<1>1. TypeOK
  <2>1. total_data_sectors \in 1 .. MaxSectors /\ total_data_sectors \in Nat OBVIOUS
  <2>2. StartPosition \in Nat BY <2>1, StartFacts
  <2>3. current_entry_name \in Names BY DEF OutputNameFor, Names
  <2>4. index_table \in [0 .. total_data_sectors -> [position : Nat, compressed : BOOLEAN]] OBVIOUS
  <2>5. landed \in [Sectors -> [name : Names, offset : Int]] /\ written \in [Names -> Nat]
    BY DEF Names, Nowhere
  <2>6. sizing_part_sizes \in Seq(Nat) /\ output_manifest \in Seq([name : Nat, size : Nat]) OBVIOUS
  <2>7. /\ sizing_part_start \in 0 .. sizing_position
        /\ stream_part_start \in 0 .. stream_position
        /\ sizing_position \in Nat /\ stream_position \in Nat
        /\ header_index_pos \in 0 .. StartPosition
    BY <2>2
  <2>8. /\ sizing_next_sector \in 0 .. total_data_sectors
        /\ stream_next_sector \in 0 .. total_data_sectors
        /\ sector \in 0 .. total_data_sectors
        /\ image \in [Sectors -> StoredLens]
    BY <2>1
  <2>9. /\ sizing_done \in BOOLEAN /\ stream_part_needs_padding \in BOOLEAN
        /\ stream_part_index \in Nat /\ pc \in {"idle", "sizing", "emitting", "failed"}
        /\ max_bytes \in Nat /\ out_len \in Nat
    OBVIOUS
  <2> QED BY ONLY <2>1, <2>3, <2>4, <2>5, <2>6, <2>7, <2>8, <2>9 DEF TypeOK
<1>3. SizingOK
  <2>1. Sized = 0 BY DEF Sized
  <2>2. IndexOK(index_table, image, StartPosition, 0) BY DEF IndexOK
  <2>3. SizesOK(index_table, image, sizing_part_sizes, 0) BY DEF SizesOK
  <2>4. Aligned(0) BY DEF Aligned
  <2>5. StartPosition - 0 = StartPosition BY <1>1, ImageFacts
  <2> QED BY <2>1, <2>2, <2>3, <2>4, <2>5 DEF SizingOK, TailEnd
<1>4. PlanningOK BY DEF PlanningOK
<1>5. DoneOK /\ StreamOK BY DEF DoneOK, StreamOK
<1> QED BY <1>1, <1>3, <1>4, <1>5 DEF IInv

LEMMA BatchEndRange ==
  ASSUME TypeOK
  PROVE  BatchEnd \in 0 .. total_data_sectors /\ sizing_next_sector <= BatchEnd
BY CisoAssumption, ImageFacts DEF TypeOK, BatchEnd, Smaller

\* Entering the sizing loop keeps the invariant.
LEMMA HashNextPartIInv ==
  ASSUME IInv, HashNextPart
  PROVE  IInv'
<1> USE DEF IInv, HashNextPart, imageVars, sizingVars, streamVars, driverVars
<1>1. TypeOK' BY DEF TypeOK, Sectors, Names, StartPosition
<1>3. SizingOK'
  <2>1. sizing_next_sector <= BatchEnd BY BatchEndRange
  <2>2. Sized' = Sized BY DEF Sized
  <2> QED BY <2>1, <2>2 DEF SizingOK, StartPosition, BatchEnd
<1>4. PlanningOK' BY DEF PlanningOK, StartPosition, Names, Sectors
<1>5. DoneOK' /\ StreamOK' BY DEF DoneOK, StreamOK
<1> QED BY <1>1, <1>3, <1>4, <1>5

\* Giving the driver its turn after a batch keeps it.
LEMMA YieldBatchIInv ==
  ASSUME IInv, YieldBatch
  PROVE  IInv'
<1> USE DEF IInv, YieldBatch, imageVars, streamVars, driverVars
<1>0. ~sizing_done BY DEF StreamOK, Steady
<1>1. TypeOK'
  <2>1. BatchEnd \in 0 .. total_data_sectors BY BatchEndRange
  <2> QED BY <2>1 DEF TypeOK, Sectors, Names, StartPosition
<1>3. SizingOK'
  <2>1. Sized' = Sized BY DEF Sized
  <2> QED BY <2>1 DEF SizingOK, StartPosition
<1>4. PlanningOK' BY DEF PlanningOK, StartPosition, Names, Sectors
<1>5. DoneOK' /\ StreamOK' BY <1>0 DEF DoneOK, StreamOK
<1> QED BY <1>1, <1>3, <1>4, <1>5

\* Where the sizing pass stands before a sector, and what it does there.
LEMMA MakeRoomFacts ==
  ASSUME IInv, MakeRoom
  PROVE  /\ ~sizing_done /\ Sized = sector /\ sector \in 0 .. total_data_sectors - 1
         /\ IndexOK(index_table, image, StartPosition, sector)
         /\ SizesOK(index_table, image, sizing_part_sizes, sector)
         /\ sizing_part_sizes \in Seq(Nat) /\ sizing_part_sizes' \in Seq(Nat)
         /\ AlignedPosition \in Nat
         /\ sizing_part_start' \in Nat /\ sizing_part_start' <= AlignedPosition
         /\ Aligned(sizing_part_start')
         /\ LocalPosition = AlignedPosition - sizing_part_start'
         /\ LocalPosition \in Nat /\ Aligned(LocalPosition) /\ LocalPosition < SplitPoint
         /\ LocalPosition = IF sector = 0 THEN StartPosition
                            ELSE IF CutAfter(index_table, image, sector - 1) THEN 0
                            ELSE Rounded(EndAt(index_table, image, sector - 1))
         /\ SameSizes(index_table, sizing_part_sizes, sizing_part_sizes', sector)
         /\ IF sector > 0 /\ CutAfter(index_table, image, sector - 1)
            THEN /\ Len(sizing_part_sizes') = PartAt(index_table, sector - 1) + 1
                 /\ sizing_part_sizes'[PartAt(index_table, sector - 1) + 1]
                      = PaddedPartSize(Rounded(EndAt(index_table, image, sector - 1)))
            ELSE Len(sizing_part_sizes') =
                   IF sector = 0 THEN 0 ELSE PartAt(index_table, sector - 1)
<1> DEFINE n == sector
           tail == TailEnd(index_table, image, StartPosition, n)
           last == EndAt(index_table, image, n - 1)
<1>1. pc = "sizing" /\ sector < BatchEnd /\ ~sizing_done /\ TypeOK BY DEF MakeRoom, IInv, StreamOK, Steady
<1>2. Sized = n /\ n \in 0 .. total_data_sectors - 1 /\ n \in Nat
  <2>1. BatchEnd \in 0 .. total_data_sectors /\ sector \in 0 .. total_data_sectors
        /\ total_data_sectors \in Nat
    BY <1>1, BatchEndRange, ImageFacts DEF TypeOK
  <2> QED BY <1>1, <2>1 DEF Sized
<1>3. /\ IndexOK(index_table, image, StartPosition, n)
      /\ SizesOK(index_table, image, sizing_part_sizes, n)
      /\ Len(sizing_part_sizes) = IF n = 0 THEN 0 ELSE PartAt(index_table, n - 1)
      /\ sizing_position - sizing_part_start = tail
      /\ Aligned(sizing_part_start)
  BY <1>1, <1>2 DEF IInv, SizingOK
<1>4. n > 0 => /\ last \in Nat /\ Rounded(last) \in Nat
               /\ CutAfter(index_table, image, n - 1) <=> Rounded(last) >= SplitPoint
               /\ PartAt(index_table, n - 1) \in Nat
  <2> SUFFICES ASSUME n > 0
      PROVE  /\ last \in Nat /\ Rounded(last) \in Nat
             /\ CutAfter(index_table, image, n - 1) <=> Rounded(last) >= SplitPoint
             /\ PartAt(index_table, n - 1) \in Nat
    OBVIOUS
  <2>1. n - 1 \in 0 .. n - 1 /\ n - 1 \in Nat BY <1>2
  <2>2. image[n - 1] \in StoredLens
    <3>1. StoredSectors(image, total_data_sectors) /\ total_data_sectors \in Nat BY <1>1, ImageFacts
    <3>2. n - 1 \in 0 .. total_data_sectors - 1 BY <1>2, <2>1, <3>1
    <3> QED BY <3>1, <3>2 DEF StoredSectors
  <2>3. last \in Nat /\ Rounded(last) \in Nat BY <1>2, <1>3, <2>1, <2>2, SectorFacts
  <2>4. PartAt(index_table, n - 1) \in Nat BY <2>1, PartAtRange
  <2> QED BY <2>3, <2>4 DEF CutAfter
<1>5. StartPosition \in Nat /\ Aligned(StartPosition) /\ StartPosition < SplitPoint
      /\ SplitPoint \in Nat /\ 0 < SplitPoint
  BY <1>1, ImageFacts, CisoAssumption
<1>6. tail = IF n = 0 THEN StartPosition ELSE last BY DEF TailEnd
<1> HIDE DEF n, tail, last
<1>7. /\ tail \in Nat /\ Rounded(tail) \in Nat /\ Aligned(Rounded(tail))
      /\ Rounded(tail) >= SplitPoint <=> n > 0 /\ CutAfter(index_table, image, n - 1)
  <2>1. tail \in Nat BY <1>2, <1>4, <1>5, <1>6
  <2>2. Rounded(tail) \in Nat /\ Aligned(Rounded(tail)) BY <2>1, RoundedFacts
  <2>3. n = 0 => Rounded(tail) = StartPosition BY <1>5, <1>6, RoundedFacts
  <2> QED BY <1>2, <1>4, <1>5, <1>6, <2>1, <2>2, <2>3
<1>8. sizing_position \in Nat /\ sizing_part_start \in Nat
      /\ sizing_position = sizing_part_start + tail
  <2>1. sizing_position \in Nat /\ sizing_part_start \in Nat BY <1>1 DEF TypeOK
  <2> QED BY <1>3, <1>7, <2>1
<1>9. AlignedPosition = sizing_part_start + Rounded(tail)
  <2>1. AlignPadding(sizing_position) = AlignPadding(tail) BY <1>3, <1>7, <1>8, AlignedShift
  <2>2. AlignPadding(tail) \in Nat BY <1>7, RoundedFacts
  <2> QED BY <1>7, <1>8, <2>1, <2>2 DEF AlignedPosition, Rounded
<1>10. SizingSplits <=> Rounded(tail) >= SplitPoint BY <1>5, <1>7, <1>8, <1>9 DEF SizingSplits
<1>11. sizing_part_start' = IF Rounded(tail) >= SplitPoint THEN AlignedPosition ELSE sizing_part_start
  BY <1>10 DEF MakeRoom, PartStart
<1>12. LocalPosition = AlignedPosition - sizing_part_start' BY DEF LocalPosition, MakeRoom
<1>13. Aligned(AlignedPosition) BY <1>3, <1>7, <1>8, <1>9, AlignedSum
<1>14. LocalPosition = IF Rounded(tail) >= SplitPoint THEN 0 ELSE Rounded(tail)
  BY <1>7, <1>8, <1>9, <1>11, <1>12
<1>15. AlignedPosition \in Nat /\ sizing_part_start' \in Nat
       /\ sizing_part_start' <= AlignedPosition /\ Aligned(sizing_part_start')
  BY <1>3, <1>7, <1>8, <1>9, <1>11, <1>13
<1>16. LocalPosition \in Nat /\ Aligned(LocalPosition) /\ LocalPosition < SplitPoint
  <2>1. Aligned(0) BY CisoAssumption DEF Aligned
  <2> QED BY <1>5, <1>7, <1>14, <2>1
<1>17. LocalPosition = IF n = 0 THEN StartPosition
    ELSE IF CutAfter(index_table, image, n - 1) THEN 0 ELSE Rounded(last)
  <2>1. CASE n = 0
    <3>1. Rounded(tail) = StartPosition BY <1>5, <1>6, <2>1, RoundedFacts
    <3> QED BY <1>5, <1>14, <2>1, <3>1
  <2>2. CASE n # 0 BY <1>2, <1>6, <1>7, <1>14, <2>2
  <2> QED BY <2>1, <2>2
<1>18. sizing_part_sizes' = IF Rounded(tail) >= SplitPoint
    THEN Append(sizing_part_sizes, PaddedPartSize(Rounded(tail))) ELSE sizing_part_sizes
  <2>1. AlignedPosition - sizing_part_start = Rounded(tail) BY <1>7, <1>8, <1>9
  <2> QED BY <1>10, <2>1 DEF MakeRoom, PartSizes
<1>19. sizing_part_sizes \in Seq(Nat) BY <1>1 DEF TypeOK
<1>20. PaddedPartSize(Rounded(tail)) \in Nat BY <1>7, PaddedFacts
<1>21. sizing_part_sizes' \in Seq(Nat) BY <1>18, <1>19, <1>20
<1>22. SameSizes(index_table, sizing_part_sizes, sizing_part_sizes', n)
  <2> SUFFICES ASSUME n > 0, NEW p \in 1 .. PartAt(index_table, n - 1)
      PROVE  sizing_part_sizes'[p] = sizing_part_sizes[p]
    BY DEF SameSizes
  <2>1. p \in 1 .. Len(sizing_part_sizes) BY <1>2, <1>3
  <2> QED BY <1>18, <1>19, <1>20, <2>1
<1>23. IF n > 0 /\ CutAfter(index_table, image, n - 1)
       THEN /\ Len(sizing_part_sizes') = PartAt(index_table, n - 1) + 1
            /\ sizing_part_sizes'[PartAt(index_table, n - 1) + 1] = PaddedPartSize(Rounded(last))
       ELSE Len(sizing_part_sizes') = IF n = 0 THEN 0 ELSE PartAt(index_table, n - 1)
  <2>1. CASE n > 0 /\ CutAfter(index_table, image, n - 1)
    <3>1. sizing_part_sizes' = Append(sizing_part_sizes, PaddedPartSize(Rounded(last)))
      BY <1>2, <1>6, <1>7, <1>18, <2>1
    <3>2. PaddedPartSize(Rounded(last)) \in Nat BY <1>2, <1>6, <1>20, <2>1
    <3>3. Len(sizing_part_sizes) = PartAt(index_table, n - 1) BY <1>2, <1>3, <2>1
    <3> QED BY <1>19, <2>1, <3>1, <3>2, <3>3
  <2>2. CASE ~(n > 0 /\ CutAfter(index_table, image, n - 1)) BY <1>3, <1>7, <1>18, <2>2
  <2> QED BY <2>1, <2>2
<1> QED BY <1>1, <1>2, <1>3, <1>12, <1>15, <1>16, <1>17, <1>19, <1>21, <1>22, <1>23 DEF n, last

\* Nothing the streaming pass is asked about changes while the other runs.
LEMMA PlanningKept ==
  ASSUME PlanningOK, ~sizing_done, pc' # "emitting",
         UNCHANGED <<imageVars, output_manifest, streamVars, out_len, driverVars>>
  PROVE  PlanningOK'
BY DEF PlanningOK, imageVars, streamVars, driverVars, StartPosition, Names, Sectors

\* Sizing a sector keeps it.
LEMMA SizeSectorIInv ==
  ASSUME IInv, SizeSector
  PROVE  IInv'
<1> DEFINE n == sector
           entry == [position |-> LocalPosition \div AlignMult,
                     compressed |-> IsCompressed(image[n])]
<1>1. /\ TypeOK /\ PlanningOK
      /\ MakeRoom /\ pc = "sizing" /\ sector < BatchEnd
      /\ UNCHANGED <<imageVars, sizing_next_sector, sizing_done, output_manifest,
                     streamVars, current_entry_name, max_bytes, out_len, driverVars, pc>>
      /\ index_table' = [index_table EXCEPT ![n] = entry]
      /\ sizing_position' = AlignedPosition + image[n]
      /\ sector' = n + 1
  BY DEF IInv, SizeSector, MakeRoom
<1>2. /\ ~sizing_done /\ n \in 0 .. total_data_sectors - 1
      /\ IndexOK(index_table, image, StartPosition, n)
      /\ SizesOK(index_table, image, sizing_part_sizes, n)
      /\ sizing_part_sizes' \in Seq(Nat)
      /\ AlignedPosition \in Nat
      /\ sizing_part_start' \in Nat /\ sizing_part_start' <= AlignedPosition
      /\ Aligned(sizing_part_start')
      /\ LocalPosition = AlignedPosition - sizing_part_start'
      /\ LocalPosition \in Nat /\ Aligned(LocalPosition) /\ LocalPosition < SplitPoint
      /\ LocalPosition = IF n = 0 THEN StartPosition
                         ELSE IF CutAfter(index_table, image, n - 1) THEN 0
                         ELSE Rounded(EndAt(index_table, image, n - 1))
      /\ SameSizes(index_table, sizing_part_sizes, sizing_part_sizes', n)
  BY <1>1, MakeRoomFacts
<1>3. IF n > 0 /\ CutAfter(index_table, image, n - 1)
      THEN /\ Len(sizing_part_sizes') = PartAt(index_table, n - 1) + 1
           /\ sizing_part_sizes'[PartAt(index_table, n - 1) + 1]
                = PaddedPartSize(Rounded(EndAt(index_table, image, n - 1)))
      ELSE Len(sizing_part_sizes') = IF n = 0 THEN 0 ELSE PartAt(index_table, n - 1)
  BY <1>1, MakeRoomFacts
<1>4. /\ n \in Nat /\ total_data_sectors \in Nat /\ image[n] \in StoredLens
      /\ image[n] \in Nat /\ AlignMult \in Nat \ {0}
      /\ StoredSectors(image, n) /\ n \in 0 .. total_data_sectors
  <2>1. /\ StoredSectors(image, total_data_sectors) /\ total_data_sectors \in Nat
        /\ \A m \in 0 .. total_data_sectors : StoredSectors(image, m)
    BY <1>1, ImageFacts
  <2>2. n \in 0 .. total_data_sectors /\ n \in Nat BY <1>2, <2>1
  <2>3. image[n] \in StoredLens BY <1>2, <2>1 DEF StoredSectors
  <2>4. StoredLens \subseteq Nat BY CisoAssumption
  <2> QED BY <2>1, <2>2, <2>3, <2>4, CisoAssumption
<1>5. /\ LocalPosition \div AlignMult \in Nat
      /\ (LocalPosition \div AlignMult) * AlignMult = LocalPosition
  BY <1>2, <1>4, ExactMultiple DEF Aligned
<1>6. IsCompressed(image[n]) \in BOOLEAN BY DEF IsCompressed
<1>7. index_table \in [0 .. total_data_sectors -> [position : Nat, compressed : BOOLEAN]]
  BY <1>1 DEF TypeOK
<1>8. /\ index_table' \in [0 .. total_data_sectors -> [position : Nat, compressed : BOOLEAN]]
      /\ index_table'[n] = entry
      /\ SameEntries(index_table, index_table', n)
  <2>1. entry \in [position : Nat, compressed : BOOLEAN] BY <1>5, <1>6
  <2> HIDE DEF entry
  <2> QED BY <1>1, <1>4, <1>7, <2>1 DEF SameEntries
<1>9. /\ index_table'[n].position \in Nat
      /\ index_table'[n].compressed = IsCompressed(image[n])
      /\ PosAt(index_table', n) = LocalPosition
  BY <1>5, <1>8 DEF PosAt
<1> HIDE DEF n, entry
<1>10. /\ IndexOK(index_table', image, StartPosition, n + 1)
       /\ SizesOK(index_table', image, sizing_part_sizes', n + 1)
       /\ PartAt(index_table', n) = IF n = 0 THEN 0
                                    ELSE IF CutAfter(index_table, image, n - 1)
                                         THEN PartAt(index_table, n - 1) + 1
                                         ELSE PartAt(index_table, n - 1)
  <2> DEFINE jdx == index_table'
             sizes2 == sizing_part_sizes'
  <2>1. SameEntries(index_table, jdx, n) /\ SameSizes(index_table, sizing_part_sizes, sizes2, n)
    BY <1>2, <1>8
  <2>2. n > 0 /\ CutAfter(index_table, image, n - 1) =>
          sizes2[PartAt(index_table, n - 1) + 1]
            = PaddedPartSize(Rounded(EndAt(index_table, image, n - 1)))
    BY <1>3
  <2>3. /\ jdx[n].position \in Nat /\ jdx[n].compressed = IsCompressed(image[n])
        /\ PosAt(jdx, n) < SplitPoint
        /\ PosAt(jdx, n) = IF n = 0 THEN StartPosition
                           ELSE IF CutAfter(index_table, image, n - 1) THEN 0
                           ELSE Rounded(EndAt(index_table, image, n - 1))
    BY <1>2, <1>9
  <2> HIDE DEF jdx, sizes2
  <2>4. /\ IndexOK(jdx, image, StartPosition, n + 1)
        /\ SizesOK(jdx, image, sizes2, n + 1)
        /\ PartAt(jdx, n) = IF n = 0 THEN 0 ELSE IF CutAfter(index_table, image, n - 1)
                                 THEN PartAt(index_table, n - 1) + 1
                                 ELSE PartAt(index_table, n - 1)
    BY <1>2, <1>4, <2>1, <2>2, <2>3, LayoutExtended
  <2> QED BY <2>4 DEF jdx, sizes2
<1>11. Len(sizing_part_sizes') = PartAt(index_table', n) BY <1>3, <1>4, <1>10
<1>12. sizing_position' - sizing_part_start' = EndAt(index_table', image, n)
  <2>1. EndAt(index_table', image, n) = LocalPosition + image[n] BY <1>9 DEF EndAt
  <2>2. sizing_position' = AlignedPosition + image[n] BY <1>1 DEF n
  <2>3. /\ AlignedPosition \in Nat /\ sizing_part_start' \in Nat /\ image[n] \in Nat
        /\ LocalPosition = AlignedPosition - sizing_part_start'
    BY <1>2, <1>4
  <2> QED BY ONLY <2>1, <2>2, <2>3
<1>13. TypeOK'
  <2>1. /\ sizing_position' \in Nat /\ sizing_part_start' \in 0 .. sizing_position'
        /\ sector' \in 0 .. total_data_sectors
    <3>1. sizing_position' = AlignedPosition + image[n] /\ sector' = n + 1 BY <1>1 DEF n
    <3> QED BY <1>2, <1>4, <3>1
  <2>2. index_table' \in [0 .. total_data_sectors -> [position : Nat, compressed : BOOLEAN]]
        /\ sizing_part_sizes' \in Seq(Nat)
    BY <1>2, <1>8
  <2>3. TypeOK /\ UNCHANGED <<imageVars, sizing_next_sector, sizing_done, output_manifest,
                     streamVars, current_entry_name, max_bytes, out_len, driverVars, pc>>
    BY <1>1
  <2> QED
    BY ONLY <2>1, <2>2, <2>3 DEF TypeOK, imageVars, streamVars, driverVars, Sectors, Names, StartPosition
<1>14. StartPosition' = StartPosition /\ image' = image BY <1>1 DEF StartPosition, imageVars
<1>15. SizingOK'
  <2>1. Sized' = n + 1 /\ sector' = n + 1 BY <1>1 DEF Sized, n
  <2>2. sector' <= BatchEnd'
    <3>1. BatchEnd' = BatchEnd BY <1>1 DEF BatchEnd, imageVars
    <3>2. BatchEnd \in Nat /\ n < BatchEnd BY <1>1, BatchEndRange DEF n
    <3> QED BY <1>4, <2>1, <3>1, <3>2
  <2>3. n + 1 # 0 /\ (n + 1) - 1 = n BY <1>4
  <2>4. TailEnd(index_table', image, StartPosition, n + 1) = EndAt(index_table', image, n)
    BY <2>3 DEF TailEnd
  <2> QED BY <1>2, <1>10, <1>11, <1>12, <1>14, <2>1, <2>2, <2>3, <2>4 DEF SizingOK
<1>16. PlanningOK' BY <1>1, <1>2, PlanningKept
<1>17. ~sizing_done' BY <1>1, <1>2
<1>18. DoneOK' /\ StreamOK' BY <1>17 DEF DoneOK, StreamOK
<1> QED BY <1>13, <1>15, <1>16, <1>18 DEF IInv

\* A failed read leaves a session that is never published.
LEMMA SizingReadFailsIInv ==
  ASSUME IInv, SizingReadFails
  PROVE  IInv'
<1>1. /\ TypeOK /\ PlanningOK
      /\ MakeRoom /\ pc' = "failed" /\ UNCHANGED <<index_table, sector>>
      /\ UNCHANGED <<imageVars, sizing_next_sector, sizing_done, output_manifest,
                     streamVars, current_entry_name, max_bytes, out_len, driverVars>>
      /\ sizing_position' = AlignedPosition
  BY DEF IInv, SizingReadFails, MakeRoom
<1>2. /\ ~sizing_done /\ sizing_part_sizes' \in Seq(Nat)
      /\ AlignedPosition \in Nat
      /\ sizing_part_start' \in Nat /\ sizing_part_start' <= AlignedPosition
  BY <1>1, MakeRoomFacts
<1>3. TypeOK'
  <2>1. sizing_position' \in Nat /\ sizing_part_start' \in 0 .. sizing_position' BY <1>1, <1>2
  <2>2. pc' \in {"idle", "sizing", "emitting", "failed"} BY <1>1
  <2> QED
    BY ONLY <1>1, <1>2, <2>1, <2>2 DEF TypeOK, imageVars, streamVars, driverVars, Sectors, Names,
       StartPosition
<1>5. ~sizing_done' /\ pc' = "failed" BY <1>1, <1>2
<1>6. SizingOK' /\ DoneOK' /\ StreamOK' BY <1>5 DEF SizingOK, DoneOK, StreamOK
<1>7. PlanningOK' BY <1>1, <1>2, <1>5, PlanningKept
<1> QED BY <1>3, <1>6, <1>7 DEF IInv

\* The files of up to MaxSectors parts have names of their own.
LEMMA NamesDiffer ==
  ASSUME NEW k \in 1 .. MaxSectors, MaxSectors \in Nat
  PROVE  /\ \A p \in 0 .. k - 1 : OutputNameFor(p, k) \in Names /\ OutputNameFor(p, k) \in 0 .. k
         /\ \A p, q \in 0 .. k - 1 : OutputNameFor(p, k) = OutputNameFor(q, k) => p = q
<1>1. CASE k <= 1
  <2>1. k = 1 /\ \A p \in 0 .. k - 1 : p = 0 BY <1>1
  <2> QED BY <1>1, <2>1 DEF OutputNameFor, Names
<1>2. CASE ~(k <= 1)
  <2>1. \A p \in 0 .. k - 1 : OutputNameFor(p, k) = p + 1 BY <1>2 DEF OutputNameFor
  <2> QED BY <2>1 DEF Names
<1> QED BY <1>1, <1>2

\* What a reader or the streaming pass can rely on.
LEMMA DoneFacts ==
  ASSUME TypeOK, DoneOK, sizing_done
  PROVE  /\ IndexOK(index_table, image, StartPosition, total_data_sectors)
         /\ SizesOK(index_table, image, sizing_part_sizes, total_data_sectors)
         /\ total_data_sectors - 1 \in Nat
         /\ TotalParts = PartAt(index_table, total_data_sectors - 1) + 1
         /\ TotalParts \in 1 .. total_data_sectors /\ TotalParts \in 1 .. MaxSectors
         /\ sizing_part_sizes[PartAt(index_table, total_data_sectors - 1) + 1]
              = PaddedPartSize(EndAt(index_table, image, total_data_sectors - 1))
         /\ \A p \in 0 .. TotalParts - 1 : /\ SplitName(p) \in Names
                                           /\ SplitName(p) \in 0 .. TotalParts
                                           /\ sizing_part_sizes[p + 1] \in Nat
         /\ \A p, q \in 0 .. TotalParts - 1 : SplitName(p) = SplitName(q) => p = q
         /\ \A s \in Sectors : PartAt(index_table, s) \in 0 .. TotalParts - 1
         /\ \A s \in Sectors : /\ EndAt(index_table, image, s)
                                    <= sizing_part_sizes[PartAt(index_table, s) + 1]
                               /\ sizing_part_sizes[PartAt(index_table, s) + 1] \in Nat
<1> DEFINE total == total_data_sectors
<1>1. total \in Nat \ {0} /\ total \in 1 .. MaxSectors /\ MaxSectors \in Nat
      /\ StoredSectors(image, total)
  BY ImageFacts
<1>2. /\ IndexOK(index_table, image, StartPosition, total)
      /\ SizesOK(index_table, image, sizing_part_sizes, total)
      /\ TotalParts = PartAt(index_table, total - 1) + 1
      /\ sizing_part_sizes[PartAt(index_table, total - 1) + 1]
           = PaddedPartSize(EndAt(index_table, image, total - 1))
  BY DEF DoneOK
<1>3. total - 1 \in Nat BY <1>1
<1>4. PartAt(index_table, total - 1) \in 0 .. total - 1 BY <1>3, PartAtRange
<1>5. TotalParts \in 1 .. total /\ TotalParts \in 1 .. MaxSectors BY <1>1, <1>2, <1>4
<1>6. /\ \A p \in 0 .. TotalParts - 1 : SplitName(p) \in Names /\ SplitName(p) \in 0 .. TotalParts
      /\ \A p, q \in 0 .. TotalParts - 1 : SplitName(p) = SplitName(q) => p = q
  BY <1>1, <1>5, NamesDiffer DEF SplitName
<1>7. \A p \in 0 .. TotalParts - 1 : sizing_part_sizes[p + 1] \in Nat
  <2>1. sizing_part_sizes \in Seq(Nat) /\ TotalParts = Len(sizing_part_sizes) BY DEF TypeOK, TotalParts
  <2>2. \A p \in 0 .. TotalParts - 1 : p + 1 \in 1 .. Len(sizing_part_sizes) BY <1>5, <2>1
  <2> QED BY <2>1, <2>2
<1>8. ASSUME NEW s \in Sectors PROVE PartAt(index_table, s) \in 0 .. TotalParts - 1
  <2>1. s \in Nat /\ s <= total - 1 BY <1>1 DEF Sectors
  <2>2. PartAt(index_table, s) <= PartAt(index_table, total - 1) /\ PartAt(index_table, s) \in Nat
    BY <1>3, <2>1, PartAtMonotonic, PartAtRange
  <2> QED BY <1>2, <1>4, <2>2
<1>9. ASSUME NEW s \in Sectors
      PROVE  /\ EndAt(index_table, image, s) <= sizing_part_sizes[PartAt(index_table, s) + 1]
             /\ sizing_part_sizes[PartAt(index_table, s) + 1] \in Nat
  <2>1. s \in 0 .. total - 1 BY DEF Sectors
  <2> QED BY <1>1, <1>2, <2>1, SizesBound
<1> QED BY <1>2, <1>3, <1>5, <1>6, <1>7, <1>8, <1>9

\* Publishing the manifest keeps it.
LEMMA FinishLastBatchIInv ==
  ASSUME IInv, FinishLastBatch
  PROVE  IInv'
<1> DEFINE n == total_data_sectors
           jdx == index_table'
           sizes2 == sizing_part_sizes'
           end == EndAt(index_table, image, n - 1)
           entry == [position |-> end \div AlignMult, compressed |-> FALSE]
           last == PartAt(index_table, n - 1) + 1
<1>1. /\ TypeOK /\ PlanningOK /\ SizingOK /\ StreamOK
      /\ pc = "sizing" /\ pc' = "idle" /\ sector = n /\ sizing_done' = TRUE
      /\ UNCHANGED <<imageVars, sizing_position, streamVars, sector, max_bytes,
                     out_len, driverVars>>
      /\ sizing_part_start' = sizing_position
      /\ sizing_next_sector' = BatchEnd
  BY DEF IInv, FinishLastBatch
<1>2. ~sizing_done BY <1>1 DEF StreamOK, Steady
<1>3. /\ n \in Nat \ {0} /\ n - 1 \in Nat /\ n - 1 \in 0 .. n - 1 /\ n # 0
      /\ n \in 1 .. MaxSectors /\ MaxSectors \in Nat
      /\ StoredSectors(image, n)
      /\ StartPosition \in Nat /\ 0 < StartPosition /\ Aligned(StartPosition)
      /\ AlignMult \in Nat \ {0}
  BY <1>1, ImageFacts, CisoAssumption
<1>4. Sized = n BY <1>1 DEF Sized
<1>5. /\ IndexOK(index_table, image, StartPosition, n)
      /\ SizesOK(index_table, image, sizing_part_sizes, n)
      /\ Len(sizing_part_sizes) = PartAt(index_table, n - 1)
      /\ sizing_position - sizing_part_start = end
  BY <1>1, <1>2, <1>3, <1>4 DEF SizingOK, TailEnd
<1>6. end \in Nat BY <1>3, <1>5, SectorFacts DEF StoredSectors
<1>7. end \div AlignMult \in Nat BY <1>3, <1>6, DivMod
<1>8. /\ jdx = [index_table EXCEPT ![n] = entry]
      /\ sizes2 = Append(sizing_part_sizes, PaddedPartSize(end))
      /\ output_manifest' = [p \in 1 .. Len(sizes2) |->
                               [name |-> OutputNameFor(p - 1, Len(sizes2)), size |-> sizes2[p]]]
      /\ current_entry_name' = OutputNameFor(0, Len(sizes2))
  <2>1. PartSizes(sizing_position) = Append(sizing_part_sizes, PaddedPartSize(end)) BY <1>5 DEF PartSizes
  <2>2. sizes2 = PartSizes(sizing_position) BY DEF FinishLastBatch
  <2> QED BY <1>5, <2>1, <2>2 DEF FinishLastBatch
<1>9. /\ index_table \in [0 .. n -> [position : Nat, compressed : BOOLEAN]]
      /\ sizing_part_sizes \in Seq(Nat)
  BY <1>1 DEF TypeOK
<1>10. /\ jdx \in [0 .. n -> [position : Nat, compressed : BOOLEAN]]
       /\ jdx[n] = entry
       /\ SameEntries(index_table, jdx, n)
  <2>1. entry \in [position : Nat, compressed : BOOLEAN] BY <1>7
  <2> HIDE DEF entry, end
  <2> QED BY <1>3, <1>8, <1>9, <2>1 DEF SameEntries
<1>11. /\ sizes2 \in Seq(Nat) /\ Len(sizes2) = last
       /\ sizes2[last] = PaddedPartSize(end)
       /\ SameSizes(index_table, sizing_part_sizes, sizes2, n)
  <2>1. PaddedPartSize(end) \in Nat BY <1>6, PaddedFacts
  <2>2. \A p \in 1 .. PartAt(index_table, n - 1) : p \in 1 .. Len(sizing_part_sizes) BY <1>5
  <2> HIDE DEF end
  <2>3. sizes2 \in Seq(Nat) /\ Len(sizes2) = Len(sizing_part_sizes) + 1
        /\ sizes2[Len(sizing_part_sizes) + 1] = PaddedPartSize(end)
        /\ \A p \in 1 .. Len(sizing_part_sizes) : sizes2[p] = sizing_part_sizes[p]
    BY <1>8, <1>9, <2>1
  <2> HIDE DEF sizes2
  <2> QED BY <1>5, <2>2, <2>3 DEF SameSizes
<1>12. jdx[n].position = end \div AlignMult BY <1>10
<1> HIDE DEF jdx, sizes2, end, entry
<1>13. /\ IndexOK(jdx, image, StartPosition, n) /\ SizesOK(jdx, image, sizes2, n)
       /\ \A s \in 0 .. n - 1 : /\ PartAt(jdx, s) = PartAt(index_table, s)
                                /\ PosAt(jdx, s) = PosAt(index_table, s)
                                /\ EndAt(jdx, image, s) = EndAt(index_table, image, s)
  <2>1. /\ n \in Nat /\ StoredSectors(image, n)
        /\ IndexOK(index_table, image, StartPosition, n)
        /\ SizesOK(index_table, image, sizing_part_sizes, n)
        /\ SameEntries(index_table, jdx, n)
        /\ SameSizes(index_table, sizing_part_sizes, sizes2, n)
    BY <1>3, <1>5, <1>10, <1>11
  <2> HIDE DEF n
  <2> QED BY ONLY <2>1, LayoutSame
<1>14. PartAt(jdx, n - 1) + 1 = last /\ EndAt(jdx, image, n - 1) = end BY <1>3, <1>13 DEF end
<1>15. last \in 1 .. MaxSectors
  <2>1. PartAt(index_table, n - 1) \in 0 .. n - 1 BY <1>3, PartAtRange
  <2> QED BY <1>3, <2>1
<1> HIDE DEF last
<1>16. /\ \A p \in 0 .. last - 1 : OutputNameFor(p, last) \in Names
                                   /\ OutputNameFor(p, last) \in 0 .. last
  BY <1>3, <1>15, NamesDiffer
<1>17. /\ output_manifest' = [p \in 1 .. last |->
                                [name |-> OutputNameFor(p - 1, last), size |-> sizes2[p]]]
       /\ current_entry_name' = OutputNameFor(0, last)
  BY <1>8, <1>11
<1>18. /\ output_manifest' \in Seq([name : Nat, size : Nat])
       /\ Len(output_manifest') = last
  <2>1. \A p \in 1 .. last : /\ OutputNameFor(p - 1, last) \in Nat
                             /\ sizes2[p] \in Nat
    <3>1. \A p \in 1 .. last : p - 1 \in 0 .. last - 1 /\ last \in Nat BY <1>15
    <3> QED BY <1>11, <1>16, <3>1
  <2> DEFINE Entry(p) == [name |-> OutputNameFor(p - 1, last), size |-> sizes2[p]]
  <2>2. \A p \in 1 .. last : Entry(p) \in [name : Nat, size : Nat] BY <2>1
  <2>3. output_manifest' = [p \in 1 .. last |-> Entry(p)] /\ last \in Nat BY <1>15, <1>17
  <2> HIDE DEF Entry
  <2> QED BY <2>2, <2>3
<1>19. /\ image' = image /\ total_data_sectors' = n /\ StartPosition' = StartPosition
       /\ Names' = Names /\ Sectors' = Sectors
       /\ TotalParts' = last
       /\ \A p : SplitName(p)' = OutputNameFor(p, last)
  <2>1. TotalParts' = last BY <1>11 DEF TotalParts, sizes2
  <2> QED BY <1>1, <2>1 DEF imageVars, StartPosition, Names, Sectors, SplitName
<1>20. TypeOK'
  <2>1. sizing_part_start' \in 0 .. sizing_position' /\ sizing_position' \in Nat BY <1>1 DEF TypeOK
  <2>2. current_entry_name' \in Names
    <3>1. 0 \in 0 .. last - 1 BY <1>15
    <3> QED BY <1>16, <1>17, <3>1
  <2>3. sizing_next_sector' \in 0 .. total_data_sectors BY <1>1, BatchEndRange
  <2>4. sizing_part_sizes' \in Seq(Nat) /\ sizing_done' \in BOOLEAN
        /\ pc' \in {"idle", "sizing", "emitting", "failed"}
    BY <1>1, <1>11 DEF sizes2
  <2>5. index_table' \in [0 .. total_data_sectors -> [position : Nat, compressed : BOOLEAN]]
    BY <1>10 DEF jdx
  <2>6. /\ TypeOK /\ UNCHANGED <<imageVars, streamVars, sector, max_bytes, out_len, driverVars>> BY <1>1
  <2> QED
    BY ONLY <1>18, <1>19, <2>1, <2>2, <2>3, <2>4, <2>5, <2>6 DEF TypeOK, imageVars, streamVars, driverVars
<1>22. SizingOK' /\ PlanningOK' BY <1>1 DEF SizingOK, PlanningOK
<1>23. DoneOK'
  <2>1. /\ IndexOK(index_table', image, StartPosition, n)
        /\ SizesOK(index_table', image, sizing_part_sizes', n)
        /\ PartAt(index_table', n - 1) + 1 = last
        /\ sizing_part_sizes'[last] = PaddedPartSize(EndAt(index_table', image, n - 1))
        /\ index_table'[n].position = EndAt(index_table', image, n - 1) \div AlignMult
    BY <1>11, <1>12, <1>13, <1>14 DEF jdx, sizes2
  <2>2. output_manifest' = [p \in 1 .. TotalParts' |->
      [name |-> SplitName(p - 1)', size |-> sizing_part_sizes'[p]]]
    BY <1>17, <1>19 DEF sizes2
  <2> QED BY <1>19, <2>1, <2>2 DEF DoneOK
<1>24. StreamOK'
  <2>1. /\ header_index_pos' = 0 /\ stream_next_sector' = 0
        /\ stream_position' = StartPosition /\ stream_part_start' = 0
        /\ stream_part_index' = 0 /\ stream_part_needs_padding' = FALSE
        /\ out_len' = 0
        /\ written' = [name \in Names |-> 0]
        /\ landed' = [s \in Sectors |-> Nowhere]
    BY <1>1, <1>2 DEF PlanningOK, streamVars, driverVars
  <2>2. PartAt(index_table', 0) = 0 BY PartAtFirst
  <2>3. PosAt(index_table', 0) = StartPosition BY <1>3, <1>13 DEF IndexOK, jdx
  <2>4. AlignPadding(StartPosition) = 0 /\ Aligned(0)
    <3>1. AlignPadding(StartPosition) = 0 BY <1>3, RoundedFacts
    <3> QED BY <3>1, CisoAssumption DEF Aligned
  <2>5. Local' + AlignPadding(stream_position') = PosAt(index_table', 0)
    <3>1. Local' = StartPosition BY <1>3, <2>1 DEF Local
    <3> QED BY <1>3, <2>1, <2>3, <2>4, <3>1
  <2>6. ~AllStreamed' BY <1>3, <1>19, <2>1 DEF AllStreamed
  <2>7. \A p \in 0 .. TotalParts' - 1 : written'[SplitName(p)'] = BytesOf(p)'
    <3> SUFFICES ASSUME NEW p \in 0 .. last - 1
        PROVE  written'[OutputNameFor(p, last)] = BytesOf(p)'
      BY <1>19
    <3>1. written'[OutputNameFor(p, last)] = 0 BY <1>16, <2>1
    <3>2. p \in Nat BY <1>15
    <3>3. BytesOf(p)' = 0 BY <1>3, <1>19, <2>1, <3>2 DEF BytesOf
    <3> QED BY <3>1, <3>3
  <2>8. \A s \in Sectors' : ~(s < stream_next_sector') /\ landed'[s] = Nowhere
    BY <1>3, <1>19, <2>1 DEF Sectors
  <2>9. LandedOK' BY <2>8 DEF LandedOK, LandedAt
  <2>10. InPlace' BY <1>3, <1>19, <2>1, <2>2, <2>4, <2>5, <2>6, <2>7 DEF InPlace, BytesOK
  <2>11. Steady'
    <3>1. written'[OutputNameFor(0, last)] = 0
      <4>1. 0 \in 0 .. last - 1 BY <1>15
      <4> QED BY <1>16, <2>1, <4>1
    <3>2. header_index_pos' <= written'[SplitName(0)'] BY <1>19, <2>1, <3>1
    <3> QED BY <1>1, <1>3, <1>19, <2>1, <2>6, <3>2 DEF Steady
  <2> QED BY <2>9, <2>10, <2>11 DEF StreamOK
<1> QED BY <1>20, <1>22, <1>23, <1>24 DEF IInv

-----------------------------------------------------------------------------
(* The streaming pass                                                        *)

\* What the sizing pass left behind does not change any more.
LEMMA SizingKept ==
  ASSUME IInv, sizing_done, UNCHANGED <<imageVars, sizingVars>>
  PROVE  /\ sizing_done'
         /\ SizingOK' /\ PlanningOK' /\ DoneOK'
         /\ image' = image /\ index_table' = index_table
         /\ total_data_sectors' = total_data_sectors
         /\ sizing_part_sizes' = sizing_part_sizes
         /\ StartPosition' = StartPosition /\ TotalParts' = TotalParts
         /\ Sectors' = Sectors /\ Names' = Names
         /\ \A p : SplitName(p)' = SplitName(p)
         /\ \A s : InStep(s)' = InStep(s)
<1> USE DEF imageVars, sizingVars
<1>1. /\ sizing_done' /\ StartPosition' = StartPosition /\ TotalParts' = TotalParts
      /\ Sectors' = Sectors /\ Names' = Names
      /\ \A p : SplitName(p)' = SplitName(p)
  BY DEF StartPosition, TotalParts, Sectors, Names, SplitName
<1>2. SizingOK' /\ PlanningOK' BY <1>1 DEF SizingOK, PlanningOK
<1>3. DoneOK' BY <1>1 DEF IInv, DoneOK
<1>4. \A s : InStep(s)' = InStep(s) BY DEF InStep
<1> QED BY <1>1, <1>2, <1>3, <1>4

\* Parts that end aligned up to a sector do so up to an earlier one.
LEMMA InStepBefore ==
  ASSUME NEW s \in Int, NEW t \in Int, s <= t, InStep(t)
  PROVE  InStep(s)
<1>1. \A b \in 1 .. s : b \in 1 .. t OBVIOUS
<1> QED BY <1>1 DEF InStep

\* The types of the cursors, and of what they point at.
LEMMA CursorFacts ==
  ASSUME IInv, sizing_done
  PROVE  /\ TypeOK /\ DoneOK /\ StreamOK
         /\ Steady /\ LandedOK /\ (OnTrack => InPlace)
         /\ total_data_sectors \in Nat /\ 0 < total_data_sectors
         /\ stream_next_sector \in Nat /\ stream_next_sector <= total_data_sectors
         /\ stream_position \in Nat /\ stream_part_start \in Nat
         /\ stream_part_start <= stream_position /\ Local \in Nat
         /\ stream_position = stream_part_start + Local
         /\ StartPosition \in Nat /\ 0 < StartPosition /\ Aligned(StartPosition)
         /\ header_index_pos \in Nat /\ header_index_pos <= StartPosition
         /\ stream_part_index \in Nat
         /\ out_len \in Nat /\ max_bytes \in Nat
         /\ 0 \in 0 .. TotalParts - 1 /\ SplitName(0) \in Names
<1>1. TypeOK /\ DoneOK /\ StreamOK BY DEF IInv
<1>2. total_data_sectors \in Nat /\ 0 < total_data_sectors
      /\ StartPosition \in Nat /\ 0 < StartPosition /\ Aligned(StartPosition)
  BY <1>1, ImageFacts
<1>3. /\ stream_next_sector \in Nat /\ stream_next_sector <= total_data_sectors
      /\ stream_position \in Nat /\ stream_part_start \in Nat
      /\ stream_part_start <= stream_position
      /\ header_index_pos \in Nat /\ header_index_pos <= StartPosition
      /\ stream_part_index \in Nat
      /\ out_len \in Nat /\ max_bytes \in Nat
  BY <1>1, <1>2 DEF TypeOK
<1>4. Local \in Nat /\ stream_position = stream_part_start + Local BY <1>3 DEF Local
<1>5. 0 \in 0 .. TotalParts - 1 /\ SplitName(0) \in Names
  <2>1. /\ TotalParts \in 1 .. total_data_sectors
        /\ \A p \in 0 .. TotalParts - 1 : SplitName(p) \in Names
    BY <1>1, DoneFacts
  <2>2. 0 \in 0 .. TotalParts - 1 BY <1>2, <2>1
  <2> QED BY <2>1, <2>2
<1>6. Steady /\ LandedOK /\ (OnTrack => InPlace) BY <1>1 DEF StreamOK
<1> QED BY <1>1, <1>2, <1>3, <1>4, <1>5, <1>6

\* While sectors or their padding remain, the current part has a file.
LEMMA CurrentName ==
  ASSUME IInv, sizing_done,
         stream_part_needs_padding \/ stream_next_sector < total_data_sectors
  PROVE  SplitName(stream_part_index) \in Names
<1>1. /\ TypeOK /\ Steady /\ total_data_sectors \in Nat
      /\ stream_next_sector \in Nat /\ stream_next_sector <= total_data_sectors
      /\ stream_part_index \in Nat
  BY CursorFacts
<1>2. stream_part_index + 1 <= total_data_sectors BY <1>1 DEF Steady
<1>3. total_data_sectors \in 1 .. MaxSectors /\ MaxSectors \in Nat BY <1>1, ImageFacts
<1>4. stream_part_index + 1 \in 0 .. MaxSectors /\ 0 \in 0 .. MaxSectors BY <1>1, <1>2, <1>3
<1> QED BY <1>4 DEF SplitName, OutputNameFor, Names

\* On track the current part is one of the parts of the index.
LEMMA TrackFacts ==
  ASSUME IInv, sizing_done, OnTrack
  PROVE  InPlace /\ stream_part_index \in 0 .. TotalParts - 1
<1>1. /\ TypeOK /\ DoneOK /\ InPlace /\ Steady
      /\ total_data_sectors \in Nat /\ 0 < total_data_sectors
      /\ stream_next_sector \in Nat /\ stream_next_sector <= total_data_sectors
  BY CursorFacts
<1>2. \A s \in Sectors : PartAt(index_table, s) \in 0 .. TotalParts - 1 BY <1>1, DoneFacts
<1>3. CASE stream_part_needs_padding \/ AllStreamed
  <2>1. stream_part_index = PartAt(index_table, stream_next_sector - 1) /\ stream_next_sector > 0
    BY <1>1, <1>3 DEF InPlace, Steady, AllStreamed
  <2>2. stream_next_sector - 1 \in Sectors BY <1>1, <2>1 DEF Sectors
  <2> QED BY <1>1, <1>2, <2>1, <2>2
<1>4. CASE ~(stream_part_needs_padding \/ AllStreamed)
  <2>1. stream_next_sector < total_data_sectors BY <1>1, <1>4 DEF AllStreamed
  <2>2. stream_part_index = PartAt(index_table, stream_next_sector) BY <1>1, <1>4, <2>1 DEF InPlace
  <2>3. stream_next_sector \in Sectors BY <1>1, <2>1 DEF Sectors
  <2> QED BY <1>1, <1>2, <2>2, <2>3
<1> QED BY <1>3, <1>4

\* What was streamed does not move, and its file does not shrink.
LEMMA LandedKept ==
  ASSUME IInv, sizing_done, UNCHANGED <<imageVars, sizingVars, landed, stream_next_sector>>,
         \A name \in Names : Given(name) \in Nat /\ Given(name)' \in Nat /\ Given(name) <= Given(name)'
  PROVE  LandedOK'
<1>1. LandedOK /\ TypeOK BY CursorFacts
<1>2. /\ Sectors' = Sectors /\ \A p : SplitName(p)' = SplitName(p)
      /\ \A s : InStep(s)' = InStep(s)
      /\ image' = image /\ index_table' = index_table
  BY SizingKept
<1>3. /\ landed' = landed /\ stream_next_sector' = stream_next_sector OBVIOUS
<1>4. SUFFICES ASSUME NEW s \in Sectors
    PROVE  LandedAt(s)'
  BY <1>2 DEF LandedOK
<1>5. LandedAt(s) BY <1>1 DEF LandedOK
<1>6. CASE s < stream_next_sector
  <2>1. landed[s].name \in Names /\ landed[s].offset \in Int /\ image[s] \in Nat
    <3>1. landed[s] \in [name : Names, offset : Int] /\ image[s] \in StoredLens BY <1>1 DEF TypeOK
    <3>2. StoredLens \subseteq Nat BY CisoAssumption
    <3> QED BY <3>1, <3>2
  <2>2. /\ landed[s].offset + image[s] <= Given(landed[s].name)
        /\ InStep(s) => landed[s] = [name |-> SplitName(PartAt(index_table, s)),
                                     offset |-> PosAt(index_table, s)]
    BY <1>5, <1>6 DEF LandedAt
  <2>3. \A name \in Names : Given(name) \in Nat /\ GivenAfter(name) \in Nat
                             /\ Given(name) <= GivenAfter(name)
    BY DEF Given, GivenAfter
  <2>4. landed'[s].offset + image[s] <= GivenAfter(landed'[s].name) BY <1>3, <2>1, <2>2, <2>3
  <2>5. InStep(s)' => landed'[s] = [name |-> SplitName(PartAt(index_table, s))',
      offset |-> PosAt(index_table, s)']
    BY <1>2, <1>3, <2>2 DEF PosAt, PartAt, Begins
  <2> QED BY <1>2, <1>3, <1>6, <2>4, <2>5 DEF LandedAt, Given, GivenAfter
<1>7. CASE ~(s < stream_next_sector)
  <2>1. landed[s] = Nowhere BY <1>5, <1>7 DEF LandedAt
  <2> QED BY <1>3, <1>7, <2>1 DEF LandedAt, Nowhere
<1> QED BY <1>6, <1>7

\* Appending to a file changes the length of no other.
LEMMA AppendFacts ==
  ASSUME TypeOK, NEW name \in Names, NEW k \in Nat, AppendToFile(name, k)
  PROVE  /\ written' \in [Names -> Nat]
         /\ written'[name] = written[name] + k
         /\ written[name] \in Nat
         /\ \A other \in Names : /\ written[other] \in Nat /\ written[other] <= written'[other]
                                 /\ other # name => written'[other] = written[other]
<1>1. written \in [Names -> Nat] /\ written' = [written EXCEPT ![name] = @ + k]
  BY DEF TypeOK, AppendToFile
<1> QED BY <1>1

\* Appending to a part's file changes the length of no other part's.
LEMMA AppendToPart ==
  ASSUME IInv, sizing_done, NEW q \in 0 .. TotalParts - 1, NEW k \in Nat,
         AppendToFile(SplitName(q), k)
  PROVE  /\ written'[SplitName(q)] = written[SplitName(q)] + k
         /\ written[SplitName(q)] \in Nat
         /\ \A p \in 0 .. TotalParts - 1 :
              p # q => written'[SplitName(p)] = written[SplitName(p)]
<1>1. /\ \A p \in 0 .. TotalParts - 1 : SplitName(p) \in Names
      /\ \A p, r \in 0 .. TotalParts - 1 : SplitName(p) = SplitName(r) => p = r
  BY DoneFacts DEF IInv
<1>2. TypeOK BY DEF IInv
<1> QED BY <1>1, <1>2, AppendFacts

\* On track, the current part's file holds what was streamed of it but for
\* the chunk being built.
LEMMA CurrentBytes ==
  ASSUME IInv, sizing_done, OnTrack
  PROVE  /\ written[SplitName(stream_part_index)] = BytesOf(stream_part_index)
         /\ BytesOf(stream_part_index) \in Nat
         /\ header_index_pos < StartPosition => BytesOf(stream_part_index) = header_index_pos
         /\ header_index_pos >= StartPosition /\ AllStreamed =>
              BytesOf(stream_part_index) = sizing_part_sizes[stream_part_index + 1]
         /\ header_index_pos >= StartPosition /\ ~AllStreamed =>
              BytesOf(stream_part_index) = Local - out_len
<1>1. /\ stream_part_index \in 0 .. TotalParts - 1 /\ InPlace /\ TypeOK /\ DoneOK
      /\ header_index_pos \in Nat /\ StartPosition \in Nat
  BY CursorFacts, TrackFacts
<1>2. written[SplitName(stream_part_index)] = BytesOf(stream_part_index) BY <1>1 DEF InPlace, BytesOK
<1>3. SplitName(stream_part_index) \in Names BY <1>1, DoneFacts
<1>4. written[SplitName(stream_part_index)] \in Nat BY <1>1, <1>3 DEF TypeOK
<1>5. TotalParts \in Nat BY <1>1, DoneFacts
<1>6. ~(stream_part_index < stream_part_index) /\ ~(stream_part_index > stream_part_index) BY <1>1, <1>5
<1> QED BY <1>1, <1>2, <1>4, <1>6 DEF BytesOf

\* Outside the loop over sectors `out` is empty, and what the driver appends
\* is what it has been given.
LEMMA GivenKept ==
  ASSUME TypeOK, NEW name \in Names, NEW k \in Nat, AppendToFile(name, k),
         out_len = 0, out_len' = 0, Names' = Names
  PROVE  \A other \in Names : /\ Given(other) \in Nat /\ Given(other)' \in Nat
                              /\ Given(other) <= Given(other)'
<1>1. \A other \in Names : /\ written[other] \in Nat /\ written[other] <= written'[other]
                           /\ written'[other] \in Nat
  BY AppendFacts
<1>2. \A other \in Names : Given(other) = written[other] /\ Given(other)' = written'[other]
  BY <1>1 DEF Given
<1> QED BY <1>1, <1>2

\* Handing over header and index keeps the invariant.
LEMMA StreamHeaderIInv ==
  ASSUME IInv, NEW max \in ChunkLimits, StreamHeaderAndIndex(max)
  PROVE  IInv'
<1> DEFINE h == header_index_pos
           end == Smaller(h + max, StartPosition)
           k == end - h
<1>1. /\ pc = "idle" /\ sizing_done /\ h < StartPosition
      /\ current_entry_name' = SplitName(0)
      /\ AppendToFile(SplitName(0), k)
      /\ header_index_pos' = end
      /\ UNCHANGED <<imageVars, sizingVars, stream_next_sector, stream_position,
                     stream_part_start, stream_part_index,
                     stream_part_needs_padding, callVars, landed>>
  BY DEF StreamHeaderAndIndex
<1>2. /\ TypeOK /\ Steady /\ DoneOK /\ h \in Nat /\ StartPosition \in Nat
      /\ total_data_sectors \in Nat /\ 0 < total_data_sectors
      /\ 0 \in 0 .. TotalParts - 1 /\ stream_part_index \in Nat
      /\ SplitName(0) \in Names
  BY <1>1, CursorFacts
<1>3. max \in Nat \ {0} BY CisoAssumption
<1>4. end \in Nat /\ h <= end /\ end <= StartPosition /\ k \in Nat /\ h + k = end
  BY <1>1, <1>2, <1>3 DEF Smaller
<1>5. /\ stream_next_sector = 0 /\ ~stream_part_needs_padding
      /\ stream_part_start = 0 /\ stream_position = StartPosition
      /\ stream_part_index = 0 /\ out_len = 0 /\ Local = StartPosition
  <2>1. stream_next_sector = 0 /\ ~stream_part_needs_padding
        /\ stream_part_start = 0 /\ stream_position = StartPosition /\ out_len = 0
        /\ stream_part_index <= 0
    BY <1>1, <1>2 DEF Steady
  <2>2. stream_part_index = 0 BY <1>2, <2>1
  <2>3. Local = StartPosition BY <1>2, <2>1 DEF Local
  <2> QED BY <2>1, <2>2, <2>3
<1>6. OnTrack
  <2>1. \A b : b \notin 1 .. 0 OBVIOUS
  <2> QED BY <1>2, <1>5, <2>1 DEF OnTrack, InStep
<1>7. /\ sizing_done' /\ SizingOK' /\ PlanningOK' /\ DoneOK'
      /\ image' = image /\ index_table' = index_table
      /\ total_data_sectors' = total_data_sectors
      /\ sizing_part_sizes' = sizing_part_sizes
      /\ StartPosition' = StartPosition /\ TotalParts' = TotalParts
      /\ Sectors' = Sectors /\ Names' = Names
      /\ \A p : SplitName(p)' = SplitName(p)
  BY <1>1, SizingKept
<1> HIDE DEF end, k
<1>8. /\ written' \in [Names -> Nat]
      /\ written'[SplitName(0)] = written[SplitName(0)] + k
      /\ written[SplitName(0)] \in Nat
      /\ \A p \in 0 .. TotalParts - 1 :
           p # 0 => written'[SplitName(p)] = written[SplitName(p)]
  BY <1>1, <1>2, <1>4, AppendFacts, AppendToPart
<1>9. TypeOK'
  <2>1. current_entry_name' \in Names BY <1>1, <1>2
  <2>2. header_index_pos' \in 0 .. StartPosition BY <1>1, <1>2, <1>4
  <2> QED BY ONLY <1>1, <1>2, <1>7, <1>8, <2>1, <2>2 DEF TypeOK, imageVars, sizingVars, callVars
<1>10. Steady'
  <2>1. header_index_pos' <= written'[SplitName(0)]
    <3>1. h <= written[SplitName(0)] BY <1>2 DEF Steady
    <3> QED BY <1>1, <1>2, <1>4, <1>8, <3>1
  <2>2. ~AllStreamed' BY <1>1, <1>2, <1>5, <1>7 DEF AllStreamed
  <2> QED BY <1>1, <1>2, <1>5, <1>7, <2>1, <2>2 DEF Steady, callVars
<1>11. LandedOK'
  <2>1. out_len' = 0 BY <1>1, <1>5 DEF callVars
  <2>2. \A other \in Names : /\ Given(other) \in Nat /\ Given(other)' \in Nat
                             /\ Given(other) <= Given(other)'
    BY <1>1, <1>2, <1>4, <1>5, <1>7, <2>1, GivenKept
  <2> QED BY <1>1, <2>2, LandedKept
<1>12. InPlace'
  <2>1. Local' = Local /\ ~AllStreamed' /\ ~AllStreamed BY <1>1, <1>2, <1>5, <1>7 DEF Local, AllStreamed
  <2>2. \A p \in 0 .. TotalParts' - 1 : written'[SplitName(p)'] = BytesOf(p)'
    <3> SUFFICES ASSUME NEW p \in 0 .. TotalParts - 1
        PROVE  written'[SplitName(p)] = BytesOf(p)'
      BY <1>7
    <3>1. written[SplitName(p)] = BytesOf(p) BY <1>1, <1>6, TrackFacts DEF InPlace, BytesOK
    <3>2. CASE p = 0
      <4>1. BytesOf(p) = h BY <1>1, <1>5, <3>2 DEF BytesOf
      <4>2. written'[SplitName(p)] = end BY <1>4, <1>8, <3>1, <3>2, <4>1
      <4>3. BytesOf(p)' = IF end < StartPosition THEN end ELSE StartPosition - 0
        BY <1>1, <1>5, <1>7, <2>1, <3>2 DEF BytesOf, callVars
      <4> QED BY <1>2, <1>4, <4>2, <4>3
    <3>3. CASE p # 0
      <4>1. ~(p < 0) /\ p > 0 BY <1>2, <3>3
      <4>2. BytesOf(p) = 0 /\ BytesOf(p)' = 0 BY <1>1, <1>5, <4>1 DEF BytesOf
      <4> QED BY <1>8, <3>1, <3>3, <4>2
    <3> QED BY <3>2, <3>3
  <2>3. /\ Local' + AlignPadding(stream_position') = PosAt(index_table', stream_next_sector')
        /\ stream_part_index' = PartAt(index_table', stream_next_sector')
        /\ Aligned(stream_part_start')
    BY <1>1, <1>2, <1>5, <1>6, <1>7, <2>1, TrackFacts DEF InPlace
  <2> QED BY <1>1, <1>2, <1>5, <1>7, <2>1, <2>2, <2>3 DEF InPlace, BytesOK
<1> QED BY <1>7, <1>9, <1>10, <1>11, <1>12 DEF IInv, StreamOK

\* What the index says about a sector of a finished sizing pass, and about
\* the one behind it.
LEMMA IndexFacts ==
  ASSUME IInv, sizing_done, NEW s \in Sectors
  PROVE  /\ PosAt(index_table, s) \in Nat /\ Aligned(PosAt(index_table, s))
         /\ image[s] \in Nat /\ 0 < image[s] /\ image[s] <= SectorSize
         /\ EndAt(index_table, image, s) = PosAt(index_table, s) + image[s]
         /\ EndAt(index_table, image, s) \in Nat
         /\ EndAt(index_table, image, s) >= SplitPoint => CutAfter(index_table, image, s)
         /\ PartAt(index_table, s) \in 0 .. TotalParts - 1
         /\ s + 1 < total_data_sectors =>
              /\ PosAt(index_table, s + 1) = IF CutAfter(index_table, image, s) THEN 0
                                             ELSE Rounded(EndAt(index_table, image, s))
              /\ PartAt(index_table, s + 1) = IF CutAfter(index_table, image, s)
                                              THEN PartAt(index_table, s) + 1
                                              ELSE PartAt(index_table, s)
              /\ CutAfter(index_table, image, s) =>
                   sizing_part_sizes[PartAt(index_table, s) + 1]
                     = PaddedPartSize(Rounded(EndAt(index_table, image, s)))
              /\ CutAfter(index_table, image, s) /\ InStep(s + 1) =>
                   /\ Aligned(EndAt(index_table, image, s))
                   /\ EndAt(index_table, image, s) >= SplitPoint
<1> DEFINE total == total_data_sectors
           t == s + 1
           e == EndAt(index_table, image, s)
<1>1. /\ TypeOK /\ DoneOK
      /\ total \in Nat /\ s \in 0 .. total - 1 /\ total <= total
      /\ StoredSectors(image, total) /\ StartPosition \in Nat
  BY ImageFacts DEF IInv, Sectors
<1>2. /\ IndexOK(index_table, image, StartPosition, total)
      /\ SizesOK(index_table, image, sizing_part_sizes, total)
      /\ PartAt(index_table, s) \in 0 .. TotalParts - 1
  BY <1>1, DoneFacts
<1>3. image[s] \in StoredLens BY <1>1 DEF StoredSectors
<1>4. image[s] \in Nat /\ 0 < image[s] /\ image[s] <= SectorSize
  <2>1. image[s] \in 1 .. SectorSize /\ SectorSize \in Nat BY <1>3, CisoAssumption
  <2> QED BY <2>1
<1>5. /\ PosAt(index_table, s) \in Nat /\ Aligned(PosAt(index_table, s)) /\ e \in Nat
  BY ONLY <1>1, <1>2, <1>3, SectorFacts
<1>6. /\ e >= SplitPoint => CutAfter(index_table, image, s)
      /\ Aligned(image[s]) => Aligned(e)
      /\ Aligned(image[s]) /\ CutAfter(index_table, image, s) => e >= SplitPoint
  BY ONLY <1>1, <1>2, CutsAgree
<1>7. ASSUME t < total
      PROVE  /\ PosAt(index_table, t) = IF CutAfter(index_table, image, s) THEN 0
                                        ELSE Rounded(e)
             /\ PartAt(index_table, t) = IF CutAfter(index_table, image, s)
                                         THEN PartAt(index_table, s) + 1
                                         ELSE PartAt(index_table, s)
             /\ CutAfter(index_table, image, s) =>
                  sizing_part_sizes[PartAt(index_table, s) + 1] = PaddedPartSize(Rounded(e))
             /\ CutAfter(index_table, image, s) /\ InStep(t) => Aligned(e) /\ e >= SplitPoint
  <2>1. t \in 1 .. total - 1 /\ t \in 1 .. t /\ t - 1 = s BY <1>1, <1>7
  <2> HIDE DEF t
  <2>2. PosAt(index_table, t) = IF CutAfter(index_table, image, s) THEN 0 ELSE Rounded(e)
    BY <1>2, <2>1 DEF IndexOK
  <2>3. /\ index_table[t].position < index_table[s].position
             <=> CutAfter(index_table, image, s)
        /\ PartAt(index_table, t) = IF CutAfter(index_table, image, s)
                                    THEN PartAt(index_table, s) + 1 ELSE PartAt(index_table, s)
    <3>1. /\ total \in Nat /\ IndexOK(index_table, image, StartPosition, total)
          /\ t \in 1 .. total - 1 /\ image[t - 1] \in StoredLens
      BY <1>1, <1>2, <1>3, <2>1
    <3>2. /\ index_table[t].position < index_table[t - 1].position
               <=> CutAfter(index_table, image, t - 1)
          /\ PartAt(index_table, t) = IF CutAfter(index_table, image, t - 1)
                                      THEN PartAt(index_table, t - 1) + 1
                                      ELSE PartAt(index_table, t - 1)
      BY ONLY <3>1, NextFacts
    <3> QED BY <2>1, <3>2
  <2>4. CutAfter(index_table, image, s) =>
      sizing_part_sizes[PartAt(index_table, s) + 1] = PaddedPartSize(Rounded(e))
    BY <1>2, <2>1 DEF SizesOK
  <2>5. CutAfter(index_table, image, s) /\ InStep(t) => Aligned(e) /\ e >= SplitPoint
    <3>1. CutAfter(index_table, image, s) /\ InStep(t) => Aligned(image[s])
      BY <2>1, <2>3 DEF InStep, Aligned
    <3> QED BY <1>6, <3>1
  <2> QED BY <2>2, <2>3, <2>4, <2>5
<1> QED BY <1>2, <1>4, <1>5, <1>6, <1>7 DEF EndAt

\* The padding completes the file of the part that has ended, and the next
\* part begins where the index says.
LEMMA StreamPaddingIInv ==
  ASSUME IInv, StreamPadding
  PROVE  IInv'
<1> DEFINE n == stream_next_sector
           q == stream_part_index
           s == n - 1
           e == EndAt(index_table, image, s)
           pad == TrailingPad(Local)
<1>1. /\ pc = "idle" /\ sizing_done /\ header_index_pos >= StartPosition
      /\ stream_part_needs_padding
      /\ AppendToFile(current_entry_name, pad)
      /\ stream_part_start' = stream_position
      /\ stream_part_needs_padding' = FALSE
      /\ q' = IF n < total_data_sectors THEN q + 1 ELSE q
      /\ UNCHANGED <<imageVars, sizingVars, header_index_pos, stream_next_sector,
                     stream_position, current_entry_name, callVars, landed>>
  BY DEF StreamPadding, Local
<1>2. /\ TypeOK /\ Steady /\ LandedOK /\ n \in Nat /\ n <= total_data_sectors
      /\ total_data_sectors \in Nat
      /\ stream_position \in Nat /\ stream_part_start \in Nat /\ Local \in Nat
      /\ stream_position = stream_part_start + Local
      /\ StartPosition \in Nat /\ header_index_pos \in Nat
      /\ q \in Nat /\ 0 < StartPosition /\ SplitName(0) \in Names
  BY <1>1, CursorFacts
<1>3. /\ q < n /\ n > 0
      /\ n = total_data_sectors \/ Local >= SplitPoint
      /\ current_entry_name = SplitName(q)
      /\ out_len = 0
  <2>1. /\ q < n
        /\ n = total_data_sectors \/ Local >= SplitPoint
        /\ current_entry_name = SplitName(q)
        /\ out_len = 0
    BY <1>1, <1>2 DEF Steady
  <2> QED BY <1>2, <2>1
<1>4. s \in Sectors /\ s + 1 = n /\ s + 1 - 1 = s /\ s \in Nat /\ n - 1 = s BY <1>2, <1>3 DEF Sectors
<1>5. /\ sizing_done' /\ SizingOK' /\ PlanningOK' /\ DoneOK'
      /\ image' = image /\ index_table' = index_table
      /\ total_data_sectors' = total_data_sectors
      /\ sizing_part_sizes' = sizing_part_sizes
      /\ StartPosition' = StartPosition /\ TotalParts' = TotalParts
      /\ Sectors' = Sectors /\ Names' = Names
      /\ \A p : SplitName(p)' = SplitName(p)
      /\ \A r : InStep(r)' = InStep(r)
  BY <1>1, SizingKept
<1>6. pad \in Nat /\ Local + pad = PaddedPartSize(Local) BY <1>2, PaddedFacts
<1>7. current_entry_name \in Names BY <1>1, <1>3, CurrentName
<1>8. /\ written' \in [Names -> Nat]
      /\ written[SplitName(0)] \in Nat /\ written[SplitName(0)] <= written'[SplitName(0)]
  BY <1>1, <1>2, <1>6, <1>7, AppendFacts
<1>9. TypeOK'
  <2>1. /\ stream_part_start' \in 0 .. stream_position' /\ q' \in Nat
        /\ stream_part_needs_padding' \in BOOLEAN
    <3>1. q' \in Nat BY <1>1, <1>2
    <3>2. stream_part_start' = stream_position /\ stream_position' = stream_position BY <1>1
    <3>3. stream_part_start' \in 0 .. stream_position' BY <1>2, <3>2
    <3> QED BY <1>1, <3>1, <3>3
  <2> QED BY ONLY <1>1, <1>2, <1>5, <1>8, <2>1 DEF TypeOK, imageVars, sizingVars, callVars
<1>10. Steady'
  <2>1. header_index_pos' <= written'[SplitName(0)]
    <3>1. header_index_pos <= written[SplitName(0)] BY <1>2 DEF Steady
    <3> QED BY <1>1, <1>2, <1>8, <3>1
  <2>2. q' <= n BY <1>1, <1>2, <1>3
  <2> QED BY <1>1, <1>2, <1>3, <1>5, <2>1, <2>2 DEF Steady, callVars
<1>11. LandedOK'
  <2>1. out_len' = 0 BY <1>1, <1>3 DEF callVars
  <2> HIDE DEF pad
  <2>2. \A other \in Names : /\ Given(other) \in Nat /\ Given(other)' \in Nat
                             /\ Given(other) <= Given(other)'
    BY <1>1, <1>2, <1>3, <1>5, <1>6, <1>7, <2>1, GivenKept
  <2> QED BY <1>1, <2>2, LandedKept
<1>12. ASSUME OnTrack'
    PROVE  OnTrack
  <2>1. OnTrack <=> InStep(s) BY <1>1 DEF OnTrack
  <2>2. CASE n < total_data_sectors
    <3>1. OnTrack' <=> InStep(n) BY <1>1, <1>2, <1>5, <2>2 DEF OnTrack
    <3> QED BY <1>2, <1>4, <1>12, <2>1, <3>1, InStepBefore
  <2>3. CASE n = total_data_sectors
    <3>1. OnTrack' <=> InStep(s) BY <1>1, <1>5, <2>3 DEF OnTrack
    <3> QED BY <1>12, <2>1, <3>1
  <2> QED BY <1>2, <2>2, <2>3
<1>13. ASSUME OnTrack
    PROVE  /\ Local = e /\ q = PartAt(index_table, s)
           /\ n < total_data_sectors => Aligned(stream_part_start)
           /\ BytesOK
           /\ q \in 0 .. TotalParts - 1
           /\ written'[SplitName(q)] = written[SplitName(q)] + pad
           /\ \A p \in 0 .. TotalParts - 1 :
                p # q => written'[SplitName(p)] = written[SplitName(p)]
  <2>1. InPlace /\ q \in 0 .. TotalParts - 1 BY <1>1, <1>13, TrackFacts
  <2>2. /\ Local = e /\ q = PartAt(index_table, s)
        /\ n < total_data_sectors => Aligned(stream_part_start)
        /\ BytesOK
    BY <1>1, <2>1 DEF InPlace
  <2> HIDE DEF pad
  <2> QED BY <1>1, <1>3, <1>6, <2>1, <2>2, AppendToPart
<1>14. ASSUME OnTrack', n < total_data_sectors
    PROVE  InPlace'
  <2>0. /\ Local = e /\ q = PartAt(index_table, s)
        /\ Aligned(stream_part_start) /\ BytesOK
        /\ written'[SplitName(q)] = written[SplitName(q)] + pad
        /\ \A p \in 0 .. TotalParts - 1 :
             p # q => written'[SplitName(p)] = written[SplitName(p)]
    BY <1>12, <1>13, <1>14
  <2>1. /\ PosAt(index_table, n) = 0 /\ PartAt(index_table, n) = q + 1
        /\ sizing_part_sizes[q + 1] = PaddedPartSize(Local)
        /\ Aligned(Local)
    <3>1. CutAfter(index_table, image, s)
      <4>1. e >= SplitPoint BY <1>2, <1>3, <1>14, <2>0
      <4> HIDE DEF s
      <4> QED BY <1>1, <1>4, <4>1, IndexFacts DEF e
    <3>2. InStep(n) BY <1>1, <1>2, <1>5, <1>14 DEF OnTrack
    <3>3. /\ PosAt(index_table, n) = 0 /\ PartAt(index_table, n) = q + 1
          /\ sizing_part_sizes[q + 1] = PaddedPartSize(Rounded(e))
          /\ Aligned(e)
      BY <1>1, <2>0, <1>4, <1>14, <3>1, <3>2, IndexFacts
    <3>4. Rounded(e) = e BY <1>2, <2>0, <3>3, RoundedFacts
    <3> QED BY <2>0, <3>3, <3>4
  <2>2. Aligned(stream_position) /\ AlignPadding(stream_position) = 0
    <3>1. Aligned(stream_position) BY <1>2, <2>0, <2>1, AlignedSum
    <3> QED BY <1>2, <3>1, RoundedFacts
  <2>3. q' = q + 1 /\ Local' = 0 /\ ~AllStreamed' /\ ~AllStreamed
    BY <1>1, <1>2, <1>5, <1>14 DEF Local, AllStreamed
  <2>4. Local' + AlignPadding(stream_position') = PosAt(index_table', n') BY <1>1, <1>5, <2>1, <2>2, <2>3
  <2>5. BytesOK'
    <3> SUFFICES ASSUME NEW p \in 0 .. TotalParts - 1
        PROVE  written'[SplitName(p)] = BytesOf(p)'
      BY <1>5 DEF BytesOK
    <3>1. written[SplitName(p)] = BytesOf(p) BY <2>0 DEF BytesOK
    <3>2. p \in Nat /\ q \in Nat /\ ~(header_index_pos < StartPosition) BY <1>1, <1>2
    <3>3. BytesOf(p)' = IF p < q + 1 THEN sizing_part_sizes[p + 1] ELSE 0
      BY <1>1, <1>3, <1>5, <2>3, <3>2 DEF BytesOf, callVars
    <3>4. BytesOf(p) = IF p < q THEN sizing_part_sizes[p + 1] ELSE IF p > q THEN 0 ELSE Local
      BY <1>2, <1>3, <2>3, <3>2 DEF BytesOf
    <3>5. CASE p = q
      <4>1. written'[SplitName(p)] = Local + pad BY <2>0, <3>1, <3>2, <3>4, <3>5
      <4> QED BY <1>6, <2>1, <3>2, <3>3, <3>5, <4>1
    <3>6. CASE p # q
      <4>1. p < q + 1 <=> p < q BY <3>2, <3>6
      <4>2. ~(p < q) => p > q BY <3>2, <3>6
      <4> QED BY <2>0, <3>1, <3>3, <3>4, <3>6, <4>1, <4>2
    <3> QED BY <3>5, <3>6
  <2> QED BY <1>1, <1>2, <1>5, <1>14, <2>1, <2>2, <2>3, <2>4, <2>5 DEF InPlace
<1>15. ASSUME OnTrack', n = total_data_sectors
    PROVE  InPlace'
  <2>0. /\ Local = e /\ q = PartAt(index_table, s)
        /\ BytesOK
        /\ written'[SplitName(q)] = written[SplitName(q)] + pad
        /\ \A p \in 0 .. TotalParts - 1 :
             p # q => written'[SplitName(p)] = written[SplitName(p)]
    BY <1>12, <1>13, <1>15
  <2>1. sizing_part_sizes[q + 1] = PaddedPartSize(Local) /\ n - 1 = s
    BY <1>1, <1>2, <2>0, <1>15, CursorFacts, DoneFacts
  <2>2. q' = q /\ AllStreamed' /\ ~AllStreamed BY <1>1, <1>2, <1>5, <1>15 DEF AllStreamed
  <2>3. BytesOK'
    <3> SUFFICES ASSUME NEW p \in 0 .. TotalParts - 1
        PROVE  written'[SplitName(p)] = BytesOf(p)'
      BY <1>5 DEF BytesOK
    <3>1. written[SplitName(p)] = BytesOf(p) BY <2>0 DEF BytesOK
    <3>2. p \in Nat /\ q \in Nat /\ ~(header_index_pos < StartPosition) BY <1>1, <1>2
    <3>3. BytesOf(p)' = IF p < q THEN sizing_part_sizes[p + 1]
        ELSE IF p > q THEN 0 ELSE sizing_part_sizes[p + 1]
      BY <1>1, <1>3, <1>5, <2>2, <3>2 DEF BytesOf, callVars
    <3>4. BytesOf(p) = IF p < q THEN sizing_part_sizes[p + 1] ELSE IF p > q THEN 0 ELSE Local
      BY <1>2, <1>3, <2>2, <3>2 DEF BytesOf
    <3>5. CASE p = q
      <4>1. written'[SplitName(p)] = Local + pad BY <2>0, <3>1, <3>2, <3>4, <3>5
      <4> QED BY <1>6, <2>1, <3>2, <3>3, <3>5, <4>1
    <3>6. CASE p # q
      <4>1. ~(p < q) => p > q BY <3>2, <3>6
      <4> QED BY <2>0, <3>1, <3>3, <3>4, <3>6, <4>1
    <3> QED BY <3>5, <3>6
  <2> QED BY <1>1, <1>2, <1>5, <1>15, <2>0, <2>1, <2>2, <2>3 DEF InPlace
<1>16. OnTrack' => InPlace' BY <1>2, <1>14, <1>15
<1> QED BY <1>5, <1>9, <1>10, <1>11, <1>16 DEF IInv, StreamOK

\* What a loop over sectors has put into `out` is not in a file yet.
LEMMA BytesKept ==
  ASSUME IInv, sizing_done, OnTrack, ~AllStreamed, ~AllStreamed',
         UNCHANGED <<imageVars, sizingVars, header_index_pos, stream_part_index, written>>,
         Local' - out_len' = Local - out_len
  PROVE  BytesOK'
<1>1. /\ StartPosition' = StartPosition /\ TotalParts' = TotalParts
      /\ sizing_part_sizes' = sizing_part_sizes
      /\ \A p : SplitName(p)' = SplitName(p)
  BY SizingKept
<1>2. SUFFICES ASSUME NEW p \in 0 .. TotalParts - 1
    PROVE  written'[SplitName(p)] = BytesOf(p)'
  BY <1>1 DEF BytesOK
<1>3. written[SplitName(p)] = BytesOf(p) BY TrackFacts DEF InPlace, BytesOK
<1>4. BytesOf(p)' = BytesOf(p) BY <1>1 DEF BytesOf
<1> QED BY <1>3, <1>4

\* Entering the loop over sectors keeps the invariant.
LEMMA StreamSectorsIInv ==
  ASSUME IInv, NEW max \in ChunkLimits, StreamSectors(max)
  PROVE  IInv'
<1>1. /\ pc = "idle" /\ sizing_done /\ ~(header_index_pos < StartPosition)
      /\ ~stream_part_needs_padding /\ stream_next_sector < total_data_sectors
      /\ current_entry_name' = SplitName(stream_part_index)
      /\ pc' = "emitting" /\ max_bytes' = max /\ out_len' = 0
      /\ UNCHANGED <<imageVars, sizingVars, streamVars, sector, driverVars>>
  <2>1. /\ pc = "idle" /\ sizing_done /\ header_index_pos >= StartPosition
        /\ ~stream_part_needs_padding /\ stream_next_sector < total_data_sectors
        /\ current_entry_name' = SplitName(stream_part_index)
        /\ pc' = "emitting" /\ max_bytes' = max /\ out_len' = 0
        /\ UNCHANGED <<imageVars, sizingVars, streamVars, sector, driverVars>>
    BY DEF StreamSectors
  <2>2. header_index_pos \in Nat /\ StartPosition \in Nat BY <2>1, CursorFacts
  <2> QED BY <2>1, <2>2
<1>2. /\ TypeOK /\ Steady /\ DoneOK
      /\ stream_next_sector \in Nat /\ total_data_sectors \in Nat
      /\ out_len = 0
  <2>1. /\ TypeOK /\ Steady /\ DoneOK
        /\ stream_next_sector \in Nat /\ total_data_sectors \in Nat
    BY <1>1, CursorFacts
  <2> QED BY <1>1, <2>1 DEF Steady
<1>3. /\ sizing_done' /\ SizingOK' /\ PlanningOK' /\ DoneOK'
      /\ index_table' = index_table /\ image' = image
      /\ total_data_sectors' = total_data_sectors
      /\ StartPosition' = StartPosition /\ TotalParts' = TotalParts
      /\ Sectors' = Sectors /\ Names' = Names
      /\ \A p : SplitName(p)' = SplitName(p)
      /\ \A s : InStep(s)' = InStep(s)
  BY <1>1, SizingKept
<1>4. TypeOK'
  <2>1. current_entry_name' \in Names BY <1>1, CurrentName
  <2>2. max_bytes' \in Nat BY <1>1, CisoAssumption
  <2>3. pc' \in {"idle", "sizing", "emitting", "failed"} /\ out_len' \in Nat BY <1>1
  <2> QED
    BY ONLY <1>1, <1>2, <1>3, <2>1, <2>2, <2>3 DEF TypeOK, imageVars, sizingVars, streamVars, driverVars
<1>5. /\ header_index_pos' = header_index_pos
      /\ stream_next_sector' = stream_next_sector
      /\ stream_position' = stream_position
      /\ stream_part_start' = stream_part_start
      /\ stream_part_index' = stream_part_index
      /\ stream_part_needs_padding' = stream_part_needs_padding
      /\ written' = written /\ landed' = landed
  BY <1>1 DEF streamVars, driverVars
<1>6. Local' = Local /\ ~AllStreamed' /\ ~AllStreamed BY <1>1, <1>2, <1>3, <1>5 DEF Local, AllStreamed
<1>7. Steady' BY <1>1, <1>2, <1>3, <1>5, <1>6 DEF Steady
<1>8. LandedOK'
  <2>1. written \in [Names -> Nat] BY <1>2 DEF TypeOK
  <2>2. \A name \in Names : Given(name) = written[name] /\ Given(name)' = written[name]
    BY <1>1, <1>2, <1>5, <2>1 DEF Given
  <2> QED BY <1>1, <1>5, <2>1, <2>2, LandedKept
<1>9. ASSUME OnTrack'
      PROVE  InPlace'
  <2>1. OnTrack BY <1>3, <1>5, <1>9 DEF OnTrack
  <2>2. BytesOK' BY <1>1, <1>2, <1>5, <1>6, <2>1, BytesKept
  <2>3. PosAt(index_table', stream_next_sector') = PosAt(index_table, stream_next_sector)
        /\ PartAt(index_table', stream_next_sector') = PartAt(index_table, stream_next_sector)
    BY <1>3, <1>5
  <2>4. InPlace BY <1>1, <2>1, TrackFacts
  <2> QED BY <1>1, <1>3, <1>5, <1>6, <2>2, <2>3, <2>4 DEF InPlace
<1> QED BY <1>3, <1>4, <1>7, <1>8, <1>9 DEF IInv, StreamOK

\* A loop over sectors hands over what it has put into `out`.
LEMMA ReturnSectorsIInv ==
  ASSUME IInv, ReturnSectors
  PROVE  IInv'
<1> DEFINE q == stream_part_index
<1>1. /\ pc = "emitting"
      /\ AppendToFile(current_entry_name, out_len)
      /\ pc' = "idle" /\ max_bytes' = 0 /\ out_len' = 0
      /\ UNCHANGED <<imageVars, sizingVars, streamVars, current_entry_name, sector, landed>>
  BY DEF ReturnSectors
<1>2. sizing_done BY <1>1 DEF IInv, PlanningOK
<1>3. /\ TypeOK /\ Steady /\ q \in Nat /\ out_len \in Nat
      /\ Local \in Nat /\ SplitName(0) \in Names
      /\ stream_next_sector \in Nat /\ stream_next_sector <= total_data_sectors
      /\ total_data_sectors \in Nat
      /\ header_index_pos \in Nat
  BY <1>2, CursorFacts
<1>4. /\ current_entry_name = SplitName(q) /\ ~(header_index_pos < StartPosition)
      /\ ~AllStreamed
  BY <1>1, <1>2, <1>3 DEF Steady
<1>5. /\ sizing_done' /\ SizingOK' /\ PlanningOK' /\ DoneOK'
      /\ index_table' = index_table /\ image' = image
      /\ total_data_sectors' = total_data_sectors
      /\ sizing_part_sizes' = sizing_part_sizes
      /\ StartPosition' = StartPosition /\ TotalParts' = TotalParts
      /\ Sectors' = Sectors /\ Names' = Names
      /\ \A p : SplitName(p)' = SplitName(p)
      /\ \A s : InStep(s)' = InStep(s)
  BY <1>1, <1>2, SizingKept
<1>6. current_entry_name \in Names
  <2>1. stream_part_needs_padding \/ stream_next_sector < total_data_sectors BY <1>3, <1>4 DEF AllStreamed
  <2> QED BY <1>2, <1>4, <2>1, CurrentName
<1>7. /\ written' \in [Names -> Nat]
      /\ written'[current_entry_name] = written[current_entry_name] + out_len
      /\ \A other \in Names :
           /\ written[other] \in Nat /\ written[other] <= written'[other]
           /\ other # current_entry_name => written'[other] = written[other]
  BY <1>1, <1>3, <1>6, AppendFacts
<1>8. TypeOK'
  <2>1. /\ pc' \in {"idle", "sizing", "emitting", "failed"}
        /\ max_bytes' \in Nat /\ out_len' \in Nat
    BY <1>1
  <2> QED BY ONLY <1>1, <1>3, <1>5, <1>7, <2>1 DEF TypeOK, imageVars, sizingVars, streamVars
<1>9. /\ header_index_pos' = header_index_pos
      /\ stream_next_sector' = stream_next_sector
      /\ stream_position' = stream_position
      /\ stream_part_start' = stream_part_start
      /\ q' = q
      /\ stream_part_needs_padding' = stream_part_needs_padding
      /\ current_entry_name' = current_entry_name /\ landed' = landed
  BY <1>1 DEF streamVars
<1>10. Local' = Local /\ ~AllStreamed' BY <1>4, <1>5, <1>9 DEF Local, AllStreamed
<1>11. Steady'
  <2>1. header_index_pos <= written'[SplitName(0)]
    <3>1. header_index_pos <= written[SplitName(0)] BY <1>3 DEF Steady
    <3>2. written[SplitName(0)] <= written'[SplitName(0)] /\ written[SplitName(0)] \in Nat
          /\ written'[SplitName(0)] \in Nat
      BY <1>3, <1>7
    <3> QED BY <1>3, <3>1, <3>2
  <2> QED BY <1>1, <1>3, <1>4, <1>5, <1>9, <1>10, <2>1 DEF Steady
<1>12. LandedOK'
  <2>1. \A other \in Names :
      /\ Given(other) = written[other] + (IF other = current_entry_name THEN out_len ELSE 0)
      /\ Given(other)' = written'[other]
      /\ written[other] \in Nat /\ written'[other] \in Nat
    BY <1>1, <1>7 DEF Given
  <2>2. \A other \in Names : Given(other) \in Nat /\ Given(other)' = Given(other) BY <1>3, <1>7, <2>1
  <2>3. \A other \in Names : Given(other) \in Nat /\ Given(other)' \in Nat /\ Given(other) <= Given(other)'
    BY <2>2
  <2> QED BY <1>1, <1>2, <1>9, <2>3, LandedKept
<1>13. ASSUME OnTrack'
    PROVE  InPlace'
  <2>1. OnTrack BY <1>5, <1>9, <1>13 DEF OnTrack
  <2>2. InPlace /\ q \in 0 .. TotalParts - 1 BY <1>2, <2>1, TrackFacts
  <2>3. /\ written'[SplitName(q)] = written[SplitName(q)] + out_len
        /\ \A p \in 0 .. TotalParts - 1 :
             p # q => written'[SplitName(p)] = written[SplitName(p)]
    BY <1>1, <1>2, <1>3, <1>4, <2>2, AppendToPart
  <2>4. BytesOK'
    <3> SUFFICES ASSUME NEW p \in 0 .. TotalParts - 1
        PROVE  written'[SplitName(p)] = BytesOf(p)'
      BY <1>5 DEF BytesOK
    <3>1. written[SplitName(p)] = BytesOf(p) BY <2>2 DEF InPlace, BytesOK
    <3>2. p \in Nat /\ q \in Nat BY <1>3
    <3>3. CASE p = q
      <4>1. BytesOf(p) = Local - out_len BY <1>4, <3>2, <3>3 DEF BytesOf
      <4>2. BytesOf(p)' = Local - 0 BY <1>1, <1>4, <1>5, <1>9, <1>10, <3>2, <3>3 DEF BytesOf
      <4> QED BY <1>3, <2>3, <3>1, <3>3, <4>1, <4>2
    <3>4. CASE p # q
      <4>1. BytesOf(p) = IF p < q THEN sizing_part_sizes[p + 1] ELSE 0 BY <3>2, <3>4 DEF BytesOf
      <4>2. BytesOf(p)' = IF p < q THEN sizing_part_sizes[p + 1] ELSE 0
        BY <1>5, <1>9, <3>2, <3>4 DEF BytesOf
      <4> QED BY <2>3, <3>1, <3>4, <4>1, <4>2
    <3> QED BY <3>3, <3>4
  <2> QED BY <1>5, <1>9, <1>10, <2>2, <2>4 DEF InPlace
<1> QED BY <1>5, <1>8, <1>11, <1>12, <1>13 DEF IInv, StreamOK

\* What holds where a loop over sectors goes on.
LEMMA LoopFacts ==
  ASSUME IInv, pc = "emitting", LoopContinues
  PROVE  /\ sizing_done /\ ~stream_part_needs_padding
         /\ stream_next_sector \in Sectors
         /\ stream_next_sector < total_data_sectors
         /\ ~(header_index_pos < StartPosition)
         /\ current_entry_name = SplitName(stream_part_index)
         /\ current_entry_name \in Names
         /\ AlignPadding(stream_position) \in Nat
         /\ ~AllStreamed
         /\ OnTrack = InStep(stream_next_sector)
         /\ OnTrack =>
              /\ stream_part_index = PartAt(index_table, stream_next_sector)
              /\ Local + AlignPadding(stream_position) = PosAt(index_table, stream_next_sector)
              /\ Aligned(stream_part_start)
<1>1. sizing_done BY DEF IInv, PlanningOK
<1>2. /\ stream_next_sector < total_data_sectors /\ ~stream_part_needs_padding BY DEF LoopContinues
<1>3. /\ Steady /\ stream_next_sector \in Nat /\ total_data_sectors \in Nat
      /\ stream_position \in Nat /\ (OnTrack => InPlace)
  BY <1>1, CursorFacts
<1>4. stream_next_sector \in Sectors BY <1>2, <1>3 DEF Sectors
<1>5. AlignPadding(stream_position) \in Nat BY <1>3, RoundedFacts
<1>6. ~AllStreamed BY <1>2, <1>3 DEF AllStreamed
<1>7. OnTrack = InStep(stream_next_sector) BY <1>2, <1>3 DEF OnTrack
<1>8. /\ ~(header_index_pos < StartPosition)
      /\ current_entry_name = SplitName(stream_part_index)
  BY <1>3 DEF Steady
<1>9. current_entry_name \in Names BY <1>1, <1>2, <1>8, CurrentName
<1>10. OnTrack =>
    /\ stream_part_index = PartAt(index_table, stream_next_sector)
    /\ Local + AlignPadding(stream_position) = PosAt(index_table, stream_next_sector)
    /\ Aligned(stream_part_start)
  BY <1>2, <1>3 DEF InPlace
<1> QED BY <1>1, <1>2, <1>4, <1>5, <1>6, <1>7, <1>8, <1>9, <1>10

\* What a loop puts into `out` adds to what its file is given.
LEMMA GivenGrows ==
  ASSUME TypeOK, NEW k \in Nat, out_len' = out_len + k,
         written' = written, current_entry_name' = current_entry_name, Names' = Names
  PROVE  \A name \in Names : /\ Given(name) \in Nat /\ Given(name)' \in Nat
                             /\ Given(name) <= Given(name)'
                             /\ name = current_entry_name =>
                                  Given(name)' = written[name] + out_len + k
<1>1. written \in [Names -> Nat] /\ out_len \in Nat BY DEF TypeOK
<1> QED BY <1>1 DEF Given

\* A read that fails in the middle of streaming leaves the position where the
\* sector would have gone.
LEMMA StreamingReadFailsIInv ==
  ASSUME IInv, StreamingReadFails
  PROVE  IInv'
<1> DEFINE n == stream_next_sector
           pad == AlignPadding(stream_position)
<1>1. /\ pc = "emitting" /\ LoopContinues
      /\ out_len' = out_len + pad /\ stream_position' = stream_position + pad
      /\ pc' = "failed"
      /\ UNCHANGED <<imageVars, sizingVars, header_index_pos, stream_next_sector,
                     stream_part_start, stream_part_index,
                     stream_part_needs_padding, current_entry_name, sector,
                     max_bytes, driverVars>>
  BY DEF StreamingReadFails
<1>2. /\ sizing_done /\ ~stream_part_needs_padding
      /\ n \in Sectors /\ n < total_data_sectors
      /\ ~(header_index_pos < StartPosition)
      /\ pad \in Nat /\ ~AllStreamed
      /\ OnTrack =>
           /\ stream_part_index = PartAt(index_table, n)
           /\ Local + pad = PosAt(index_table, n)
           /\ Aligned(stream_part_start)
  BY <1>1, LoopFacts
<1>3. /\ TypeOK /\ Steady /\ stream_position \in Nat /\ out_len \in Nat
      /\ stream_part_start \in Nat /\ stream_part_start <= stream_position
      /\ Local \in Nat /\ stream_position = stream_part_start + Local
      /\ StartPosition \in Nat /\ Aligned(StartPosition)
  BY <1>2, CursorFacts
<1>4. /\ sizing_done' /\ SizingOK' /\ PlanningOK' /\ DoneOK'
      /\ index_table' = index_table /\ image' = image
      /\ total_data_sectors' = total_data_sectors
      /\ StartPosition' = StartPosition
      /\ Sectors' = Sectors /\ Names' = Names
      /\ \A p : SplitName(p)' = SplitName(p)
      /\ \A s : InStep(s)' = InStep(s)
  BY <1>1, <1>2, SizingKept
<1>5. PosAt(index_table, n) \in Nat /\ Aligned(PosAt(index_table, n)) BY <1>2, IndexFacts
<1>6. TypeOK'
  <2>1. /\ pc' \in {"idle", "sizing", "emitting", "failed"}
        /\ out_len' \in Nat /\ stream_position' \in Nat
        /\ stream_part_start' \in 0 .. stream_position'
    BY <1>1, <1>2, <1>3
  <2> QED BY ONLY <1>1, <1>3, <1>4, <2>1 DEF TypeOK, imageVars, sizingVars, driverVars
<1>7. /\ n' = n /\ stream_part_start' = stream_part_start
      /\ stream_part_index' = stream_part_index
      /\ stream_part_needs_padding' = stream_part_needs_padding
      /\ header_index_pos' = header_index_pos
      /\ written' = written /\ landed' = landed
      /\ current_entry_name' = current_entry_name
  BY <1>1 DEF driverVars
<1>8. Local' = Local + pad /\ ~AllStreamed' /\ Local' - out_len' = Local - out_len
  BY <1>1, <1>2, <1>3, <1>4, <1>7 DEF Local, AllStreamed
<1>9. Steady'
  <2>1. n' = 0 => /\ stream_part_start' = 0 /\ stream_position' = StartPosition'
    <3> SUFFICES ASSUME n = 0 PROVE stream_part_start = 0 /\ stream_position' = StartPosition
      BY <1>4, <1>7
    <3>1. stream_part_start = 0 /\ stream_position = StartPosition BY <1>3 DEF Steady
    <3>2. pad = 0 BY <1>3, <3>1, RoundedFacts
    <3> QED BY <1>1, <1>3, <3>1, <3>2
  <2> QED BY <1>1, <1>2, <1>3, <1>4, <1>7, <1>8, <2>1 DEF Steady
<1>10. LandedOK'
  <2> HIDE DEF pad
  <2>1. \A name \in Names : /\ Given(name) \in Nat /\ Given(name)' \in Nat
                            /\ Given(name) <= Given(name)'
    BY <1>1, <1>2, <1>3, <1>4, <1>7, GivenGrows
  <2> QED BY <1>1, <1>2, <1>7, <2>1, LandedKept
<1>11. ASSUME OnTrack'
    PROVE  InPlace'
  <2>1. OnTrack BY <1>4, <1>7, <1>11 DEF OnTrack
  <2>2. BytesOK' BY <1>1, <1>2, <1>7, <1>8, <2>1, BytesKept
  <2>3. Local' + AlignPadding(stream_position') = PosAt(index_table', n')
    <3>1. stream_position' = stream_part_start + PosAt(index_table, n) BY <1>1, <1>2, <1>3, <2>1
    <3>2. Aligned(stream_position') BY <1>2, <1>3, <1>5, <2>1, <3>1, AlignedSum
    <3>3. AlignPadding(stream_position') = 0
      <4>1. stream_position' \in Nat BY <1>1, <1>2, <1>3
      <4> QED BY <3>2, <4>1, RoundedFacts
    <3> QED BY <1>2, <1>4, <1>5, <1>7, <1>8, <2>1, <3>3
  <2> QED BY <1>2, <1>4, <1>7, <1>8, <2>1, <2>2, <2>3 DEF InPlace
<1> QED BY <1>4, <1>6, <1>9, <1>10, <1>11 DEF IInv, StreamOK

\* The sector goes where the index says, and the part ends with it exactly
\* where the sizing pass ended it.
LEMMA EmitSectorIInv ==
  ASSUME IInv, EmitSector
  PROVE  IInv'
<1> DEFINE n == stream_next_sector
           q == stream_part_index
           pad == AlignPadding(stream_position)
           cur == current_entry_name
           place == [name |-> cur, offset |-> written[cur] + out_len + pad]
<1>1. /\ pc = "emitting" /\ LoopContinues
      /\ landed' = [landed EXCEPT ![n] = place]
      /\ out_len' = out_len + pad + image[n]
      /\ stream_position' = stream_position + pad + image[n]
      /\ n' = n + 1
      /\ stream_part_needs_padding' =
           (stream_position' - stream_part_start >= SplitPoint \/ n' >= total_data_sectors)
      /\ UNCHANGED <<imageVars, sizingVars, header_index_pos, stream_part_start,
                     stream_part_index, current_entry_name, pc, sector, max_bytes, written>>
  BY DEF EmitSector
<1>2. /\ sizing_done /\ ~stream_part_needs_padding
      /\ n \in Sectors /\ n < total_data_sectors
      /\ ~(header_index_pos < StartPosition)
      /\ cur = SplitName(q) /\ cur \in Names
      /\ pad \in Nat /\ ~AllStreamed
      /\ OnTrack = InStep(n)
      /\ OnTrack => /\ q = PartAt(index_table, n)
                    /\ Local + pad = PosAt(index_table, n)
                    /\ Aligned(stream_part_start)
  BY <1>1, LoopFacts
<1>3. /\ TypeOK /\ DoneOK /\ Steady /\ LandedOK /\ stream_position \in Nat /\ out_len \in Nat
      /\ stream_part_start \in Nat /\ stream_part_start <= stream_position
      /\ Local \in Nat /\ stream_position = stream_part_start + Local
      /\ n \in Nat /\ total_data_sectors \in Nat /\ header_index_pos \in Nat
      /\ q \in Nat
  BY <1>2, CursorFacts
<1>4. /\ sizing_done' /\ SizingOK' /\ PlanningOK' /\ DoneOK'
      /\ index_table' = index_table /\ image' = image
      /\ total_data_sectors' = total_data_sectors
      /\ StartPosition' = StartPosition /\ TotalParts' = TotalParts
      /\ Sectors' = Sectors /\ Names' = Names
      /\ \A p : SplitName(p)' = SplitName(p)
      /\ \A s : InStep(s)' = InStep(s)
  BY <1>1, <1>2, SizingKept
<1>5. /\ PosAt(index_table, n) \in Nat /\ Aligned(PosAt(index_table, n))
      /\ image[n] \in Nat /\ 0 < image[n]
      /\ EndAt(index_table, image, n) = PosAt(index_table, n) + image[n]
      /\ EndAt(index_table, image, n) \in Nat
      /\ n + 1 < total_data_sectors =>
           /\ PosAt(index_table, n + 1) = IF CutAfter(index_table, image, n) THEN 0
                                          ELSE Rounded(EndAt(index_table, image, n))
           /\ PartAt(index_table, n + 1) = IF CutAfter(index_table, image, n)
                                           THEN PartAt(index_table, n) + 1
                                           ELSE PartAt(index_table, n)
           /\ CutAfter(index_table, image, n) /\ InStep(n + 1) =>
                EndAt(index_table, image, n) >= SplitPoint
  BY <1>2, IndexFacts
<1>6. /\ header_index_pos' = header_index_pos /\ stream_part_start' = stream_part_start
      /\ q' = q /\ current_entry_name' = cur /\ pc' = pc
      /\ written' = written
  BY <1>1
<1>7. /\ Local' = Local + pad + image[n] /\ Local' \in Nat
      /\ Local' - out_len' = Local - out_len
  BY <1>1, <1>2, <1>3, <1>5, <1>6 DEF Local
<1>8. written[cur] \in Nat BY <1>2, <1>3 DEF TypeOK
<1>9. /\ stream_part_needs_padding' \in BOOLEAN
      /\ stream_part_needs_padding' => n' = total_data_sectors \/ Local' >= SplitPoint
      /\ ~stream_part_needs_padding' => n + 1 < total_data_sectors /\ ~(Local' >= SplitPoint)
  <2>1. stream_part_needs_padding' = (Local' >= SplitPoint \/ n + 1 >= total_data_sectors)
    BY <1>1, <1>6 DEF Local
  <2>2. /\ n + 1 >= total_data_sectors => n' = total_data_sectors
        /\ ~(n + 1 >= total_data_sectors) => n + 1 < total_data_sectors
    BY <1>1, <1>2, <1>3
  <2> DEFINE a == Local' >= SplitPoint
             b == n + 1 >= total_data_sectors
  <2>3. stream_part_needs_padding' \in BOOLEAN BY <2>1
  <2>4. (stream_part_needs_padding' => a \/ b) /\ (~stream_part_needs_padding' => ~a /\ ~b) BY <2>1
  <2> QED BY <2>2, <2>3, <2>4
<1>10. TypeOK'
  <2>1. /\ out_len' \in Nat /\ stream_position' \in Nat
        /\ stream_part_start' \in 0 .. stream_position'
        /\ n' \in 0 .. total_data_sectors
        /\ stream_part_needs_padding' \in BOOLEAN
    BY <1>1, <1>2, <1>3, <1>5, <1>6, <1>9
  <2>2. landed' \in [Sectors -> [name : Names, offset : Int]]
    <3>1. place \in [name : Names, offset : Int] BY <1>2, <1>3, <1>8
    <3>2. landed \in [Sectors -> [name : Names, offset : Int]] BY <1>3 DEF TypeOK
    <3> QED BY <1>1, <3>1, <3>2
  <2> QED BY ONLY <1>1, <1>3, <1>4, <2>1, <2>2 DEF TypeOK, imageVars, sizingVars
<1>11. ~AllStreamed'
  <2>1. n' = total_data_sectors => ~(n + 1 < total_data_sectors) BY <1>1, <1>3
  <2> QED BY <1>4, <1>9, <2>1 DEF AllStreamed
<1>12. Steady'
  <2>1. n' # 0 /\ q < n' /\ q <= n'
    <3>1. q <= n BY <1>3 DEF Steady
    <3> QED BY <1>1, <1>3, <3>1
  <2>2. /\ pc # "sizing" /\ pc # "idle"
        /\ header_index_pos <= written[SplitName(0)]
    BY <1>1, <1>3 DEF Steady
  <2> QED BY <1>1, <1>2, <1>4, <1>6, <1>9, <1>11, <2>1, <2>2 DEF Steady
<1>13. OnTrack => place = [name |-> SplitName(PartAt(index_table, n)),
    offset |-> PosAt(index_table, n)]
  <2> SUFFICES ASSUME OnTrack
      PROVE  place = [name |-> SplitName(PartAt(index_table, n)),
                      offset |-> PosAt(index_table, n)]
    OBVIOUS
  <2>1. written[SplitName(q)] = Local - out_len
    <3>1. written[SplitName(q)] = BytesOf(q) BY <1>2, CurrentBytes
    <3> QED BY <1>2, <1>3, <3>1 DEF BytesOf
  <2> QED BY <1>2, <1>3, <2>1
<1>14. LandedOK'
  <2>1. \A name \in Names : /\ Given(name) \in Nat /\ Given(name)' \in Nat
                            /\ Given(name) <= Given(name)'
                            /\ name = cur => Given(name)' = written[name] + out_len + (pad + image[n])
    <3> DEFINE k == pad + image[n]
    <3>1. k \in Nat /\ out_len' = out_len + k BY <1>1, <1>2, <1>3, <1>5
    <3> HIDE DEF k
    <3>2. \A name \in Names : /\ Given(name) \in Nat /\ Given(name)' \in Nat
                              /\ Given(name) <= Given(name)'
                              /\ name = cur => Given(name)' = written[name] + out_len + k
      BY <1>3, <1>4, <1>6, <3>1, GivenGrows
    <3> QED BY <3>2 DEF k
  <2> SUFFICES ASSUME NEW s \in Sectors PROVE LandedAt(s)' BY <1>4 DEF LandedOK
  <2>2. LandedAt(s) BY <1>3 DEF LandedOK
  <2>3. /\ landed'[s] = IF s = n THEN place ELSE landed[s]
        /\ landed[s].name \in Names /\ landed[s].offset \in Int /\ image[s] \in Nat
    <3>1. landed \in [Sectors -> [name : Names, offset : Int]] BY <1>3 DEF TypeOK
    <3>2. landed[s] \in [name : Names, offset : Int] BY <3>1
    <3>3. image[s] \in Nat BY <1>2, IndexFacts
    <3> QED BY <1>1, <3>1, <3>2, <3>3
  <2>4. s \in Nat BY DEF Sectors
  <2>5. \A name \in Names : Given(name)' = GivenAfter(name) BY DEF Given, GivenAfter
  <2> HIDE DEF pad
  <2>6. CASE s = n
    <3>1. s < n' /\ landed'[s] = place BY <1>1, <1>3, <2>3, <2>6
    <3>2. landed'[s].name = cur /\ landed'[s].offset = written[cur] + out_len + pad BY <3>1
    <3>3. GivenAfter(cur) = written[cur] + out_len + (pad + image[n]) BY <1>2, <2>1, <2>5
    <3>4. landed'[s].offset + image[s] <= GivenAfter(cur) BY <1>2, <1>3, <1>5, <1>8, <2>6, <3>2, <3>3
    <3>5. landed'[s].offset + image[s] <= GivenAfter(landed'[s].name) BY <3>2, <3>4
    <3>6. InStep(s)' => landed'[s] = [name |-> SplitName(PartAt(index_table, s))',
        offset |-> PosAt(index_table, s)']
      <4>1. InStep(s)' => OnTrack BY <1>2, <1>4, <2>6
      <4> HIDE DEF place
      <4> QED BY <1>4, <1>13, <2>6, <3>1, <4>1 DEF PosAt, PartAt, Begins
    <3> QED BY <1>4, <3>1, <3>5, <3>6 DEF LandedAt, Given, GivenAfter
  <2>7. CASE s < n
    <3>1. s < n' /\ landed'[s] = landed[s] BY <1>1, <1>3, <2>3, <2>4, <2>7
    <3>2. /\ landed[s].offset + image[s] <= Given(landed[s].name)
          /\ InStep(s) => landed[s] = [name |-> SplitName(PartAt(index_table, s)),
                                       offset |-> PosAt(index_table, s)]
      BY <2>2, <2>7 DEF LandedAt
    <3>3. landed[s].offset + image[s] <= GivenAfter(landed[s].name) BY <2>1, <2>3, <2>5, <3>2
    <3>4. landed'[s].offset + image[s] <= GivenAfter(landed'[s].name) BY <3>1, <3>3
    <3>5. InStep(s)' => landed'[s] = [name |-> SplitName(PartAt(index_table, s))',
        offset |-> PosAt(index_table, s)']
      BY <1>4, <3>1, <3>2 DEF PosAt, PartAt, Begins
    <3> QED BY <1>4, <3>1, <3>4, <3>5 DEF LandedAt, Given, GivenAfter
  <2>8. CASE s > n
    <3>1. ~(s < n') /\ ~(s < n) /\ landed'[s] = landed[s] BY <1>1, <1>3, <2>3, <2>4, <2>8
    <3>2. landed[s] = Nowhere BY <2>2, <3>1 DEF LandedAt
    <3> QED BY <3>1, <3>2 DEF LandedAt, Nowhere
  <2> QED BY <1>3, <2>4, <2>6, <2>7, <2>8
<1>15. ASSUME OnTrack'
    PROVE  OnTrack
  <2>1. CASE stream_part_needs_padding'
    <3>1. n' - 1 = n BY <1>1, <1>3
    <3>2. OnTrack' <=> InStep(n) BY <1>4, <2>1, <3>1 DEF OnTrack
    <3> QED BY <1>2, <1>15, <3>2
  <2>2. CASE ~stream_part_needs_padding'
    <3>1. n' # total_data_sectors' BY <1>1, <1>3, <1>4, <1>9, <2>2
    <3>2. OnTrack' <=> InStep(n + 1) BY <1>1, <1>4, <2>2, <3>1 DEF OnTrack
    <3>3. n \in Int /\ n + 1 \in Int /\ n <= n + 1 BY <1>3
    <3>4. InStep(n) BY <1>15, <3>2, <3>3, InStepBefore
    <3> QED BY <1>2, <3>4
  <2> QED BY <2>1, <2>2
<1> HIDE DEF place
<1>16. ASSUME OnTrack'
    PROVE  InPlace'
  <2>1. OnTrack BY <1>15, <1>16
  <2>2. /\ Local' = EndAt(index_table, image, n)
        /\ stream_position' = stream_part_start + EndAt(index_table, image, n)
        /\ q = PartAt(index_table, n)
        /\ Aligned(stream_part_start)
    BY <1>1, <1>2, <1>3, <1>5, <1>7, <2>1
  <2>3. BytesOK' BY <1>1, <1>2, <1>6, <1>7, <1>11, <2>1, BytesKept
  <2>4. CASE stream_part_needs_padding'
    <3>1. n' - 1 = n BY <1>1, <1>3
    <3>2. q' = PartAt(index_table', n' - 1) /\ Local' = EndAt(index_table', image', n' - 1)
      BY <1>2, <1>4, <1>6, <2>2, <3>1
    <3> QED BY <1>4, <1>6, <1>11, <2>2, <2>3, <2>4, <3>2 DEF InPlace
  <2>5. CASE ~stream_part_needs_padding'
    <3>1. n + 1 < total_data_sectors /\ ~CutAfter(index_table, image, n)
      <4>1. n + 1 < total_data_sectors /\ ~(EndAt(index_table, image, n) >= SplitPoint)
        BY <1>9, <2>2, <2>5
      <4>2. n' # total_data_sectors' BY <1>1, <1>3, <1>4, <4>1
      <4>3. InStep(n + 1) BY <1>1, <1>4, <1>16, <2>5, <4>2 DEF OnTrack
      <4> QED BY <1>5, <4>1, <4>3
    <3>2. q' = PartAt(index_table', n') BY <1>1, <1>4, <1>5, <1>6, <2>2, <3>1
    <3>3. Local' + AlignPadding(stream_position') = PosAt(index_table', n')
      <4>1. AlignPadding(stream_position') = AlignPadding(EndAt(index_table, image, n))
        BY <1>3, <1>5, <2>2, AlignedShift
      <4> QED BY <1>1, <1>4, <1>5, <2>2, <3>1, <4>1 DEF Rounded
    <3> QED BY <1>4, <1>6, <1>11, <2>2, <2>3, <2>5, <3>2, <3>3 DEF InPlace
  <2> QED BY <2>4, <2>5
<1> QED BY <1>4, <1>10, <1>12, <1>14, <1>16 DEF IInv, StreamOK

-----------------------------------------------------------------------------
(* The invariants                                                            *)

LEMMA NextIInv ==
  ASSUME IInv, [Next]_vars
  PROVE  IInv'
<1>1. CASE HashNextPart BY <1>1, HashNextPartIInv
<1>2. CASE SizeSector BY <1>2, SizeSectorIInv
<1>3. CASE YieldBatch BY <1>3, YieldBatchIInv
<1>4. CASE FinishLastBatch BY <1>4, FinishLastBatchIInv
<1>5. ASSUME NEW max \in ChunkLimits, StreamHeaderAndIndex(max)
      PROVE  IInv'
  BY <1>5, StreamHeaderIInv
<1>6. ASSUME NEW max \in ChunkLimits, StreamSectors(max)
      PROVE  IInv'
  BY <1>6, StreamSectorsIInv
<1>7. CASE StreamPadding BY <1>7, StreamPaddingIInv
<1>8. CASE EmitSector BY <1>8, EmitSectorIInv
<1>9. CASE ReturnSectors BY <1>9, ReturnSectorsIInv
<1>10. CASE SizingReadFails BY <1>10, SizingReadFailsIInv
<1>11. CASE StreamingReadFails BY <1>11, StreamingReadFailsIInv
<1>12. CASE Ended \/ UNCHANGED vars
  <2>1. UNCHANGED vars BY <1>12 DEF Ended
  <2> QED
    BY <2>1 DEF vars, imageVars, sizingVars, streamVars, callVars, driverVars, IInv, TypeOK, SizingOK,
       PlanningOK, DoneOK, StreamOK, Steady, LandedOK, LandedAt, Given, OnTrack, InStep, InPlace, BytesOK,
       BytesOf, AllStreamed, Local, Sized, BatchEnd, StartPosition, TotalParts, SplitName, Sectors, Names
<1> QED BY <1>1, <1>2, <1>3, <1>4, <1>5, <1>6, <1>7, <1>8, <1>9, <1>10, <1>11, <1>12 DEF Next, Call

\* The index of the sectors sized is the layout of the image, every part that
\* ended has its size recorded, and the streaming pass stands where the index
\* puts its next sector.
THEOREM Invariant == Spec => []IInv
<1>1. Init => IInv BY InitIInv
<1>2. IInv /\ [Next]_vars => IInv' BY NextIInv
<1> QED BY <1>1, <1>2, PTL DEF Spec

\* The reader's count of the parts is that of the layout.
LEMMA LocateFacts ==
  ASSUME TypeOK, NEW s \in Sectors
  PROVE  LocatePart(s) = PartAt(index_table, s)
<1>1. s \in Nat /\ s < total_data_sectors /\ total_data_sectors \in Nat BY DEF TypeOK, Sectors
<1>2. {b \in PartBoundaries : b <= s} = Begins(index_table, s)
  <2>1. \A b : b \in 1 .. total_data_sectors - 1 /\ b <= s <=> b \in 1 .. s BY <1>1
  <2>2. 0 <= s BY <1>1
  <2> QED BY <2>1, <2>2 DEF PartBoundaries, Begins
<1> QED BY <1>2 DEF LocatePart, PartAt

\* The fields of the session keep their types, and as long as every part
\* before it ended aligned, a sector is streamed into the file, and to the
\* offset, where a reader of the index will look for it.
THEOREM SessionIsSound == Spec => []SessionSound
<1>1. ASSUME IInv PROVE SessionSound
  <2>1. TypeOK BY <1>1 DEF IInv
  <2> SUFFICES ASSUME NEW s \in Sectors, landed[s] # Nowhere, InStep(s)
      PROVE  landed[s] = [name |-> SplitName(LocatePart(s)), offset |-> StoredOffset(s)]
    BY <2>1 DEF SessionSound
  <2>2. sizing_done
    <3> SUFFICES ASSUME ~sizing_done PROVE FALSE OBVIOUS
    <3>1. landed = [t \in Sectors |-> Nowhere] BY <1>1 DEF IInv, PlanningOK
    <3> QED BY <3>1
  <2>3. LandedAt(s) BY <1>1, <2>2, CursorFacts DEF LandedOK
  <2>4. landed[s] = [name |-> SplitName(PartAt(index_table, s)),
      offset |-> PosAt(index_table, s)]
    BY <2>3 DEF LandedAt
  <2>5. StoredOffset(s) = PosAt(index_table, s) BY DEF StoredOffset, PosAt
  <2> QED BY <2>1, <2>4, <2>5, LocateFacts
<1> QED BY Invariant, <1>1, PTL

-----------------------------------------------------------------------------
(* A session is a PartStream session                                         *)

\* A manifest that holds keeps the streaming pass on track.
LEMMA HoldsOnTrack ==
  ASSUME IInv, ManifestHolds
  PROVE  sizing_done /\ OnTrack
<1>1. sizing_done /\ InStep(total_data_sectors - 1) BY DEF ManifestHolds
<1>2. /\ total_data_sectors \in Nat /\ stream_next_sector \in Nat
      /\ stream_next_sector <= total_data_sectors
  BY <1>1, CursorFacts
<1>3. InStep(stream_next_sector - 1) BY <1>1, <1>2, InStepBefore
<1>4. stream_next_sector < total_data_sectors => InStep(stream_next_sector) BY <1>1, <1>2, InStepBefore
<1>5. stream_next_sector = total_data_sectors \/ stream_next_sector < total_data_sectors BY <1>2
<1> QED BY <1>1, <1>3, <1>4, <1>5 DEF OnTrack

\* A part's file, counted from 0: all of it before the current one, nothing
\* behind it, never too much, and all of it in the end.
FileOK(p) ==
  /\ BytesOf(p) \in Nat /\ sizing_part_sizes[p + 1] \in Nat
  /\ p < stream_part_index => BytesOf(p) = sizing_part_sizes[p + 1]
  /\ p > stream_part_index => BytesOf(p) = 0
  /\ BytesOf(p) <= sizing_part_sizes[p + 1]
  /\ IsDone => BytesOf(p) = sizing_part_sizes[p + 1]

LEMMA BytesBounded ==
  ASSUME IInv, ManifestHolds, NEW p \in 0 .. TotalParts - 1
  PROVE  FileOK(p)
<1> DEFINE q == stream_part_index
           n == stream_next_sector
           size == sizing_part_sizes[p + 1]
<1>1. /\ TypeOK /\ DoneOK /\ Steady /\ InPlace /\ sizing_done /\ OnTrack
      /\ total_data_sectors \in Nat /\ 0 < total_data_sectors
      /\ n \in Nat /\ n <= total_data_sectors
      /\ stream_position \in Nat /\ Local \in Nat
      /\ StartPosition \in Nat
      /\ header_index_pos \in Nat /\ header_index_pos <= StartPosition
      /\ q \in 0 .. TotalParts - 1
      /\ out_len \in Nat
  BY HoldsOnTrack, CursorFacts, TrackFacts
<1>2. /\ IndexOK(index_table, image, StartPosition, total_data_sectors)
      /\ TotalParts = PartAt(index_table, total_data_sectors - 1) + 1
      /\ TotalParts \in Nat
      /\ size \in Nat
      /\ \A s \in Sectors :
           /\ EndAt(index_table, image, s) <= sizing_part_sizes[PartAt(index_table, s) + 1]
           /\ sizing_part_sizes[PartAt(index_table, s) + 1] \in Nat
  BY <1>1, DoneFacts
<1>3. p \in Nat /\ q \in Nat /\ p < TotalParts BY <1>1, <1>2
<1>4. CASE p < q BY <1>2, <1>3, <1>4 DEF FileOK, BytesOf
<1>5. IsDone => AllStreamed /\ q = TotalParts - 1 /\ header_index_pos >= StartPosition
  <2> SUFFICES ASSUME IsDone
      PROVE  AllStreamed /\ q = TotalParts - 1 /\ header_index_pos >= StartPosition
    OBVIOUS
  <2>1. AllStreamed /\ n = total_data_sectors /\ header_index_pos >= StartPosition
    BY <1>1 DEF IsDone, AllStreamed
  <2>2. q = PartAt(index_table, n - 1) BY <1>1, <2>1 DEF InPlace
  <2>3. PartAt(index_table, n - 1) \in Nat BY <1>1, <2>1, PartAtRange
  <2> QED BY <1>2, <2>1, <2>2, <2>3
<1>6. CASE p > q
  <2>1. BytesOf(p) = 0 BY <1>3, <1>6 DEF BytesOf
  <2>2. ~IsDone BY <1>2, <1>3, <1>5, <1>6
  <2> QED BY <1>2, <1>3, <1>6, <2>1, <2>2 DEF FileOK
<1>7. CASE p = q
  <2>1. /\ BytesOf(p) \in Nat
        /\ header_index_pos < StartPosition => BytesOf(p) = header_index_pos
        /\ header_index_pos >= StartPosition /\ AllStreamed => BytesOf(p) = size
        /\ header_index_pos >= StartPosition /\ ~AllStreamed => BytesOf(p) = Local - out_len
    BY <1>1, <1>7, CurrentBytes
  <2>2. CASE header_index_pos < StartPosition
    <3>1. n = 0 /\ 0 \in Sectors /\ ~stream_part_needs_padding BY <1>1, <2>2 DEF Steady, Sectors
    <3>2. q = PartAt(index_table, 0) /\ PosAt(index_table, 0) = StartPosition
      BY <1>1, <1>2, <3>1 DEF InPlace, IndexOK
    <3>3. /\ EndAt(index_table, image, 0) = PosAt(index_table, 0) + image[0]
          /\ image[0] \in Nat
      BY <1>1, <3>1, IndexFacts
    <3>4. EndAt(index_table, image, 0) <= size BY <1>2, <1>7, <3>1, <3>2
    <3>5. BytesOf(p) <= size BY <1>1, <1>2, <2>1, <2>2, <3>2, <3>3, <3>4
    <3>6. ~IsDone BY <1>1, <1>5, <2>2
    <3> QED BY <1>2, <1>3, <1>7, <2>1, <3>5, <3>6 DEF FileOK
  <2>3. CASE header_index_pos >= StartPosition /\ AllStreamed BY <1>2, <1>3, <1>7, <2>1, <2>3 DEF FileOK
  <2>4. CASE header_index_pos >= StartPosition /\ ~AllStreamed
    <3>1. Local <= size
      <4>1. CASE stream_part_needs_padding
        <5>1. n - 1 \in Sectors /\ Local = EndAt(index_table, image, n - 1)
              /\ q = PartAt(index_table, n - 1)
          BY <1>1, <4>1 DEF InPlace, Steady, Sectors
        <5> QED BY <1>2, <1>7, <5>1
      <4>2. CASE ~stream_part_needs_padding
        <5>1. n < total_data_sectors /\ n \in Sectors BY <1>1, <2>4, <4>2 DEF AllStreamed, Sectors
        <5>2. /\ Local + AlignPadding(stream_position) = PosAt(index_table, n)
              /\ q = PartAt(index_table, n)
          BY <1>1, <4>2, <5>1 DEF InPlace
        <5>3. AlignPadding(stream_position) \in Nat BY <1>1, RoundedFacts
        <5>4. /\ EndAt(index_table, image, n) = PosAt(index_table, n) + image[n]
              /\ image[n] \in Nat
          BY <1>1, <5>1, IndexFacts
        <5>5. EndAt(index_table, image, n) <= size BY <1>2, <1>7, <5>1, <5>2
        <5> QED BY <1>1, <1>2, <5>2, <5>3, <5>4, <5>5
      <4> QED BY <4>1, <4>2
    <3>2. BytesOf(p) <= size BY <1>1, <1>2, <2>1, <2>4, <3>1
    <3>3. ~IsDone BY <1>5, <2>4
    <3> QED BY <1>2, <1>3, <1>7, <2>1, <3>2, <3>3 DEF FileOK
  <2> QED BY <1>1, <2>2, <2>3, <2>4
<1> QED BY <1>3, <1>4, <1>6, <1>7

LEMMA BytesBoundedNext ==
  (IInv /\ ManifestHolds => \A p \in 0 .. TotalParts - 1 : FileOK(p))'
<1>1. IInv /\ ManifestHolds => \A p \in 0 .. TotalParts - 1 : FileOK(p) BY BytesBounded
<1> QED BY <1>1, PTL

\* What PartStream sees of a session whose manifest holds.
LEMMA PromisedFacts ==
  ASSUME IInv, ManifestHolds
  PROVE  /\ Published = output_manifest
         /\ DOMAIN output_manifest = 1 .. TotalParts
         /\ \A p \in 1 .. TotalParts : /\ output_manifest[p].name = SplitName(p - 1)
                                       /\ output_manifest[p].size = sizing_part_sizes[p]
         /\ Promised = [p \in 1 .. TotalParts |-> sizing_part_sizes[p]]
         /\ HandedOver = [p \in 1 .. TotalParts |-> written[SplitName(p - 1)]]
         /\ \A p \in 1 .. TotalParts : written[SplitName(p - 1)] = BytesOf(p - 1)
         /\ \A p \in 1 .. TotalParts : sizing_part_sizes[p] \in Nat
         /\ \A p \in 1 .. TotalParts : SplitName(p - 1) \in Names
         /\ TotalParts \in Nat
<1>1. /\ TotalParts \in Nat /\ InPlace /\ TypeOK /\ DoneOK /\ sizing_done
      /\ Published = output_manifest
      /\ \A p \in 0 .. TotalParts - 1 : /\ SplitName(p) \in Names
                                        /\ sizing_part_sizes[p + 1] \in Nat
  <2>1. sizing_done /\ OnTrack BY HoldsOnTrack
  <2> QED BY <2>1, CursorFacts, DoneFacts DEF Published
<1>2. output_manifest = [p \in 1 .. TotalParts |->
    [name |-> SplitName(p - 1), size |-> sizing_part_sizes[p]]]
  BY <1>1 DEF DoneOK
<1>3. \A p \in 1 .. TotalParts : p - 1 \in 0 .. TotalParts - 1 /\ (p - 1) + 1 = p BY <1>1
<1>4. /\ DOMAIN output_manifest = 1 .. TotalParts
      /\ \A p \in 1 .. TotalParts :
           output_manifest[p] = [name |-> SplitName(p - 1), size |-> sizing_part_sizes[p]]
  BY <1>2
<1>5. \A p \in 1 .. TotalParts : /\ output_manifest[p].name = SplitName(p - 1)
                                 /\ output_manifest[p].size = sizing_part_sizes[p]
  <2> SUFFICES ASSUME NEW p \in 1 .. TotalParts
      PROVE  /\ output_manifest[p].name = SplitName(p - 1)
             /\ output_manifest[p].size = sizing_part_sizes[p]
    OBVIOUS
  <2>1. output_manifest[p] = [name |-> SplitName(p - 1), size |-> sizing_part_sizes[p]] BY <1>4
  <2> QED BY <2>1
<1>6. Promised = [p \in 1 .. TotalParts |-> sizing_part_sizes[p]] BY <1>1, <1>4, <1>5 DEF Promised
<1>7. HandedOver = [p \in 1 .. TotalParts |-> written[SplitName(p - 1)]]
  BY <1>1, <1>4, <1>5 DEF HandedOver
<1>8. \A p \in 1 .. TotalParts : written[SplitName(p - 1)] = BytesOf(p - 1)
  BY <1>1, <1>3 DEF InPlace, BytesOK
<1>9. \A p \in 1 .. TotalParts : sizing_part_sizes[p] \in Nat /\ SplitName(p - 1) \in Names
  <2> SUFFICES ASSUME NEW p \in 1 .. TotalParts
      PROVE  sizing_part_sizes[p] \in Nat /\ SplitName(p - 1) \in Names
    OBVIOUS
  <2>1. sizing_part_sizes[(p - 1) + 1] \in Nat /\ SplitName(p - 1) \in Names BY <1>1, <1>3
  <2> QED BY <1>3, <2>1
<1> QED BY <1>1, <1>4, <1>5, <1>6, <1>7, <1>8, <1>9

LEMMA PromisedNext ==
  (IInv /\ ManifestHolds =>
     /\ Promised = [p \in 1 .. TotalParts |-> sizing_part_sizes[p]]
     /\ HandedOver = [p \in 1 .. TotalParts |-> written[SplitName(p - 1)]]
     /\ \A p \in 1 .. TotalParts : /\ sizing_part_sizes[p] \in Nat
                                   /\ SplitName(p - 1) \in Names
     /\ TotalParts \in Nat)'
<1>1. IInv /\ ManifestHolds =>
        /\ Promised = [p \in 1 .. TotalParts |-> sizing_part_sizes[p]]
        /\ HandedOver = [p \in 1 .. TotalParts |-> written[SplitName(p - 1)]]
        /\ \A p \in 1 .. TotalParts : /\ sizing_part_sizes[p] \in Nat
                                      /\ SplitName(p - 1) \in Names
        /\ TotalParts \in Nat
  BY PromisedFacts
<1> QED BY <1>1, PTL

LEMMA PromisedBytesNext ==
  (IInv /\ ManifestHolds =>
     \A p \in 0 .. TotalParts - 1 : written[SplitName(p)] = BytesOf(p))'
<1>1. IInv /\ ManifestHolds =>
        \A p \in 0 .. TotalParts - 1 : written[SplitName(p)] = BytesOf(p)
  BY HoldsOnTrack, CursorFacts DEF InPlace, BytesOK
<1> QED BY <1>1, PTL

\* A step that hands nothing over and publishes nothing is a stutter.
LEMMA Silent ==
  ASSUME pc # "failed", pc' # "failed", ManifestHolds' <=> ManifestHolds,
         ~(pc = "idle" /\ IsDone), ~(pc' = "idle" /\ IsDone'),
         UNCHANGED <<output_manifest, written>>
  PROVE  UNCHANGED Stream!vars
<1>1. Phase' = Phase BY DEF Phase
<1>2. Promised' = Promised /\ HandedOver' = HandedOver BY DEF Promised, HandedOver, Published
<1> QED BY <1>1, <1>2 DEF Stream!vars

\* A session without a manifest that holds goes on or fails.
LEMMA Unpromised ==
  ASSUME pc # "failed", ~(pc = "idle" /\ IsDone), ~ManifestHolds, ~ManifestHolds'
  PROVE  [Stream!Next]_(Stream!vars)
<1>1. Phase = "planning" /\ Phase' \in {"planning", "failed"} BY DEF Phase
<1>2. Published = <<>> /\ Published' = <<>> BY DEF Published
<1>3. Promised' = Promised /\ HandedOver' = HandedOver BY <1>2 DEF Promised, HandedOver
<1>4. CASE Phase' = Phase BY <1>3, <1>4 DEF Stream!vars
<1>5. CASE Phase' = "failed" BY <1>1, <1>3, <1>5 DEF Stream!Next, Stream!Fail
<1> QED BY <1>1, <1>4, <1>5

\* Whether the manifest holds is settled with it.
LEMMA HoldsKept ==
  ASSUME UNCHANGED <<imageVars, sizingVars>>
  PROVE  ManifestHolds' <=> ManifestHolds
BY DEF ManifestHolds, InStep, imageVars, sizingVars

\* Publishing the manifest is PartStream's Publish.
LEMMA Publishes ==
  ASSUME IInv, IInv', FinishLastBatch, ManifestHolds'
  PROVE  Stream!Publish
<1>1. /\ pc = "sizing" /\ pc' = "idle" /\ sizing_done' /\ written' = written
      /\ header_index_pos' = header_index_pos
      /\ total_data_sectors' = total_data_sectors
  BY DEF FinishLastBatch, streamVars, driverVars, imageVars
<1>2. ~sizing_done BY <1>1, CursorFacts DEF Steady
<1>3. Phase = "planning" BY <1>1, <1>2 DEF Phase, ManifestHolds
<1>4. Phase' = "streaming"
  <2>1. header_index_pos = 0 /\ 0 < StartPosition /\ StartPosition \in Nat
    BY <1>2, ImageFacts DEF IInv, PlanningOK
  <2>2. StartPosition' = StartPosition BY <1>1 DEF StartPosition
  <2>3. ~IsDone' BY <1>1, <2>1, <2>2 DEF IsDone
  <2> QED BY <1>1, <2>3 DEF Phase
<1>5. /\ Promised' = [p \in 1 .. TotalParts' |-> sizing_part_sizes'[p]]
      /\ HandedOver' = [p \in 1 .. TotalParts' |-> written'[SplitName(p - 1)']]
      /\ \A p \in 1 .. TotalParts' : sizing_part_sizes'[p] \in Nat /\ SplitName(p - 1)' \in Names
      /\ TotalParts' \in Nat
  <2>1. Names' = Names BY DEF Names
  <2> QED BY <1>1, <2>1, PromisedNext
<1>6. Promised' \in Seq(Nat)
  <2> DEFINE count == TotalParts'
             sizes == sizing_part_sizes'
  <2>1. /\ Promised' = [p \in 1 .. count |-> sizes[p]] /\ count \in Nat
        /\ \A p \in 1 .. count : sizes[p] \in Nat
    BY <1>5
  <2> HIDE DEF count, sizes
  <2> QED BY <2>1
<1>7. HandedOver' = [p \in DOMAIN Promised' |-> 0]
  <2>1. written = [name \in Names |-> 0] BY <1>2 DEF IInv, PlanningOK
  <2> QED BY <1>1, <1>5, <2>1
<1> QED BY <1>3, <1>4, <1>6, <1>7 DEF Stream!Publish

\* Appending a chunk to the current part's file is PartStream's Deliver.
LEMMA Delivers ==
  ASSUME IInv, IInv', ManifestHolds, ~(pc = "idle" /\ IsDone),
         pc # "failed", pc' # "failed", NEW k \in Nat,
         AppendToFile(SplitName(stream_part_index), k), UNCHANGED <<imageVars, sizingVars>>
  PROVE  \E p \in DOMAIN Promised : Stream!Deliver(p)
<1> DEFINE cur == stream_part_index + 1
           name == SplitName(stream_part_index)
<1>1. stream_part_index \in 0 .. TotalParts - 1 /\ TotalParts \in Nat
  BY HoldsOnTrack, TrackFacts, PromisedFacts
<1>2. /\ Promised = [p \in 1 .. TotalParts |-> sizing_part_sizes[p]]
      /\ HandedOver = [p \in 1 .. TotalParts |-> written[SplitName(p - 1)]]
      /\ \A p \in 1 .. TotalParts : written[SplitName(p - 1)] = BytesOf(p - 1)
      /\ \A p \in 1 .. TotalParts : sizing_part_sizes[p] \in Nat
  BY PromisedFacts
<1>3. /\ TotalParts' = TotalParts /\ sizing_part_sizes' = sizing_part_sizes
      /\ \A p : SplitName(p)' = SplitName(p)
      /\ ManifestHolds' /\ Published' = Published /\ sizing_done
  <2>1. sizing_done /\ ManifestHolds' BY HoldsOnTrack, HoldsKept
  <2>2. Published' = Published BY <2>1 DEF Published, sizingVars
  <2> QED BY <2>1, <2>2, SizingKept
<1>4. Promised' = Promised BY <1>3 DEF Promised
<1>5. HandedOver' = [p \in 1 .. TotalParts |-> written'[SplitName(p - 1)]]
  BY <1>3, PromisedFacts DEF HandedOver
<1>6. Phase = "streaming" BY DEF Phase
<1>7. Phase' \in {"streaming", "done"} /\ (Phase' = "done" => IsDone') BY <1>3 DEF Phase
<1>8. ASSUME NEW p \in 1 .. TotalParts
      PROVE  /\ p - 1 \in 0 .. TotalParts - 1
             /\ written'[SplitName(p - 1)] <= sizing_part_sizes[p]
             /\ IsDone' => written'[SplitName(p - 1)] = sizing_part_sizes[p]
             /\ p < cur => written[SplitName(p - 1)] = sizing_part_sizes[p]
             /\ p > cur => written[SplitName(p - 1)] = 0
  <2> DEFINE o == p - 1
  <2>1. o \in 0 .. TotalParts - 1 /\ o + 1 = p BY <1>1
  <2>2. p < cur <=> o < stream_part_index BY <1>1
  <2>3. p > cur <=> o > stream_part_index BY <1>1
  <2> HIDE DEF o, cur
  <2>4. FileOK(o) BY <2>1, BytesBounded
  <2>5. FileOK(o)' BY <1>3, <2>1, BytesBoundedNext
  <2>6. written[SplitName(o)] = BytesOf(o) BY <1>2 DEF o
  <2>7. written'[SplitName(o)] = BytesOf(o)' BY <1>3, <2>1, PromisedBytesNext
  <2>8. /\ written'[SplitName(o)] <= sizing_part_sizes[p]
        /\ IsDone' => written'[SplitName(o)] = sizing_part_sizes[p]
    BY <1>3, <2>1, <2>5, <2>7 DEF FileOK
  <2>9. /\ p < cur => written[SplitName(o)] = sizing_part_sizes[p]
        /\ p > cur => written[SplitName(o)] = 0
    BY <2>1, <2>2, <2>3, <2>4, <2>6 DEF FileOK
  <2> QED BY <2>1, <2>8, <2>9 DEF o
<1>9. /\ \A q \in DOMAIN Promised : q < cur => HandedOver[q] = Promised[q]
      /\ \A q \in DOMAIN Promised : q > cur => HandedOver[q] = 0
  BY <1>2, <1>8
<1>10. /\ written'[name] = written[name] + k /\ written[name] \in Nat
       /\ \A p \in 0 .. TotalParts - 1 :
            p # stream_part_index => written'[SplitName(p)] = written[SplitName(p)]
  BY <1>1, <1>3, AppendToPart
<1>11. cur \in 1 .. TotalParts /\ cur - 1 = stream_part_index BY <1>1
<1>12. \A p \in 1 .. TotalParts : p # cur => written'[SplitName(p - 1)] = written[SplitName(p - 1)]
  <2> SUFFICES ASSUME NEW p \in 1 .. TotalParts, p # cur
      PROVE  written'[SplitName(p - 1)] = written[SplitName(p - 1)]
    OBVIOUS
  <2>1. p - 1 # stream_part_index /\ p - 1 \in 0 .. TotalParts - 1 BY <1>1
  <2> QED BY <1>10, <2>1
<1> HIDE DEF cur
<1>13. HandedOver' = [HandedOver EXCEPT ![cur] = written'[name]]
  <2>1. HandedOver' = [p \in 1 .. TotalParts |-> IF p = cur THEN written'[name] ELSE HandedOver[p]]
    BY <1>2, <1>5, <1>11, <1>12
  <2> QED BY <1>2, <1>11, <2>1
<1>14. written'[name] \in HandedOver[cur] .. Promised[cur]
  <2>1. HandedOver[cur] = written[name] /\ Promised[cur] = sizing_part_sizes[cur] BY <1>2, <1>11
  <2>2. written'[name] <= sizing_part_sizes[cur] /\ sizing_part_sizes[cur] \in Nat BY <1>2, <1>8, <1>11
  <2> QED BY <1>10, <2>1, <2>2
<1>15. Phase' = "done" => HandedOver' = Promised' BY <1>2, <1>4, <1>5, <1>7, <1>8
<1>16. cur \in DOMAIN Promised BY <1>2, <1>11
<1>17. Stream!Deliver(cur)
  BY <1>4, <1>6, <1>7, <1>9, <1>13, <1>14, <1>15 DEF Stream!Deliver, Stream!Complete
<1> QED BY <1>16, <1>17

\* A session is not done in the middle of a loop, nor before the manifest.
LEMMA NotDone ==
  ASSUME IInv
  PROVE  /\ pc = "emitting" => ~IsDone /\ sizing_done
         /\ ~sizing_done => ~IsDone
<1>1. pc = "emitting" => sizing_done BY DEF IInv, PlanningOK
<1>2. pc = "emitting" => ~IsDone
  <2> SUFFICES ASSUME pc = "emitting", IsDone PROVE FALSE OBVIOUS
  <2>1. AllStreamed BY <1>1, CursorFacts DEF IsDone, AllStreamed
  <2> QED BY <1>1, <2>1, CursorFacts DEF Steady
<1> QED BY <1>1, <1>2 DEF IsDone

\* Every step of the session is a step of PartStream or changes nothing it sees.
LEMMA StepRefines ==
  ASSUME IInv, IInv', [Next]_vars
  PROVE  [Stream!Next]_(Stream!vars)
<1>1. CASE HashNextPart
  <2>1. /\ pc = "idle" /\ ~sizing_done /\ pc' = "sizing"
        /\ UNCHANGED <<imageVars, sizingVars, output_manifest, written>>
    BY <1>1 DEF HashNextPart, sizingVars, driverVars
  <2> QED BY <2>1, NotDone, HoldsKept, Silent
<1>2. CASE SizeSector
  <2>1. /\ pc = "sizing" /\ pc' = "sizing" /\ sizing_done' = sizing_done
        /\ UNCHANGED <<output_manifest, written>>
    BY <1>2 DEF SizeSector, MakeRoom, driverVars
  <2>2. ~sizing_done BY <2>1, CursorFacts DEF Steady
  <2> QED BY <2>1, <2>2, Silent DEF ManifestHolds
<1>3. CASE YieldBatch
  <2>1. /\ pc = "sizing" /\ pc' = "idle" /\ sizing_done' = sizing_done
        /\ UNCHANGED <<output_manifest, written>>
    BY <1>3 DEF YieldBatch, driverVars
  <2>2. ~sizing_done BY <2>1, CursorFacts DEF Steady
  <2>3. ~IsDone' BY <2>1, <2>2 DEF IsDone
  <2> QED BY <2>1, <2>2, <2>3, Silent DEF ManifestHolds
<1>4. CASE FinishLastBatch
  <2>1. pc = "sizing" BY <1>4 DEF FinishLastBatch
  <2>2. ~sizing_done BY <2>1, CursorFacts DEF Steady
  <2>3. CASE ManifestHolds' BY <1>4, <2>3, Publishes DEF Stream!Next
  <2>4. CASE ~ManifestHolds' BY <2>1, <2>2, <2>4, Unpromised DEF ManifestHolds
  <2> QED BY <2>3, <2>4
<1>5. ASSUME NEW max \in ChunkLimits, StreamHeaderAndIndex(max)
      PROVE  [Stream!Next]_(Stream!vars)
  <2> DEFINE k == Smaller(header_index_pos + max, StartPosition) - header_index_pos
  <2>1. /\ pc = "idle" /\ pc' = "idle" /\ sizing_done /\ header_index_pos < StartPosition
        /\ AppendToFile(SplitName(0), k)
        /\ UNCHANGED <<imageVars, sizingVars>>
    BY <1>5 DEF StreamHeaderAndIndex, callVars
  <2>2. /\ StartPosition \in Nat /\ header_index_pos \in Nat /\ Steady
        /\ total_data_sectors \in Nat /\ 0 < total_data_sectors
    BY <2>1, CursorFacts
  <2>3. k \in Nat
    <3>1. max \in Nat BY CisoAssumption
    <3> QED BY <2>1, <2>2, <3>1 DEF Smaller
  <2> HIDE DEF k
  <2>4. stream_part_index = 0
    <3>1. stream_next_sector = 0 /\ stream_part_index \in Nat
          /\ stream_part_index <= stream_next_sector
      BY <2>1, <2>2, CursorFacts DEF Steady
    <3> QED BY <3>1
  <2>5. ~IsDone BY <2>1, <2>2 DEF IsDone
  <2>6. CASE ManifestHolds
    <3>1. \E p \in DOMAIN Promised : Stream!Deliver(p) BY <2>1, <2>3, <2>4, <2>5, <2>6, Delivers
    <3> QED BY <3>1 DEF Stream!Next
  <2>7. CASE ~ManifestHolds BY <2>1, <2>5, <2>7, HoldsKept, Unpromised
  <2> QED BY <2>6, <2>7
<1>6. ASSUME NEW max \in ChunkLimits, StreamSectors(max)
      PROVE  UNCHANGED Stream!vars
  <2>1. /\ pc = "idle" /\ pc' = "emitting" /\ sizing_done
        /\ stream_next_sector < total_data_sectors
        /\ UNCHANGED <<imageVars, sizingVars, output_manifest, written>>
    BY <1>6 DEF StreamSectors, sizingVars, driverVars
  <2>2. ~IsDone BY <2>1, CursorFacts DEF IsDone
  <2> QED BY <2>1, <2>2, HoldsKept, Silent
<1>7. CASE StreamPadding
  <2>1. /\ pc = "idle" /\ pc' = "idle" /\ sizing_done /\ stream_part_needs_padding
        /\ AppendToFile(current_entry_name, TrailingPad(Local))
        /\ UNCHANGED <<imageVars, sizingVars>>
    BY <1>7 DEF StreamPadding, Local, callVars
  <2>2. Local \in Nat /\ Steady BY <2>1, CursorFacts
  <2>3. TrailingPad(Local) \in Nat /\ current_entry_name = SplitName(stream_part_index)
    BY <2>1, <2>2, PaddedFacts DEF Steady
  <2>4. ~IsDone BY <2>1 DEF IsDone
  <2>5. CASE ManifestHolds
    <3>1. \E p \in DOMAIN Promised : Stream!Deliver(p) BY <2>1, <2>3, <2>4, <2>5, Delivers
    <3> QED BY <3>1 DEF Stream!Next
  <2>6. CASE ~ManifestHolds BY <2>1, <2>4, <2>6, HoldsKept, Unpromised
  <2> QED BY <2>5, <2>6
<1>8. CASE EmitSector
  <2>1. /\ pc = "emitting" /\ pc' = pc
        /\ UNCHANGED <<imageVars, sizingVars, output_manifest, written>>
    BY <1>8 DEF EmitSector, sizingVars
  <2> QED BY <2>1, HoldsKept, Silent
<1>9. CASE ReturnSectors
  <2>1. /\ pc = "emitting" /\ pc' = "idle"
        /\ AppendToFile(current_entry_name, out_len)
        /\ UNCHANGED <<imageVars, sizingVars>>
    BY <1>9 DEF ReturnSectors
  <2>2. sizing_done /\ out_len \in Nat /\ current_entry_name = SplitName(stream_part_index)
    BY <2>1, NotDone, CursorFacts DEF Steady
  <2>3. CASE ManifestHolds
    <3>1. \E p \in DOMAIN Promised : Stream!Deliver(p) BY <2>1, <2>2, <2>3, Delivers
    <3> QED BY <3>1 DEF Stream!Next
  <2>4. CASE ~ManifestHolds BY <2>1, <2>4, HoldsKept, Unpromised
  <2> QED BY <2>3, <2>4
<1>10. CASE SizingReadFails \/ StreamingReadFails
  <2>1. /\ pc \in {"sizing", "emitting"} /\ pc' = "failed"
        /\ UNCHANGED <<output_manifest, written>>
    BY <1>10 DEF SizingReadFails, StreamingReadFails, MakeRoom, sizingVars, driverVars
  <2>2. ManifestHolds' <=> ManifestHolds
    <3>1. CASE StreamingReadFails
      <4>1. UNCHANGED <<imageVars, sizingVars>> BY <3>1 DEF StreamingReadFails
      <4> QED BY <4>1, HoldsKept
    <3>2. CASE SizingReadFails
      <4>1. pc = "sizing" /\ sizing_done' = sizing_done BY <3>2 DEF SizingReadFails, MakeRoom
      <4>2. ~sizing_done BY <4>1, CursorFacts DEF Steady
      <4> QED BY <4>1, <4>2 DEF ManifestHolds
    <3> QED BY <1>10, <3>1, <3>2
  <2>3. Phase \in {"planning", "streaming"} /\ Phase' = "failed" BY <2>1 DEF Phase
  <2>4. Promised' = Promised /\ HandedOver' = HandedOver BY <2>1, <2>2 DEF Promised, HandedOver, Published
  <2> QED BY <2>3, <2>4 DEF Stream!Next, Stream!Fail
<1>11. CASE Ended \/ UNCHANGED vars
  <2>1. UNCHANGED vars BY <1>11 DEF Ended
  <2> QED
    BY <2>1 DEF vars, imageVars, sizingVars, streamVars, callVars, driverVars, Stream!vars, Phase, IsDone,
       StartPosition, ManifestHolds, InStep, Published, Promised, HandedOver
<1> QED BY <1>1, <1>2, <1>3, <1>4, <1>5, <1>6, <1>7, <1>8, <1>9, <1>10, <1>11 DEF Next, Call, Stream!Next

\* A CISO session is a PartStream session: if the passes cut the image alike,
\* one planning pass, one manifest, then the promised bytes of one file after
\* the other; and if they do not, none of it counts as promised.
THEOREM Refines == Spec => Stream!Spec
<1>1. Init => Stream!Init
  <2> SUFFICES ASSUME Init PROVE Stream!Init OBVIOUS
  <2>1. Phase = "planning" BY DEF Init, Phase, IsDone, ManifestHolds
  <2>2. Published = <<>> BY DEF Init, Published
  <2>3. Promised = <<>> /\ HandedOver = <<>> BY <2>2 DEF Promised, HandedOver
  <2> QED BY <2>1, <2>3 DEF Stream!Init
<1>2. IInv /\ IInv' /\ [Next]_vars => [Stream!Next]_(Stream!vars) BY StepRefines
<1> QED BY Invariant, <1>1, <1>2, PTL DEF Spec, Stream!Spec

-----------------------------------------------------------------------------
(* What the reader finds                                                     *)

\* A number below the modulus is its own remainder.
LEMMA SmallMod ==
  ASSUME NEW w \in Nat \ {0}, NEW x \in Nat, x < w
  PROVE  x % w = x
<1>1. 0 * w = 0 OBVIOUS
<1>2. 0 * w <= x /\ x < 0 * w + w /\ 0 \in Nat BY <1>1
<1>3. x % w = x - 0 * w BY <1>2, DivUnique
<1> QED BY <1>1, <1>3

\* Of a finished session, header and index are complete, and the sectors lie
\* in their files; in step, where the index says.
LEMMA FinishedFacts ==
  ASSUME IInv, IsDone, pc = "idle"
  PROVE  /\ sizing_done /\ TypeOK /\ DoneOK
         /\ total_data_sectors \in Nat \ {0}
         /\ \A s \in Sectors : InStep(s) =>
              /\ landed[s] = [name |-> SplitName(PartAt(index_table, s)),
                              offset |-> PosAt(index_table, s)]
              /\ EndAt(index_table, image, s) <= PartSize(PartAt(index_table, s))
              /\ PartSize(PartAt(index_table, s)) \in Nat
         /\ SectorsFound = total_data_sectors
         /\ Opens
<1> DEFINE total == total_data_sectors
<1>1. sizing_done BY DEF IsDone
<1>2. /\ TypeOK /\ DoneOK /\ Steady /\ LandedOK /\ total \in Nat \ {0}
      /\ stream_next_sector = total
      /\ header_index_pos \in Nat /\ StartPosition \in Nat
      /\ header_index_pos >= StartPosition
      /\ SplitName(0) \in Names
  BY <1>1, CursorFacts DEF IsDone
<1>3. ASSUME NEW s \in Sectors, InStep(s)
      PROVE  /\ landed[s] = [name |-> SplitName(PartAt(index_table, s)),
                             offset |-> PosAt(index_table, s)]
             /\ EndAt(index_table, image, s) <= PartSize(PartAt(index_table, s))
             /\ PartSize(PartAt(index_table, s)) \in Nat
  <2> DEFINE name == SplitName(PartAt(index_table, s))
  <2>1. s < stream_next_sector BY <1>2 DEF Sectors
  <2>2. /\ landed[s].offset + image[s] <= Given(landed[s].name)
        /\ landed[s] = [name |-> name, offset |-> PosAt(index_table, s)]
    BY <1>2, <1>3, <2>1 DEF LandedOK, LandedAt
  <2>3. PosAt(index_table, s) + image[s] <= Given(name) BY <2>2
  <2>4. name \in Names /\ written[name] \in Nat
    <3>1. name \in Names BY <1>1, <1>2, DoneFacts
    <3> QED BY <1>2, <3>1 DEF TypeOK
  <2>5. Given(name) = written[name]
    <3>1. out_len = 0 BY <1>2 DEF Steady
    <3> QED BY <2>4, <3>1 DEF Given
  <2> QED BY <2>2, <2>3, <2>4, <2>5 DEF EndAt, PartSize
<1>4. SectorsFound = total
  <2>1. EntrySize \in Nat \ {0} /\ total + 1 \in Nat BY <1>2, CisoAssumption
  <2>2. ((total + 1) * EntrySize) \div EntrySize = total + 1 BY <2>1, MultipleExact
  <2>3. EntrySize * (total + 1) = (total + 1) * EntrySize BY <2>1
  <2> QED BY <1>2, <2>2, <2>3 DEF SectorsFound, IndexBytes
<1>5. Opens
  <2>1. /\ TotalParts = PartAt(index_table, total - 1) + 1
        /\ TotalParts \in 1 .. total
    BY <1>1, <1>2, DoneFacts
  <2>2. TotalParts > 0 BY <1>2, <2>1
  <2>3. StartPosition <= PartSize(0) /\ PartSize(0) \in Nat
    <3>1. written[SplitName(0)] \in Nat BY <1>2 DEF TypeOK
    <3>2. header_index_pos <= written[SplitName(0)] BY <1>2 DEF Steady
    <3> QED BY <1>2, <3>1, <3>2 DEF PartSize
  <2>4. IndexFits(PartSize(0))
    <3> DEFINE b == EntrySize * (total + 1)
    <3>1. b \in Nat /\ HeaderSize \in Nat BY <1>2, CisoAssumption
    <3>2. StartPosition = HeaderSize + b /\ IndexBytes = b BY DEF StartPosition, IndexBytes
    <3> HIDE DEF b
    <3> QED BY <2>3, <3>1, <3>2 DEF IndexFits
  <2>5. TotalParts >= Cardinality(PartBoundaries)
    <3>1. PartBoundaries = Begins(index_table, total - 1) BY DEF PartBoundaries, Begins
    <3>2. Cardinality(Begins(index_table, total - 1)) = PartAt(index_table, total - 1) + 1
      <4>1. total - 1 \in Nat BY <1>2
      <4> QED BY <4>1, PartAtRange
    <3> QED BY <2>1, <3>1, <3>2
  <2> QED BY <2>2, <2>4, <2>5 DEF Opens
<1> QED BY <1>1, <1>2, <1>3, <1>4, <1>5

\* A part ends with a sector that another follows exactly behind a cut.
LEMMA EndsPartFacts ==
  ASSUME IInv, sizing_done, NEW s \in Sectors
  PROVE  /\ EndsPart(s) <=> s + 1 < total_data_sectors /\ CutAfter(index_table, image, s)
         /\ EndsPart(s) => s + 1 < total_data_sectors
<1> DEFINE t == s + 1
<1>1. /\ s \in Nat /\ s < total_data_sectors /\ total_data_sectors \in Nat /\ TypeOK /\ DoneOK
      /\ StoredSectors(image, total_data_sectors)
  <2>1. TypeOK /\ DoneOK BY DEF IInv
  <2>2. total_data_sectors \in Nat \ {0} /\ StoredSectors(image, total_data_sectors) BY <2>1, ImageFacts
  <2> QED BY <2>1, <2>2 DEF Sectors
<1>2. IndexOK(index_table, image, StartPosition, total_data_sectors) BY <1>1, DoneFacts
<1>3. t \in Nat /\ t # 0 /\ t - 1 = s BY <1>1
<1>4. EndsPart(s) <=> t \in 1 .. total_data_sectors - 1
    /\ index_table[t].position < index_table[t - 1].position
  BY <1>3 DEF EndsPart, PartBoundaries
<1>5. t \in 1 .. total_data_sectors - 1 <=> t < total_data_sectors BY <1>1, <1>3
<1> HIDE DEF t
<1>6. ASSUME t \in 1 .. total_data_sectors - 1
      PROVE  index_table[t].position < index_table[t - 1].position
               <=> CutAfter(index_table, image, s)
  <2>1. image[t - 1] \in StoredLens BY <1>1, <1>3 DEF StoredSectors
  <2>2. index_table[t].position < index_table[t - 1].position
      <=> CutAfter(index_table, image, t - 1)
    BY <1>1, <1>2, <1>6, <2>1, NextFacts
  <2> QED BY <1>3, <2>2
<1> QED BY <1>4, <1>5, <1>6 DEF t

\* A sector in step is answered if the index gives it a length that covers
\* what is stored.
LEMMA ReadsStored ==
  ASSUME IInv, IsDone, pc = "idle", NEW s \in Sectors, InStep(s), NEW length \in Nat,
         StoredLength(s) = length, image[s] <= length,
         PosAt(index_table, s) + length <= PartSize(LocatePart(s)),
         image[s] = SectorSize => length = SectorSize
  PROVE  ReadSector(s) = "bytes"
<1>1. /\ sizing_done /\ TypeOK /\ DoneOK /\ SectorsFound = total_data_sectors
      /\ total_data_sectors \in Nat \ {0}
      /\ landed[s] = [name |-> SplitName(PartAt(index_table, s)),
                      offset |-> PosAt(index_table, s)]
  BY FinishedFacts
<1>2. LocatePart(s) = PartAt(index_table, s) BY <1>1, LocateFacts
<1>3. StoredOffset(s) = PosAt(index_table, s) BY DEF StoredOffset, PosAt
<1>4. Holds(s, LocatePart(s), StoredOffset(s)) BY <1>1, <1>2, <1>3 DEF Holds
<1>5. RangeFits(StoredOffset(s), StoredLength(s), PartSize(LocatePart(s))) BY <1>3 DEF RangeFits
<1>6. ~(s >= SectorsFound) BY <1>1 DEF Sectors
<1>7. /\ image[s] \in Nat /\ image[s] <= SectorSize /\ SectorSize \in Nat
      /\ index_table[s].compressed = (image[s] < SectorSize)
  <2>1. image[s] \in Nat /\ image[s] <= SectorSize BY <1>1, IndexFacts
  <2>2. IndexOK(index_table, image, StartPosition, total_data_sectors) BY <1>1, DoneFacts
  <2>3. index_table[s].compressed = IsCompressed(image[s]) BY <2>2 DEF IndexOK, Sectors
  <2> QED BY <2>1, <2>3, CisoAssumption DEF IsCompressed
<1>8. CASE image[s] < SectorSize
  <2>1. index_table[s].compressed BY <1>7, <1>8
  <2> QED BY <1>4, <1>5, <1>6, <2>1 DEF ReadSector, Decoded
<1>9. CASE image[s] = SectorSize
  <2>1. ~(image[s] < SectorSize) /\ length = SectorSize BY <1>7, <1>9
  <2>2. ~index_table[s].compressed BY <1>7, <2>1
  <2> QED BY <1>4, <1>5, <1>6, <2>1, <2>2 DEF ReadSector
<1> QED BY <1>7, <1>8, <1>9

\* A sector that another follows in its part reaches to that one.
LEMMA ReadsMiddle ==
  ASSUME IInv, IsDone, pc = "idle", NEW s \in Sectors, s + 1 < total_data_sectors,
         InStep(s), ~EndsPart(s)
  PROVE  ReadSector(s) = "bytes"
<1> DEFINE pos == PosAt(index_table, s)
           end == EndAt(index_table, image, s)
           next == PosAt(index_table, s + 1)
           size == PartSize(LocatePart(s))
           length == next - pos
           w == WordValues
<1>1. /\ sizing_done /\ TypeOK /\ DoneOK
      /\ total_data_sectors \in Nat \ {0}
  BY FinishedFacts
<1>2. ~CutAfter(index_table, image, s) BY <1>1, EndsPartFacts
<1>3. /\ pos \in Nat /\ Aligned(pos) /\ end \in Nat
      /\ image[s] \in Nat /\ 0 < image[s] /\ image[s] <= SectorSize
      /\ end = pos + image[s]
      /\ PartAt(index_table, s) \in 0 .. TotalParts - 1
      /\ next = Rounded(end)
      /\ PartAt(index_table, s + 1) = PartAt(index_table, s)
  BY <1>1, <1>2, IndexFacts
<1>4. s + 1 \in Sectors /\ InStep(s + 1)
  <2>1. s \in Nat /\ s + 1 \in Sectors BY <1>1 DEF Sectors
  <2>2. s + 1 \in 1 .. total_data_sectors - 1 BY <1>1, <2>1
  <2>3. ~(index_table[s + 1].position < index_table[(s + 1) - 1].position)
    BY <2>2 DEF EndsPart, PartBoundaries
  <2>4. \A b \in 1 .. s + 1 : b \in 1 .. s \/ b = s + 1 BY <2>1
  <2> QED BY <2>1, <2>3, <2>4 DEF InStep
<1>5. next <= size /\ size \in Nat
  <2>1. LocatePart(s) = PartAt(index_table, s) BY <1>1, LocateFacts
  <2>2. size = PartSize(PartAt(index_table, s + 1)) BY <1>3, <2>1
  <2>3. EndAt(index_table, image, s + 1) <= size /\ size \in Nat BY <1>4, <2>2, FinishedFacts
  <2>4. /\ EndAt(index_table, image, s + 1) = next + image[s + 1]
        /\ image[s + 1] \in Nat /\ next \in Nat
    BY <1>1, <1>4, IndexFacts
  <2> HIDE DEF size, next
  <2> QED BY <2>2, <2>3, <2>4
<1>6. /\ SectorSize \in Nat /\ SplitPoint \in Nat /\ AlignMult \in Nat \ {0}
      /\ PaddingModulus \in Nat \ {0} /\ w \in Nat \ {0}
      /\ SplitPoint + SectorSize + AlignMult + PaddingModulus <= w
  BY CisoAssumption, WordAssumption
<1>7. /\ end <= next /\ next < end + AlignMult /\ next \in Nat BY <1>3, RoundedFacts
<1>8. index_table[s].position \in Nat /\ index_table[s + 1].position \in Nat
  <2>1. IndexOK(index_table, image, StartPosition, total_data_sectors) BY <1>1, DoneFacts
  <2> QED BY <1>4, <2>1 DEF IndexOK, Sectors
<1>9. length \in Nat /\ length < w /\ image[s] <= length /\ pos + length = next
  <2> HIDE DEF pos, next, end, w
  <2> QED BY <1>3, <1>6, <1>7
<1>10. StoredLength(s) = length
  <2> DEFINE a == index_table[s + 1].position
             b == index_table[s].position
  <2>1. a \in Nat /\ b \in Nat /\ a * AlignMult = next /\ b * AlignMult = pos BY <1>8 DEF PosAt
  <2>2. StoredLength(s) = ((a - b) * AlignMult) % w BY DEF StoredLength
  <2> HIDE DEF a, b, pos, next
  <2>3. (a - b) * AlignMult = a * AlignMult - b * AlignMult BY <1>6, <2>1
  <2>4. (a - b) * AlignMult = length BY <2>1, <2>3
  <2>5. length % w = length
    <3> HIDE DEF length
    <3> QED BY <1>6, <1>9, SmallMod
  <2> QED BY <2>2, <2>4, <2>5
<1>11. image[s] = SectorSize => length = SectorSize
  <2> SUFFICES ASSUME image[s] = SectorSize PROVE length = SectorSize OBVIOUS
  <2>1. Aligned(SectorSize) BY CisoAssumption DEF Aligned
  <2>2. Aligned(end) BY <1>3, <1>6, <2>1, AlignedSum
  <2>3. next = end BY <1>3, <2>2, RoundedFacts
  <2> HIDE DEF pos, next, end
  <2> QED BY <1>3, <1>6, <2>3
<1>12. PosAt(index_table, s) + length <= PartSize(LocatePart(s)) BY <1>5, <1>9
<1> HIDE DEF length
<1> QED BY <1>9, <1>10, <1>11, <1>12, ReadsStored

\* The last sector of the image, if its end is aligned, reaches to the last
\* position.
LEMMA ReadsLast ==
  ASSUME IInv, IsDone, pc = "idle", NEW s \in Sectors, s + 1 = total_data_sectors,
         InStep(s), ~CutShort(s)
  PROVE  ReadSector(s) = "bytes"
<1> DEFINE pos == PosAt(index_table, s)
           end == EndAt(index_table, image, s)
           size == PartSize(LocatePart(s))
           w == WordValues
<1>1. /\ sizing_done /\ TypeOK /\ DoneOK
      /\ total_data_sectors \in Nat \ {0} /\ total_data_sectors - 1 = s
  BY FinishedFacts DEF Sectors
<1>2. /\ pos \in Nat /\ Aligned(pos) /\ end \in Nat
      /\ image[s] \in Nat /\ 0 < image[s] /\ image[s] <= SectorSize
      /\ end = pos + image[s]
  BY <1>1, IndexFacts
<1>3. end <= size /\ size \in Nat BY <1>1, FinishedFacts, LocateFacts
<1>4. /\ SectorSize \in Nat /\ SplitPoint \in Nat /\ AlignMult \in Nat \ {0}
      /\ PaddingModulus \in Nat \ {0} /\ w \in Nat \ {0}
      /\ SplitPoint + SectorSize + AlignMult + PaddingModulus <= w
  BY CisoAssumption, WordAssumption
<1>5. (end \div AlignMult) * AlignMult = end
  <2>1. Aligned(image[s]) BY DEF Aligned, CutShort
  <2>2. Aligned(end) BY <1>2, <1>4, <2>1, AlignedSum
  <2> QED BY <1>2, <1>4, <2>2, ExactMultiple DEF Aligned
<1>6. StoredLength(s) = image[s]
  <2> DEFINE a == index_table[s + 1].position
             b == index_table[s].position
  <2>1. a = end \div AlignMult BY <1>1 DEF DoneOK
  <2>2. b \in Nat
    <3>1. IndexOK(index_table, image, StartPosition, total_data_sectors) BY <1>1, DoneFacts
    <3> QED BY <3>1 DEF IndexOK, Sectors
  <2>3. a \in Nat /\ a * AlignMult = end /\ b * AlignMult = pos
    <3>1. end \div AlignMult \in Nat BY <1>2, <1>4
    <3> QED BY <1>5, <2>1, <3>1 DEF PosAt
  <2>4. StoredLength(s) = ((a - b) * AlignMult) % w BY DEF StoredLength
  <2> HIDE DEF a, b, pos, end
  <2>5. (a - b) * AlignMult = a * AlignMult - b * AlignMult BY <1>4, <2>2, <2>3
  <2>6. (a - b) * AlignMult = image[s] BY <1>2, <2>3, <2>5
  <2>7. image[s] < w BY <1>2, <1>4
  <2> HIDE DEF w
  <2>8. image[s] % w = image[s] BY <1>2, <1>4, <2>7, SmallMod
  <2> QED BY <2>4, <2>6, <2>8
<1>7. PosAt(index_table, s) + image[s] <= PartSize(LocatePart(s)) BY <1>2, <1>3
<1>8. image[s] <= image[s] BY <1>2
<1> QED BY <1>2, <1>6, <1>7, <1>8, ReadsStored

\* A readable sector is answered with its bytes.
LEMMA ReadsReadable ==
  ASSUME IInv, IsDone, pc = "idle", NEW s \in Sectors, Readable(s)
  PROVE  ReadSector(s) = "bytes"
<1>1. total_data_sectors \in Nat \ {0} /\ s \in Nat /\ s < total_data_sectors BY FinishedFacts DEF Sectors
<1>2. s + 1 < total_data_sectors \/ s + 1 = total_data_sectors BY <1>1
<1> QED BY <1>2, ReadsMiddle, ReadsLast DEF Readable

\* The sectors a read of `length` bytes at an offset touches.
LEMMA TouchedSectors ==
  ASSUME NEW s \in Nat, NEW d \in 0 .. SectorSize - 1, NEW e \in 0 .. SectorSize - 1
  PROVE  /\ (s * SectorSize + d) \div SectorSize = s
         /\ ((s + 1) * SectorSize + e) \div SectorSize = s + 1
<1>1. SectorSize \in Nat \ {0} BY CisoAssumption
<1>2. ASSUME NEW t \in Nat, NEW f \in 0 .. SectorSize - 1
      PROVE  (t * SectorSize + f) \div SectorSize = t
  <2> DEFINE p == t * SectorSize
             x == p + f
  <2>1. p \in Nat BY <1>1
  <2>2. t * SectorSize = p OBVIOUS
  <2> HIDE DEF p
  <2>3. x \in Nat /\ p <= x /\ x < p + SectorSize BY <1>1, <2>1
  <2> HIDE DEF x
  <2>4. x \div SectorSize = t BY <1>1, <2>2, <2>3, DivUnique
  <2> QED BY <2>2, <2>4 DEF x
<1>3. s + 1 \in Nat OBVIOUS
<1> QED BY <1>2, <1>3

\* The finished files of any image open, with every sector in the index, and
\* every readable sector is read back, alone and in a range that crosses into
\* the next; a range that leaves the image is refused.
THEOREM ReaderFinds == Spec => []ReaderFindsSectors
<1>1. ASSUME IInv PROVE ReaderFindsSectors
  <2> SUFFICES ASSUME pc = "idle", IsDone
      PROVE  /\ Opens
             /\ SectorsFound = total_data_sectors
             /\ \A s \in Sectors : Readable(s) => ReadSector(s) = "bytes"
             /\ \A s \in Sectors : s + 1 \in Sectors /\ Readable(s) /\ Readable(s + 1) =>
                    ReadBytes(s * SectorSize + 1, SectorSize) = "bytes"
             /\ ReadBytes(total_data_sectors * SectorSize - 1, 2) = "error"
    BY DEF ReaderFindsSectors
  <2>1. /\ Opens /\ SectorsFound = total_data_sectors
        /\ sizing_done /\ total_data_sectors \in Nat \ {0}
    BY <1>1, FinishedFacts
  <2>2. \A s \in Sectors : Readable(s) => ReadSector(s) = "bytes" BY <1>1, ReadsReadable
  <2>3. SectorSize \in Nat /\ SectorSize > 1 BY CisoAssumption
  <2>4. ASSUME NEW s \in Sectors, s + 1 \in Sectors, Readable(s), Readable(s + 1)
        PROVE  ReadBytes(s * SectorSize + 1, SectorSize) = "bytes"
    <3> DEFINE offset == s * SectorSize + 1
               answers == {ReadSector(s), ReadSector(s + 1)}
    <3>1. s \in Nat /\ s + 1 < total_data_sectors BY <2>1, <2>4 DEF Sectors
    <3>2. /\ offset \div SectorSize = s
          /\ (offset + SectorSize - 1) \div SectorSize = s + 1
      <4>1. 0 \in 0 .. SectorSize - 1 /\ 1 \in 0 .. SectorSize - 1 BY <2>3
      <4>2. offset \div SectorSize = s /\ ((s + 1) * SectorSize + 0) \div SectorSize = s + 1
        BY <3>1, <4>1, TouchedSectors
      <4>3. offset + SectorSize - 1 = (s + 1) * SectorSize + 0
        <5>1. (s + 1) * SectorSize = s * SectorSize + SectorSize /\ s * SectorSize \in Nat BY <2>3, <3>1
        <5> QED BY <2>3, <5>1
      <4> QED BY <4>2, <4>3
    <3> HIDE DEF offset
    <3>3. {ReadSector(t) : t \in (offset \div SectorSize)
        .. ((offset + SectorSize - 1) \div SectorSize)} = answers
      <4>1. \A t : t \in s .. s + 1 <=> t = s \/ t = s + 1 BY <3>1
      <4> QED BY <3>2, <4>1
    <3>4. ReadBytes(offset, SectorSize) = (IF "error" \in answers THEN "error"
         ELSE IF "garbled" \in answers THEN "garbled" ELSE "bytes")
      BY <3>3 DEF ReadBytes
    <3>5. answers = {"bytes"} BY <2>2, <2>4
    <3> QED BY <3>4, <3>5 DEF offset
  <2>5. ReadBytes(total_data_sectors * SectorSize - 1, 2) = "error"
    <3> DEFINE s == total_data_sectors - 1
               offset == total_data_sectors * SectorSize - 1
    <3>1. s \in Nat /\ s + 1 = total_data_sectors BY <2>1
    <3>2. /\ offset \div SectorSize = s
          /\ (offset + 2 - 1) \div SectorSize = s + 1
      <4>1. 0 \in 0 .. SectorSize - 1 /\ SectorSize - 1 \in 0 .. SectorSize - 1 BY <2>3
      <4> HIDE DEF s
      <4>2. /\ (s * SectorSize + (SectorSize - 1)) \div SectorSize = s
            /\ ((s + 1) * SectorSize + 0) \div SectorSize = s + 1
        BY <3>1, <4>1, TouchedSectors
      <4>3. (s + 1) * SectorSize = s * SectorSize + SectorSize /\ s * SectorSize \in Nat BY <2>3, <3>1
      <4>4. offset = s * SectorSize + (SectorSize - 1)
            /\ offset + 2 - 1 = (s + 1) * SectorSize + 0
        BY <2>3, <3>1, <4>3
      <4> QED BY <4>2, <4>4
    <3>3. ReadSector(total_data_sectors) = "error"
      <4>1. total_data_sectors >= SectorsFound BY <2>1
      <4> QED BY <4>1 DEF ReadSector
    <3> HIDE DEF offset
    <3>4. total_data_sectors \in (offset \div SectorSize) .. ((offset + 2 - 1) \div SectorSize)
      BY <3>1, <3>2
    <3>5. "error" \in {ReadSector(t) : t \in (offset \div SectorSize)
        .. ((offset + 2 - 1) \div SectorSize)}
      BY <3>3, <3>4
    <3>6. ReadBytes(offset, 2) = "error" BY <3>5 DEF ReadBytes
    <3> QED BY <3>6 DEF offset
  <2> QED BY <2>1, <2>2, <2>4, <2>5
<1> QED BY Invariant, <1>1, PTL
=============================================================================
