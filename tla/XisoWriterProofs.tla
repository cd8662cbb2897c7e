-------------------------- MODULE XisoWriterProofs --------------------------
(***************************************************************************)
(* Proofs about Scrub and XisoWriter: for every disc and every value of    *)
(* the sizes, a plan keeps each sector that a file or a directory table    *)
(* needs and, of the others, the security sectors alone; every sector      *)
(* lands once, where its number says; and the session is a PartStream.     *)
(*                                                                         *)
(* The inductive invariant remembers where a plan comes from (PlanOK), how *)
(* far the search for the security sectors has come (SearchOK), and how    *)
(* many sectors each file holds (WrittenOK).  The geometry, that scan()    *)
(* marks exactly the sectors with a needed byte, is proved apart.          *)
(***************************************************************************)
EXTENDS XisoWriter, CommonLemmas, SequenceTheorems

-----------------------------------------------------------------------------
(* The inductive invariant                                                   *)

Streams == mode \in {"trim", "zero", "full"}

\* Before open() and after a failed one there is no session.
NothingOpened ==
  /\ total_sectors = 0
  /\ zero_sectors = {}
  /\ current_sector = 0
  /\ current_entry_name = 0
  /\ output_manifest = <<>>

\* A run that a partial plan may protect: none, or one of the right length
\* without a needed sector; at offset 0 it is the first such run.
ProtectedOK(security) ==
  /\ security # {} => \E first \in 0 .. LastScanned :
         /\ security = first .. first + SecurityRunLen - 1
         /\ first + SecurityRunLen - 1 <= LastScanned
         /\ security \cap UsedSectors = {}
  /\ disc.root_offset = 0 => security = SecuritySectors

\* How the plan was made.
PlanOK ==
  /\ disc \in Discs
  /\ pc \in {"opening", "scanning"} => NothingOpened
  /\ pc = "scanning" => Partial /\ ~ScanFails /\ ~X360 /\ HasRedumpSize
  /\ pc = "planned" => ~Streams /\ total_sectors > 0
  /\ pc = "idle" => Streams /\ total_sectors > 0
  /\ ~Streams => current_sector = 0 /\ current_entry_name = 0 /\ output_manifest = <<>>
  /\ ~Streams /\ total_sectors > 0 =>
       \/ mode = "none" /\ total_sectors = FullSectors /\ zero_sectors = {}
       \/ /\ Partial /\ ~ScanFails
          /\ \E security \in SUBSET (0 .. LastScanned) :
               /\ total_sectors = PartialTotal(security)
               /\ zero_sectors = PartialMask(security)
               /\ ~X360 => ProtectedOK(security)
               /\ X360 => security = {}
  /\ Streams /\ total_sectors = 0 => NothingOpened
  /\ Streams /\ total_sectors > 0 =>
       /\ \/ mode = "trim" /\ ~ScanFails /\ total_sectors = TrimTotal /\ zero_sectors = {}
          \/ mode = "zero" /\ ~ScanFails /\ total_sectors = FullSectors
               /\ zero_sectors = ZeroMask
          \/ mode = "full" /\ total_sectors \in 1 .. MaxRebuilt /\ zero_sectors = {}
       /\ output_manifest = IF split THEN BuildOutputManifest(total_sectors) ELSE <<>>
       /\ mode # "full" => current_sector <= disc.sectors

\* No run of the right length has been missed so far, and the current one
\* goes back to its first candidate.
SearchOK ==
  /\ pc = "opening" => sector_index = 0 /\ run_start = NoRun
  /\ pc = "scanning" =>
       /\ run_start # NoRun =>
            /\ run_start < sector_index
            /\ \A s \in run_start .. sector_index - 1 : s \notin UsedSectors
       /\ disc.root_offset = 0 =>
            /\ IF run_start = NoRun THEN sector_index > 0 => ~Spare(sector_index - 1)
               ELSE /\ \A s \in run_start .. sector_index - 1 : Spare(s)
                    /\ run_start > 0 => ~Spare(run_start - 1)
            /\ \A first \in SecurityRuns : sector_index <= first + SecurityRunLen

\* Sectors a file holds so far.
Filled(name) ==
  IF split THEN IF current_sector <= name * SplitSectors THEN 0
       ELSE IF current_sector <= (name + 1) * SplitSectors
       THEN current_sector - name * SplitSectors ELSE SplitSectors
  ELSE IF name = 0 THEN current_sector ELSE 0

WrittenOK == \A name \in Names : written[name] = Filled(name) * SectorSize

IInv == TypeOK /\ PlanOK /\ SearchOK /\ WrittenOK /\ SectorsLandInPlace

-----------------------------------------------------------------------------
(* Sectors and bytes                                                         *)

\* The number of sizes of b that hold a.
LEMMA CeilDivFacts ==
  ASSUME NEW a \in Nat, NEW b \in Nat \ {0}
  PROVE  /\ CeilDiv(a, b) \in Nat
         /\ a <= CeilDiv(a, b) * b
         /\ CeilDiv(a, b) * b < a + b
<1> DEFINE q == CeilDiv(a, b)
<1>1. a + b - 1 \in Nat OBVIOUS
<1>2. q \in Nat /\ q * b <= a + b - 1 /\ a + b - 1 < q * b + b BY <1>1, DivMod, DivBounds DEF CeilDiv
<1>3. q * b \in Nat BY <1>2
<1> HIDE DEF q
<1>4. a <= q * b /\ q * b < a + b BY <1>2, <1>3
<1> QED BY <1>2, <1>4 DEF q

\* It is the least such number.
LEMMA CeilDivLeast ==
  ASSUME NEW a \in Nat, NEW b \in Nat \ {0}, NEW n \in Nat, a <= n * b
  PROVE  CeilDiv(a, b) <= n
<1> DEFINE q == CeilDiv(a, b)
<1>1. q \in Nat /\ q * b < a + b BY CeilDivFacts
<1> HIDE DEF q
<1> SUFFICES ASSUME n + 1 <= q PROVE FALSE BY <1>1 DEF q
<1>2. (n + 1) * b <= q * b BY <1>1, MultMonotonic
<1>3. (n + 1) * b = n * b + b /\ n * b \in Nat /\ q * b \in Nat BY <1>1
<1> QED BY <1>1, <1>2, <1>3

\* A multiple needs no rounding.
LEMMA CeilDivExact ==
  ASSUME NEW n \in Nat, NEW b \in Nat \ {0}
  PROVE  CeilDiv(n * b, b) = n
<1> DEFINE x == n * b + b - 1
<1>1. n * b \in Nat OBVIOUS
<1>2. x \in Nat /\ n * b <= x /\ x < n * b + b BY <1>1
<1>3. x \div b = n
  <2> HIDE DEF x
  <2> QED BY <1>2, DivUnique
<1> QED BY <1>3 DEF CeilDiv

\* A last byte gives the number of sectors.
LEMMA CeilDivLast ==
  ASSUME NEW a \in Nat \ {0}, NEW b \in Nat \ {0}
  PROVE  CeilDiv(a, b) = ((a - 1) \div b) + 1
<1> DEFINE n == (a - 1) \div b
           x == a + b - 1
<1>1. a - 1 \in Nat OBVIOUS
<1>2. n \in Nat /\ n * b <= a - 1 /\ a - 1 < n * b + b BY <1>1, DivMod, DivBounds
<1> HIDE DEF n
<1>3. (n + 1) * b = n * b + b /\ n * b \in Nat /\ n + 1 \in Nat BY <1>2
<1>4. x \in Nat /\ (n + 1) * b <= x /\ x < (n + 1) * b + b BY <1>2, <1>3
<1> HIDE DEF x
<1>5. x \div b = n + 1 BY <1>3, <1>4, DivUnique
<1> QED BY <1>5 DEF CeilDiv, n, x

\* More bytes need no fewer sectors.
LEMMA CeilDivMonotonic ==
  ASSUME NEW a \in Nat, NEW c \in Nat, NEW b \in Nat \ {0}, a <= c
  PROVE  CeilDiv(a, b) <= CeilDiv(c, b)
<1> DEFINE q == CeilDiv(c, b)
<1>1. q \in Nat /\ c <= q * b BY CeilDivFacts
<1> HIDE DEF q
<1>2. a <= q * b
  <2>1. q * b \in Nat BY <1>1
  <2> QED BY <1>1, <2>1
<1>3. CeilDiv(a, b) <= q BY <1>1, <1>2, CeilDivLeast
<1> QED BY <1>3 DEF q

-----------------------------------------------------------------------------
(* scan()                                                                    *)

Claims == Files \cup DirectoryTables

\* What a disc is.
LEMMA DiscFacts ==
  ASSUME disc \in Discs
  PROVE  /\ disc.sectors \in DiscSizes /\ disc.sectors \in Nat \ {0}
         /\ disc.root_offset \in Nat
         /\ \E o \in Nat : disc.root_offset = o * SectorSize
         /\ disc.root.sector \in Nat /\ disc.root.sector > VolumeDescriptor
         /\ disc.root.size \in Nat \ {0}
         /\ IsFiniteSet(disc.entries) /\ disc.entries \subseteq Entries
         /\ \A e \in disc.entries : /\ e.sector \in Nat /\ e.size \in Nat
                                    /\ e.is_directory \in BOOLEAN
         /\ SectorSize \in Nat \ {0} /\ VolumeDescriptor \in Nat
<1>0. SectorSize \in Nat \ {0} /\ VolumeDescriptor \in Nat BY ScrubAssumption
<1>1. /\ disc.sectors \in DiscSizes /\ disc.root \in Roots
      /\ disc.entries \in UNION {kSubset(k, Entries) : k \in 0 .. MaxEntries}
      /\ disc.root_offset \in {o * SectorSize : o \in RootOffsets}
  BY DEF Discs
<1>2. disc.entries \subseteq Entries BY <1>1 DEF kSubset
<1>3. IsFiniteSet(disc.entries) BY <1>2, FS_Subset, ScrubAssumption
<1>4. \E o \in Nat : disc.root_offset = o * SectorSize BY <1>1, ScrubAssumption
<1>5. disc.root_offset \in Nat BY <1>0, <1>4
<1>6. /\ disc.sectors \in Nat \ {0}
      /\ disc.root \in [sector : Nat, size : Nat \ {0}]
      /\ disc.root.sector > VolumeDescriptor
  BY <1>1, ScrubAssumption
<1>7. \A e \in disc.entries : e \in [sector : Nat, size : Nat, is_directory : BOOLEAN]
  BY <1>2, ScrubAssumption
<1> QED BY <1>0, <1>1, <1>2, <1>3, <1>4, <1>5, <1>6, <1>7

\* The claims are those of the entries and the root table.
LEMMA ClaimFacts ==
  ASSUME disc \in Discs
  PROVE  /\ Claims = disc.entries \cup {disc.root}
         /\ IsFiniteSet(Claims)
         /\ \A r \in Claims : /\ r.sector \in Nat /\ r.size \in Nat
                              /\ Start(r) - disc.root_offset = r.sector * SectorSize
                              /\ End(r) - disc.root_offset = r.sector * SectorSize + r.size
                              /\ r.sector * SectorSize \in Nat
                              /\ End(r) \in Nat
                              /\ End(r) - disc.root_offset \in Nat
<1>1. Claims = disc.entries \cup {disc.root} BY DiscFacts DEF Claims, Files, DirectoryTables
<1>2. IsFiniteSet(Claims) BY <1>1, DiscFacts, FS_Singleton, FS_Union
<1>3. ASSUME NEW r \in Claims
      PROVE  /\ r.sector \in Nat /\ r.size \in Nat
             /\ Start(r) - disc.root_offset = r.sector * SectorSize
             /\ End(r) - disc.root_offset = r.sector * SectorSize + r.size
             /\ r.sector * SectorSize \in Nat
             /\ End(r) \in Nat
             /\ End(r) - disc.root_offset \in Nat
  <2>1. r.sector \in Nat /\ r.size \in Nat BY <1>1, DiscFacts
  <2>2. r.sector * SectorSize \in Nat BY <2>1, DiscFacts
  <2> DEFINE x == r.sector * SectorSize
  <2> HIDE DEF x
  <2>3. /\ (disc.root_offset + x) - disc.root_offset = x
        /\ ((disc.root_offset + x) + r.size) - disc.root_offset = x + r.size
        /\ (disc.root_offset + x) + r.size \in Nat
        /\ x + r.size \in Nat
    BY <2>1, <2>2, DiscFacts DEF x
  <2> QED BY <2>1, <2>2, <2>3 DEF Start, End, x
<1> QED BY <1>1, <1>2, <1>3

\* The image is as long as its sectors say.
LEMMA FullIsWhole ==
  ASSUME disc \in Discs
  PROVE  FullSectors = disc.sectors
<1> DEFINE n == disc.sectors * SectorSize
<1>1. n \in Nat /\ disc.root_offset \in Nat BY DiscFacts
<1>2. CeilDiv(n, SectorSize) = disc.sectors BY DiscFacts, CeilDivExact
<1> HIDE DEF n
<1>3. (disc.root_offset + n) - disc.root_offset = n BY <1>1
<1> QED BY <1>2, <1>3 DEF FullSectors, FileSize, n

\* Bytes first .. first + size - 1 touch sector s.
Touches(r, s) ==
  \E byte \in r.sector * SectorSize .. r.sector * SectorSize + r.size - 1 :
    byte \div SectorSize = s

\* mark_region() marks exactly the sectors with a byte of the region.
LEMMA MarkRegionExact ==
  ASSUME disc \in Discs, NEW r \in Claims, NEW s
  PROVE  s \in MarkRegion(r) <=> Touches(r, s)
<1> DEFINE x == r.sector * SectorSize
<1>0. SectorSize \in Nat \ {0} /\ r.sector \in Nat /\ r.size \in Nat /\ x \in Nat BY DiscFacts, ClaimFacts
<1>1. MarkRegion(r) = (x \div SectorSize) .. CeilDiv(x + r.size, SectorSize) - 1
  BY ClaimFacts DEF MarkRegion
<1>2. x \div SectorSize = r.sector BY <1>0, DivUnique
<1>3. CASE r.size = 0
  <2>1. CeilDiv(x, SectorSize) = r.sector BY <1>0, CeilDivExact
  <2>2. x + r.size = x BY <1>0, <1>3
  <2>3. MarkRegion(r) = {} BY <1>0, <1>1, <1>2, <2>1, <2>2
  <2>4. r.sector * SectorSize .. r.sector * SectorSize + r.size - 1 = {} BY <1>0, <1>3
  <2> QED BY <2>3, <2>4 DEF Touches
<1>4. CASE r.size # 0
  <2> DEFINE last == x + r.size - 1
             q == last \div SectorSize
  <2>1. last \in Nat /\ x <= last /\ x + r.size \in Nat \ {0} /\ (x + r.size) - 1 = last BY <1>0, <1>4
  <2>2. CeilDiv(x + r.size, SectorSize) = q + 1 BY <1>0, <2>1, CeilDivLast
  <2>3. q \in Nat /\ q * SectorSize <= last BY <1>0, <2>1, DivMod, DivBounds
  <2>4. MarkRegion(r) = r.sector .. q BY <1>1, <1>2, <2>2, <2>3
  <2> HIDE DEF last, q
  <2>5. ASSUME s \in r.sector .. q
        PROVE  \E byte \in x .. last : byte \div SectorSize = s
    <3> DEFINE y == s * SectorSize
    <3>1. s \in Nat /\ r.sector <= s /\ s <= q BY <1>0, <2>3, <2>5
    <3>2. x <= y /\ y <= q * SectorSize BY <1>0, <2>3, <3>1, MultMonotonic
    <3>3. y \in Nat /\ q * SectorSize \in Nat BY <1>0, <2>3, <3>1
    <3>4. y \div SectorSize = s BY <1>0, <3>1, <3>3, DivUnique
    <3>5. y \in x .. last
      <4> HIDE DEF x, y
      <4> QED BY <1>0, <2>1, <2>3, <3>2, <3>3
    <3> QED BY <3>4, <3>5
  <2>6. ASSUME NEW byte \in x .. last, byte \div SectorSize = s
        PROVE  s \in r.sector .. q
    <3>1. byte \in Nat /\ x <= byte /\ byte <= last BY <1>0, <2>1
    <3>2. x \div SectorSize <= byte \div SectorSize BY <1>0, <3>1, DivMonotonic
    <3>3. byte \div SectorSize <= q BY <1>0, <2>1, <3>1, DivMonotonic DEF q
    <3>4. byte \div SectorSize \in Nat BY <1>0, <3>1, DivMod
    <3> QED BY <1>0, <1>2, <2>3, <2>6, <3>2, <3>3, <3>4
  <2>7. Touches(r, s) <=> \E byte \in x .. last : byte \div SectorSize = s BY DEF Touches, last
  <2> QED BY <2>4, <2>5, <2>6, <2>7
<1> QED BY <1>3, <1>4

\* scan() marks a sector iff a conversion needs it.
LEMMA UsedIsNeeded ==
  ASSUME disc \in Discs, NEW s
  PROVE  s \in UsedSectors <=> Needed(s)
<1>1. s \in UsedSectors <=> s = VolumeDescriptor \/ \E r \in Claims : s \in MarkRegion(r)
  BY DEF UsedSectors, Claims
<1>2. Needed(s) <=> s = VolumeDescriptor \/ \E r \in Claims : Touches(r, s)
  BY ClaimFacts DEF Needed, Touches
<1> QED BY <1>1, <1>2, MarkRegionExact

\* The marked sectors are finitely many.
LEMMA UsedFinite ==
  ASSUME disc \in Discs
  PROVE  /\ UsedSectors \subseteq Nat
         /\ IsFiniteSet(UsedSectors)
         /\ VolumeDescriptor \in UsedSectors
<1> DEFINE Regions == {MarkRegion(r) : r \in Claims}
           f == [r \in Claims |-> MarkRegion(r)]
<1>1. ASSUME NEW r \in Claims
      PROVE  MarkRegion(r) \subseteq Nat /\ IsFiniteSet(MarkRegion(r))
  <2> DEFINE a == (Start(r) - disc.root_offset) \div SectorSize
             b == CeilDiv(End(r) - disc.root_offset, SectorSize) - 1
  <2>1. a \in Nat BY ClaimFacts, DiscFacts, DivMod
  <2>2. b \in Int
    <3>1. End(r) - disc.root_offset \in Nat BY ClaimFacts
    <3>2. SectorSize \in Nat \ {0} BY DiscFacts
    <3>3. CeilDiv(End(r) - disc.root_offset, SectorSize) \in Nat BY <3>1, <3>2, CeilDivFacts
    <3> QED BY <3>3
  <2>3. MarkRegion(r) = a .. b BY DEF MarkRegion
  <2> HIDE DEF a, b
  <2> QED BY <2>1, <2>2, <2>3, FS_Interval
<1>2. f \in Surjection(Claims, Regions)
  <2>1. f \in [Claims -> Regions] /\ \A t \in Regions : \E r \in Claims : f[r] = t OBVIOUS
  <2> HIDE DEF f, Regions
  <2> QED BY <2>1, Fun_IsSurj
<1>3. IsFiniteSet(Regions)
  <2> HIDE DEF f, Regions
  <2> QED BY <1>2, ClaimFacts, FS_Surjection
<1>4. \A T \in Regions : IsFiniteSet(T) BY <1>1
<1>5. IsFiniteSet(UNION Regions)
  <2> HIDE DEF Regions
  <2> QED BY <1>3, <1>4, FS_UNION
<1>6. UNION Regions \subseteq Nat BY <1>1
<1>7. UsedSectors = {VolumeDescriptor} \cup UNION Regions BY DEF UsedSectors, Claims
<1> HIDE DEF Regions
<1>8. IsFiniteSet(UsedSectors) BY <1>5, <1>7, FS_Singleton, FS_Union
<1> QED BY <1>6, <1>7, <1>8, DiscFacts

\* The end of the last region.
LEMMA MaxEndFacts ==
  ASSUME disc \in Discs
  PROVE  /\ MaxEnd - disc.root_offset \in Nat
         /\ \A r \in Claims : End(r) <= MaxEnd
         /\ \E r \in Claims : MaxEnd = End(r)
<1> DEFINE Ends == {End(r) : r \in Claims}
           f == [r \in Claims |-> End(r)]
           All == {disc.root_offset} \cup Ends
<1>1. f \in Surjection(Claims, Ends)
  <2>1. f \in [Claims -> Ends] /\ \A t \in Ends : \E r \in Claims : f[r] = t OBVIOUS
  <2> HIDE DEF f, Ends
  <2> QED BY <2>1, Fun_IsSurj
<1>2. IsFiniteSet(Ends)
  <2> HIDE DEF f, Ends
  <2> QED BY <1>1, ClaimFacts, FS_Surjection
<1>3. Ends \subseteq Nat BY ClaimFacts
<1>4. IsFiniteSet(All) /\ All \in SUBSET Int /\ All # {}
  <2>1. disc.root_offset \in Nat /\ IsFiniteSet({disc.root_offset}) BY DiscFacts, FS_Singleton
  <2> HIDE DEF Ends
  <2>2. IsFiniteSet(All) BY <1>2, <2>1, FS_Union
  <2>3. \A x \in All : x \in Int
    <3>1. \A x \in Ends : x \in Int BY <1>3
    <3>2. disc.root_offset \in Int BY <2>1
    <3> QED BY <3>1, <3>2
  <2>4. disc.root_offset \in All OBVIOUS
  <2> HIDE DEF All
  <2> QED BY <2>2, <2>3, <2>4
<1>5. MaxEnd = Max(All) BY DEF MaxEnd, Claims
<1>6. MaxEnd \in All /\ \A x \in All : x <= MaxEnd
  <2> HIDE DEF All
  <2> QED BY <1>4, <1>5, FiniteMax
<1>7. \A r \in Claims : End(r) <= MaxEnd BY <1>6
<1>8. disc.root \in Claims BY ClaimFacts
<1>9. /\ End(disc.root) - disc.root_offset > 0 /\ End(disc.root) \in Nat
      /\ End(disc.root) <= MaxEnd /\ MaxEnd \in Nat /\ disc.root_offset \in Nat
  <2>1. /\ End(disc.root) - disc.root_offset = disc.root.sector * SectorSize + disc.root.size
        /\ disc.root.sector * SectorSize \in Nat
    BY <1>8, ClaimFacts
  <2>2. disc.root.size \in Nat \ {0} BY DiscFacts
  <2>3. End(disc.root) \in Nat /\ MaxEnd \in Nat BY <1>3, <1>6, <1>8, ClaimFacts, DiscFacts
  <2> QED BY <1>7, <1>8, <2>1, <2>2, <2>3, DiscFacts
<1>10. MaxEnd # disc.root_offset BY <1>9
<1>11. \E r \in Claims : MaxEnd = End(r) BY <1>6, <1>10
<1>12. MaxEnd - disc.root_offset \in Nat BY <1>9
<1> QED BY <1>7, <1>11, <1>12

\* A scan that succeeds has found every claim within the image.
LEMMA ScanFacts ==
  ASSUME disc \in Discs, ~ScanFails
  PROVE  \A s \in UsedSectors : s < disc.sectors
<1>1. UsedSectors \in SUBSET Int /\ IsFiniteSet(UsedSectors) /\ UsedSectors # {} BY UsedFinite
<1>2. Max(UsedSectors) \in UsedSectors /\ \A s \in UsedSectors : s <= Max(UsedSectors) BY <1>1, FiniteMax
<1>3. ~(Max(UsedSectors) >= disc.sectors) BY FullIsWhole DEF ScanFails
<1>4. Max(UsedSectors) \in Int /\ disc.sectors \in Int
  <2>1. Max(UsedSectors) \in Int BY <1>1, <1>2
  <2>2. disc.sectors \in Int BY DiscFacts
  <2> QED BY <2>1, <2>2
<1> QED BY <1>1, <1>2, <1>3, <1>4

\* The trimmed image ends behind every marked sector, and beyond the image
\* only on account of an entry of no bytes.
LEMMA TrimFacts ==
  ASSUME disc \in Discs, ~ScanFails
  PROVE  /\ TrimTotal \in Nat \ {0}
         /\ \A s \in UsedSectors : s < TrimTotal
         /\ TrimTotal > disc.sectors =>
              \E e \in disc.entries : e.size = 0 /\ e.sector = TrimTotal
<1>0. SectorSize \in Nat \ {0} BY DiscFacts
<1>1. TrimTotal \in Nat BY <1>0, MaxEndFacts, CeilDivFacts DEF TrimTotal
<1>A. \A r \in Claims : CeilDiv(End(r) - disc.root_offset, SectorSize) \in Nat
  BY <1>0, ClaimFacts, CeilDivFacts
<1>2. ASSUME NEW r \in Claims
      PROVE  CeilDiv(End(r) - disc.root_offset, SectorSize) <= TrimTotal
  <2>1. End(r) - disc.root_offset <= MaxEnd - disc.root_offset
    <3>1. End(r) \in Nat /\ disc.root_offset \in Nat /\ MaxEnd - disc.root_offset \in Nat
          /\ End(r) <= MaxEnd
      BY ClaimFacts, DiscFacts, MaxEndFacts
    <3>2. MaxEnd \in Nat BY MaxEndFacts, ClaimFacts
    <3> QED BY <3>1, <3>2
  <2>2. End(r) - disc.root_offset \in Nat BY ClaimFacts
  <2> QED BY <1>0, <2>1, <2>2, MaxEndFacts, CeilDivMonotonic DEF TrimTotal
<1>3. ASSUME NEW r \in Claims, NEW s \in MarkRegion(r)
      PROVE  s < TrimTotal
  <2>1. s \in Int /\ s <= CeilDiv(End(r) - disc.root_offset, SectorSize) - 1
    <3>1. (Start(r) - disc.root_offset) \div SectorSize \in Nat BY <1>0, ClaimFacts, DivMod
    <3> QED BY <3>1, <1>A DEF MarkRegion
  <2> QED BY <1>1, <1>2, <1>A, <2>1
<1>4. disc.root.sector \in MarkRegion(disc.root) /\ disc.root \in Claims
  <2>1. disc.root \in Claims BY ClaimFacts
  <2> DEFINE x == disc.root.sector * SectorSize
  <2>2. x \in Nat /\ x \div SectorSize = disc.root.sector
    <3>1. disc.root.sector \in Nat /\ x \in Nat BY <1>0, DiscFacts
    <3>2. disc.root.sector * SectorSize <= x /\ x < disc.root.sector * SectorSize + SectorSize
      BY <1>0, <3>1
    <3> QED BY <1>0, <3>1, <3>2, DivUnique
  <2>3. x \in x .. x + disc.root.size - 1
    <3> HIDE DEF x
    <3> QED BY <2>2, DiscFacts
  <2>4. Touches(disc.root, disc.root.sector) BY <2>2, <2>3 DEF Touches
  <2> QED BY <2>1, <2>4, MarkRegionExact
<1>5. disc.root.sector < TrimTotal /\ VolumeDescriptor < TrimTotal BY <1>1, <1>3, <1>4, DiscFacts
<1>6. \A s \in UsedSectors : s < TrimTotal BY <1>3, <1>5 DEF UsedSectors, Claims
<1>7. ASSUME TrimTotal > disc.sectors
      PROVE  \E e \in disc.entries : e.size = 0 /\ e.sector = TrimTotal
  <2>1. PICK r \in Claims : MaxEnd = End(r) BY MaxEndFacts
  <2> DEFINE x == r.sector * SectorSize
  <2>2. TrimTotal = CeilDiv(x + r.size, SectorSize) /\ x \in Nat
        /\ r.sector \in Nat /\ r.size \in Nat
    BY <2>1, ClaimFacts DEF TrimTotal
  <2>3. CASE r.size = 0
    <3>1. x + r.size = x BY <2>2, <2>3
    <3>2. TrimTotal = r.sector BY <1>0, <2>2, <3>1, CeilDivExact
    <3>3. r # disc.root BY <2>3, DiscFacts
    <3>4. r \in disc.entries BY <3>3, ClaimFacts
    <3> QED BY <1>7, <2>3, <3>2, <3>4
  <2>4. CASE r.size # 0
    <3> DEFINE last == x + r.size - 1
               q == last \div SectorSize
    <3>1. /\ last \in Nat /\ x + r.size \in Nat \ {0} /\ (x + r.size) - 1 = last
          /\ last \in x .. x + r.size - 1
      <4> HIDE DEF x
      <4> QED BY <2>2, <2>4
    <3>2. TrimTotal = q + 1 /\ q \in Nat BY <1>0, <2>2, <3>1, CeilDivLast, DivMod
    <3>3. Touches(r, q) BY <3>1 DEF Touches
    <3>4. q \in UsedSectors BY <3>3, MarkRegionExact DEF UsedSectors, Claims
    <3>5. q < disc.sectors BY <3>4, ScanFacts
    <3> HIDE DEF q, last
    <3> QED BY <1>7, <3>2, <3>5, DiscFacts
  <2> QED BY <2>3, <2>4
<1> QED BY <1>1, <1>5, <1>6, <1>7, DiscFacts

-----------------------------------------------------------------------------
(* Plans                                                                     *)

\* The last sector the search reads.
LEMMA LastFacts ==
  ASSUME disc \in Discs
  PROVE  /\ LastScanned \in Nat
         /\ LastScanned <= SecurityScanEnd
         /\ LastScanned < disc.sectors
<1>1. SecurityScanEnd \in Int /\ SecurityScanEnd >= 0 BY ScrubAssumption
<1>2. disc.sectors - 1 \in Nat /\ disc.sectors \in Nat
  <2>1. disc.sectors \in Nat \ {0} BY DiscFacts
  <2> QED BY <2>1
<1>3. LastScanned = Min({SecurityScanEnd, disc.sectors - 1}) BY FullIsWhole DEF LastScanned
<1>4. LastScanned = IF SecurityScanEnd <= disc.sectors - 1 THEN SecurityScanEnd
    ELSE disc.sectors - 1
  BY <1>1, <1>2, <1>3, MinPair
<1> QED BY <1>1, <1>2, <1>4

\* A partial plan reaches at least as far as the trimmed image and the run it
\* protects, and no further than either or the image.
LEMMA PartialFacts ==
  ASSUME disc \in Discs, ~ScanFails, NEW security \in SUBSET (0 .. LastScanned)
  PROVE  /\ PartialTotal(security) \in Nat \ {0}
         /\ TrimTotal <= PartialTotal(security)
         /\ \A s \in security : s < PartialTotal(security)
         /\ \/ PartialTotal(security) = TrimTotal
            \/ PartialTotal(security) <= disc.sectors
<1> DEFINE len == MaxEnd - disc.root_offset
           Bytes == {(s + 1) * SectorSize : s \in security}
           S == {len} \cup Bytes
           whole == disc.sectors * SectorSize
           total == PartialTotal(security)
<1>0. /\ SectorSize \in Nat \ {0} /\ len \in Nat /\ disc.sectors \in Nat
      /\ TrimTotal = CeilDiv(len, SectorSize) /\ TrimTotal \in Nat \ {0}
  <2>1. SectorSize \in Nat \ {0} /\ disc.sectors \in Nat BY DiscFacts
  <2> QED BY <2>1, MaxEndFacts, TrimFacts DEF TrimTotal
<1>1. \A s \in security : s \in Nat /\ s + 1 \in Nat /\ s + 1 <= disc.sectors BY LastFacts, <1>0
<1>2. ASSUME NEW s \in security
      PROVE  /\ (s + 1) * SectorSize \in Nat
             /\ (s + 1) * SectorSize <= whole
             /\ CeilDiv((s + 1) * SectorSize, SectorSize) = s + 1
  <2>1. SectorSize \in Nat \ {0} /\ SectorSize \in Nat /\ disc.sectors \in Nat BY <1>0
  <2>2. PICK k \in Nat : k = s + 1 BY <1>1
  <2>3. k <= disc.sectors BY <1>1, <2>2
  <2>4. k * SectorSize \in Nat BY <2>1, <2>2
  <2>5. k * SectorSize <= whole BY <2>1, <2>2, <2>3, MultMonotonic
  <2>6. CeilDiv(k * SectorSize, SectorSize) = k BY <2>1, <2>2, CeilDivExact
  <2> QED BY <2>2, <2>4, <2>5, <2>6
<1>3. whole \in Nat BY <1>0
<1>4. S \in SUBSET Nat /\ S # {}
  <2>1. Bytes \subseteq Nat BY <1>2
  <2> HIDE DEF len, Bytes
  <2> QED BY <1>0, <2>1
<1>5. total = CeilDiv(Max(S), SectorSize) BY DEF PartialTotal, TrimmedSectors
<1>6. Max(S) \in S /\ \A x \in S : x <= Max(S)
  <2>1. \A x \in Bytes : x \in Nat /\ x <= whole BY <1>2
  <2> HIDE DEF len, Bytes, whole
  <2>2. len + whole \in Int /\ \A x \in S : x <= len + whole BY <1>0, <1>3, <2>1
  <2> HIDE DEF S
  <2>3. S \in SUBSET Int BY <1>4
  <2> QED BY <1>4, <2>2, <2>3, IntMax
<1>7. total \in Nat
  <2> HIDE DEF S, total
  <2> QED BY <1>0, <1>4, <1>5, <1>6, CeilDivFacts
<1>8. TrimTotal <= total
  <2>1. len <= Max(S) /\ Max(S) \in Nat BY <1>4, <1>6
  <2> HIDE DEF S, total, len
  <2> QED BY <1>0, <1>5, <2>1, CeilDivMonotonic
<1>9. ASSUME NEW s \in security
      PROVE  s < total
  <2> DEFINE x == (s + 1) * SectorSize
  <2>1. x \in S OBVIOUS
  <2>2. x \in Nat /\ CeilDiv(x, SectorSize) = s + 1 BY <1>2
  <2> HIDE DEF S, total, x
  <2>3. x <= Max(S) /\ Max(S) \in Nat BY <1>4, <1>6, <2>1
  <2>4. s + 1 <= total BY <1>0, <1>5, <2>2, <2>3, CeilDivMonotonic
  <2> QED BY <1>1, <1>7, <2>4
<1>10. total = TrimTotal \/ total <= disc.sectors
  <2>1. CASE Max(S) = len BY <1>0, <1>5, <2>1
  <2>2. CASE Max(S) \in Bytes
    <3>1. PICK s \in security : Max(S) = (s + 1) * SectorSize BY <2>2
    <3>2. total = s + 1 BY <1>2, <1>5, <3>1
    <3> QED BY <1>1, <3>2
  <2> QED BY <1>6, <2>1, <2>2
<1>11. total # 0
  <2> HIDE DEF total
  <2> QED BY <1>0, <1>7, <1>8
<1> HIDE DEF total
<1> QED BY <1>7, <1>8, <1>9, <1>10, <1>11 DEF total

\* However the plan was made, it keeps what is needed.
LEMMA PlanKeeps ==
  ASSUME PlanOK
  PROVE  UsedSectorsKept
<1> SUFFICES ASSUME Planned, mode # "full"
    PROVE  /\ \A s \in 0 .. disc.sectors - 1 : Needed(s) => Kept(s)
           /\ total_sectors > disc.sectors =>
                \E e \in disc.entries : e.size = 0 /\ e.sector > disc.sectors
  BY DEF UsedSectorsKept
<1>1. disc \in Discs BY DEF PlanOK
<1>2. /\ disc.sectors \in Nat
      /\ \A s \in 0 .. disc.sectors - 1 : s \in Nat /\ s < disc.sectors
      /\ \A s : Needed(s) <=> s \in UsedSectors
      /\ FullSectors = disc.sectors
  <2>1. disc.sectors \in Nat BY <1>1, DiscFacts
  <2> QED BY <1>1, <2>1, UsedIsNeeded, FullIsWhole
<1>3. CASE total_sectors = FullSectors /\ zero_sectors = {} BY <1>2, <1>3 DEF Kept
<1>4. CASE ~ScanFails /\ total_sectors = TrimTotal /\ zero_sectors = {}
  BY <1>1, <1>2, <1>4, TrimFacts DEF Kept
<1>5. CASE total_sectors = FullSectors /\ zero_sectors = ZeroMask BY <1>2, <1>5 DEF Kept, ZeroMask
<1>6. ASSUME ~ScanFails, NEW security \in SUBSET (0 .. LastScanned),
             total_sectors = PartialTotal(security), zero_sectors = PartialMask(security)
      PROVE  /\ \A s \in 0 .. disc.sectors - 1 : Needed(s) => Kept(s)
             /\ total_sectors > disc.sectors =>
                  \E e \in disc.entries : e.size = 0 /\ e.sector > disc.sectors
  <2>1. /\ total_sectors \in Nat /\ TrimTotal \in Nat /\ TrimTotal <= total_sectors
        /\ total_sectors = TrimTotal \/ total_sectors <= disc.sectors
    BY <1>1, <1>6, PartialFacts, TrimFacts
  <2>2. \A s \in UsedSectors : s < TrimTotal /\ s \notin zero_sectors
    BY <1>1, <1>6, TrimFacts DEF PartialMask
  <2>3. \A s \in 0 .. disc.sectors - 1 : Needed(s) => Kept(s) BY <1>2, <2>1, <2>2 DEF Kept
  <2>4. total_sectors > disc.sectors =>
      \E e \in disc.entries : e.size = 0 /\ e.sector > disc.sectors
    BY <1>1, <1>2, <1>6, <2>1, TrimFacts
  <2> QED BY <2>3, <2>4
<1>7. CASE Streams BY <1>3, <1>4, <1>5, <1>7 DEF PlanOK, Planned
<1>8. CASE ~Streams /\ total_sectors > 0 BY <1>3, <1>6, <1>8 DEF PlanOK
<1> QED BY <1>7, <1>8 DEF PlanOK, Planned

\* What is computed from the disc alone stays as long as the disc does.
LEMMA DiscStays ==
  ASSUME disc' = disc
  PROVE  /\ UsedSectors' = UsedSectors
         /\ FullSectors' = FullSectors
         /\ LastScanned' = LastScanned
         /\ ScanFails' <=> ScanFails
         /\ X360' <=> X360
         /\ HasRedumpSize' <=> HasRedumpSize
         /\ TrimTotal' = TrimTotal
         /\ ZeroMask' = ZeroMask
<1>1. \A r : MarkRegion(r)' = MarkRegion(r) /\ End(r)' = End(r) BY DEF MarkRegion, Start, End
<1>2. Files' = Files /\ DirectoryTables' = DirectoryTables BY DEF Files, DirectoryTables
<1>3. UsedSectors' = UsedSectors BY <1>1, <1>2 DEF UsedSectors
<1>4. FullSectors' = FullSectors BY DEF FullSectors, FileSize
<1>5. X360' <=> X360 BY DEF X360
<1>6. MaxEnd' = MaxEnd BY <1>1, <1>2 DEF MaxEnd
<1> QED BY <1>3, <1>4, <1>5, <1>6 DEF LastScanned, ScanFails, HasRedumpSize, TrimTotal, ZeroMask

\* So do the security sectors and the plans that protect some.
LEMMA SearchStays ==
  ASSUME disc' = disc
  PROVE  /\ \A s : Needed(s)' <=> Needed(s)
         /\ \A s : Spare(s)' <=> Spare(s)
         /\ SecurityRuns' = SecurityRuns
         /\ SecuritySectors' = SecuritySectors
         /\ \A security : /\ PartialTotal(security)' = PartialTotal(security)
                          /\ PartialMask(security)' = PartialMask(security)
                          /\ ProtectedOK(security)' <=> ProtectedOK(security)
<1>1. \A s : Needed(s)' <=> Needed(s) BY DEF Needed
<1>2. \A s : Spare(s)' <=> Spare(s) BY <1>1 DEF Spare
<1>3. SecurityRuns' = SecurityRuns BY <1>2, DiscStays DEF SecurityRuns
<1>4. SecuritySectors' = SecuritySectors BY <1>3, DiscStays DEF SecuritySectors
<1>5. MaxEnd' = MaxEnd
  <2>1. \A r : End(r)' = End(r) BY DEF Start, End
  <2>2. Files' = Files /\ DirectoryTables' = DirectoryTables BY DEF Files, DirectoryTables
  <2> QED BY <2>1, <2>2 DEF MaxEnd
<1>6. ASSUME NEW security
      PROVE  PartialTotal(security)' = PartialTotal(security)
  BY <1>5 DEF PartialTotal, TrimmedSectors
<1>7. ASSUME NEW security
      PROVE  PartialMask(security)' = PartialMask(security)
  BY <1>6, DiscStays DEF PartialMask
<1>8. ASSUME NEW security
      PROVE  ProtectedOK(security)' <=> ProtectedOK(security)
  BY <1>4, DiscStays DEF ProtectedOK
<1> QED BY <1>1, <1>2, <1>3, <1>4, <1>6, <1>7, <1>8

\* A partial plan spares, beyond what is needed, the run it protects.
LEMMA PlanSpares ==
  ASSUME PlanOK
  PROVE  SecuritySectorsKept
<1> DEFINE spared == {s \in 0 .. disc.sectors - 1 : Kept(s) /\ ~Needed(s)}
<1> SUFFICES ASSUME pc = "planned", Partial, ~X360
    PROVE  IF disc.root_offset = 0 THEN spared = SecuritySectors
           ELSE spared \in {{}} \cup {first .. first + SecurityRunLen - 1 :
                                      first \in 0 .. LastScanned}
  BY DEF SecuritySectorsKept
<1>1. disc \in Discs /\ total_sectors > 0 /\ ~Streams BY DEF PlanOK
<1>2. mode # "none" BY DEF Partial
<1>3. ~ScanFails /\ \E security \in SUBSET (0 .. LastScanned) :
               /\ total_sectors = PartialTotal(security)
               /\ zero_sectors = PartialMask(security)
               /\ ~X360 => ProtectedOK(security)
  BY <1>1, <1>2 DEF PlanOK
<1>4. PICK security \in SUBSET (0 .. LastScanned) :
    /\ total_sectors = PartialTotal(security)
    /\ zero_sectors = PartialMask(security)
    /\ ProtectedOK(security)
  BY <1>3
<1>5. zero_sectors = (0 .. total_sectors - 1) \ (UsedSectors \cup security) BY <1>4 DEF PartialMask
<1>6. /\ total_sectors \in Nat /\ disc.sectors \in Nat /\ LastScanned \in Nat
      /\ \A s \in security : s < total_sectors /\ s \in 0 .. disc.sectors - 1
  <2>1. disc.sectors \in Nat BY <1>1, DiscFacts
  <2>2. LastScanned \in Nat /\ LastScanned < disc.sectors BY <1>1, LastFacts
  <2>3. total_sectors \in Nat /\ \A s \in security : s < total_sectors BY <1>1, <1>3, <1>4, PartialFacts
  <2> QED BY <2>1, <2>2, <2>3
<1>7. security \cap UsedSectors = {} BY <1>4 DEF ProtectedOK
<1>8. \A s : Needed(s) <=> s \in UsedSectors BY <1>1, UsedIsNeeded
<1>9. spared = security
  <2>1. \A s \in 0 .. disc.sectors - 1 : Kept(s) /\ ~Needed(s) <=> s \in security
    BY <1>5, <1>6, <1>7, <1>8 DEF Kept
  <2> QED BY <1>6, <2>1
<1> HIDE DEF spared
<1> QED BY <1>4, <1>9 DEF ProtectedOK

-----------------------------------------------------------------------------
(* The search for the security sectors                                       *)

\* A run that opens the search can name: what the search relies on.
LEMMA RunFacts ==
  ASSUME disc \in Discs, NEW first \in SecurityRuns
  PROVE  /\ first \in Nat
         /\ first + SecurityRunLen \in Nat
         /\ first + SecurityRunLen <= LastScanned
         /\ \A s \in first .. first + SecurityRunLen - 1 : Spare(s)
         /\ ~Spare(first + SecurityRunLen)
         /\ first > 0 => ~Spare(first - 1)
<1>1. LastScanned \in Nat /\ SecurityRunLen \in Nat BY LastFacts, ScrubAssumption
<1>2. first \in 0 .. LastScanned - SecurityRunLen BY DEF SecurityRuns
<1>3. first \in Nat /\ first + SecurityRunLen \in Nat /\ first + SecurityRunLen <= LastScanned
  BY <1>1, <1>2
<1> QED BY <1>3 DEF SecurityRuns

\* Without a root offset the search reads the sector it names.
LEMMA CandidateIsSpare ==
  ASSUME disc \in Discs, sector_index \in Nat, disc.root_offset = 0
  PROVE  IsCandidate <=> Spare(sector_index)
<1> DEFINE x == sector_index * SectorSize
<1>0. SectorSize \in Nat \ {0} /\ x \in Nat BY DiscFacts
<1>1. x \div SectorSize = sector_index BY <1>0, DivUnique
<1>2. 0 + x = x BY <1>0
<1>3. SectorRead = sector_index BY <1>1, <1>2 DEF SectorRead
<1> QED BY <1>3, UsedIsNeeded DEF IsCandidate, Spare

\* At the end of a run of the right length the search knows it, and no other
\* sector that ends the current run is behind one.
LEMMA SearchFinds ==
  ASSUME disc \in Discs, sector_index \in Nat, disc.root_offset = 0,
         run_start \in {NoRun} \cup Nat,
         pc = "scanning", SearchOK, NEW first \in SecurityRuns,
         sector_index = first + SecurityRunLen
  PROVE  run_start = first /\ ~Spare(sector_index)
<1>1. SecurityRunLen \in Nat \ {0} BY ScrubAssumption
<1>2. /\ first \in Nat /\ first <= sector_index - 1
      /\ \A s \in first .. sector_index - 1 : Spare(s)
      /\ ~Spare(sector_index)
      /\ first > 0 => ~Spare(first - 1)
  BY <1>1, RunFacts
<1>3. sector_index > 0 /\ Spare(sector_index - 1) BY <1>1, <1>2
<1>4. run_start # NoRun BY <1>3 DEF SearchOK
<1>5. /\ run_start \in Nat /\ run_start < sector_index
      /\ \A s \in run_start .. sector_index - 1 : Spare(s)
      /\ run_start > 0 => ~Spare(run_start - 1)
  BY <1>4 DEF SearchOK
<1>6. CASE run_start < first BY <1>2, <1>5, <1>6
<1>7. CASE run_start > first BY <1>2, <1>5, <1>7
<1> QED BY <1>2, <1>5, <1>6, <1>7

\* Security sectors found without a root offset are those of the disc.
LEMMA FoundRun ==
  ASSUME disc \in Discs, sector_index \in Nat, disc.root_offset = 0,
         run_start \in Nat, pc = "scanning", PlanOK, SearchOK, ~IsCandidate,
         sector_index <= LastScanned, IsSecurityRun(run_start, sector_index - 1)
  PROVE  run_start .. sector_index - 1 = SecuritySectors
<1>1. SecurityRunLen \in Nat \ {0} /\ LastScanned \in Nat BY ScrubAssumption, LastFacts
<1>2. sector_index = run_start + SecurityRunLen BY <1>1 DEF IsSecurityRun
<1>3. run_start # NoRun BY DEF NoRun
<1>4. /\ \A s \in run_start .. sector_index - 1 : Spare(s)
      /\ run_start > 0 => ~Spare(run_start - 1)
      /\ \A first \in SecurityRuns : sector_index <= first + SecurityRunLen
  BY <1>3 DEF SearchOK
<1>5. ~Spare(sector_index) BY CandidateIsSpare
<1>6. run_start \in SecurityRuns BY <1>1, <1>2, <1>4, <1>5 DEF SecurityRuns
<1>7. \A first \in SecurityRuns : first \in Int /\ run_start <= first BY <1>1, <1>2, <1>4, RunFacts
<1>8. SecurityRuns \in SUBSET Int /\ SecurityRuns # {} /\ run_start \in Int BY <1>6, <1>7
<1>9. Min(SecurityRuns) \in SecurityRuns /\ \A x \in SecurityRuns : Min(SecurityRuns) <= x
  BY <1>7, <1>8, IntMin
<1>10. Min(SecurityRuns) = run_start
  <2>1. Min(SecurityRuns) \in Int BY <1>7, <1>9
  <2>2. run_start <= Min(SecurityRuns) BY <1>7, <1>9
  <2>3. Min(SecurityRuns) <= run_start BY <1>6, <1>9
  <2> QED BY <1>8, <2>1, <2>2, <2>3
<1>11. ~X360 /\ HasRedumpSize BY DEF PlanOK
<1>12. SecuritySectors = run_start .. run_start + SecurityRunLen - 1
  BY <1>6, <1>10, <1>11 DEF SecuritySectors
<1>13. sector_index - 1 = run_start + SecurityRunLen - 1 BY <1>1, <1>2
<1> QED BY <1>12, <1>13

-----------------------------------------------------------------------------
(* Every action preserves the invariant                                      *)

\* The names and the sectors of the largest image.
LEMMA NameFacts ==
  /\ LargestImage \in Nat \ {0}
  /\ MaxRebuilt <= LargestImage
  /\ \A n \in DiscSizes : n <= LargestImage
  /\ Names \subseteq Nat /\ 0 .. LargestImage \subseteq Names
  /\ \A e \in Entries : 0 .. e.sector \subseteq Names
  /\ 0 \in Names
<1> DEFINE S == DiscSizes \cup {MaxRebuilt}
<1>1. /\ DiscSizes \subseteq Nat \ {0} /\ IsFiniteSet(DiscSizes)
      /\ MaxRebuilt \in Nat \ {0}
  BY ScrubAssumption, XisoAssumption
<1>2. IsFiniteSet(S) BY <1>1, FS_Singleton, FS_Union
<1>3. S \in SUBSET Int /\ S # {} BY <1>1
<1>4. Max(S) \in S /\ \A x \in S : x <= Max(S)
  <2> HIDE DEF S
  <2> QED BY <1>2, <1>3, FiniteMax
<1>5. Max(S) \in Nat \ {0}
  <2> HIDE DEF S
  <2>1. \A x \in S : x \in Nat \ {0} BY <1>1 DEF S
  <2> QED BY <1>4, <2>1
<1>6. LargestImage = Max(S) BY DEF LargestImage
<1>7. MaxRebuilt <= LargestImage /\ \A n \in DiscSizes : n <= LargestImage BY <1>4, <1>6
<1> DEFINE Sectors == {e.sector : e \in Entries}
           f == [e \in Entries |-> e.sector]
           All == {LargestImage} \cup Sectors
<1>8. LargestImage \in Nat \ {0} BY <1>5, <1>6
<1> HIDE DEF S
<1>9. f \in Surjection(Entries, Sectors)
  <2>1. f \in [Entries -> Sectors] /\ \A t \in Sectors : \E e \in Entries : f[e] = t OBVIOUS
  <2> HIDE DEF f, Sectors
  <2> QED BY <2>1, Fun_IsSurj
<1>10. IsFiniteSet(Sectors)
  <2> HIDE DEF f, Sectors
  <2> QED BY <1>9, ScrubAssumption, FS_Surjection
<1>11. Sectors \subseteq Nat BY ScrubAssumption
<1>12. IsFiniteSet(All) /\ All \in SUBSET Nat /\ All \in SUBSET Int /\ All # {}
  <2> HIDE DEF Sectors
  <2>1. IsFiniteSet({LargestImage}) BY FS_Singleton
  <2>2. IsFiniteSet(All) BY <1>10, <2>1, FS_Union
  <2>3. \A x \in All : x \in Nat BY <1>8, <1>11
  <2>4. LargestImage \in All OBVIOUS
  <2> HIDE DEF All
  <2> QED BY <2>2, <2>3, <2>4
<1>13. Max(All) \in All /\ \A x \in All : x <= Max(All)
  <2> HIDE DEF All
  <2> QED BY <1>12, FiniteMax
<1>14. Names = 0 .. Max(All) BY DEF Names
<1>15. ASSUME NEW x \in All PROVE 0 .. x \subseteq Names
  <2> HIDE DEF All
  <2>1. x \in Nat /\ Max(All) \in Nat /\ x <= Max(All) BY <1>12, <1>13
  <2> QED BY <1>14, <2>1
<1>16. Names \subseteq Nat BY <1>14
<1>17. 0 .. LargestImage \subseteq Names /\ \A e \in Entries : 0 .. e.sector \subseteq Names BY <1>15
<1>18. 0 \in Names BY <1>8, <1>17
<1> QED BY <1>7, <1>8, <1>16, <1>17, <1>18

LEMMA InitIInv ==
  ASSUME Init
  PROVE  IInv
<1> USE DEF Init, ScrubInit
<1>1. disc \in Discs OBVIOUS
<1>2. LastScanned \in Nat BY <1>1, LastFacts
<1>3. TypeOK
  <2>1. written \in [Names -> Nat] OBVIOUS
  <2>2. landed \in [0 .. LargestImage - 1 ->
      [name : Names, offset : Int, content : {"image", "zero"}]]
    BY NameFacts DEF Nowhere
  <2>3. /\ sector_index \in 0 .. LastScanned + 1
        /\ run_start \in {NoRun} \cup 0 .. LastScanned
    BY <1>2
  <2>4. current_entry_name \in 0 .. Max({Len(output_manifest) - 1, 0})
    <3>1. Len(output_manifest) = 0 OBVIOUS
    <3>2. Max({0 - 1, 0}) = 0 BY MaxPair
    <3> QED BY <3>1, <3>2
  <2>5. output_manifest \in Seq(Nat \ {0}) OBVIOUS
  <2>6. /\ failures \in 0 .. MaxFailures /\ sectors_per_chunk \in Nat \ {0}
        /\ current_sector \in 0 .. total_sectors
    BY XisoAssumption
  <2> QED BY <2>1, <2>2, <2>3, <2>4, <2>5, <2>6 DEF TypeOK
<1>4. PlanOK BY <1>1 DEF PlanOK, NothingOpened, Streams
<1>5. SearchOK BY DEF SearchOK, scanVars
<1>6. WrittenOK
  <2> SUFFICES ASSUME NEW name \in Names PROVE written[name] = Filled(name) * SectorSize BY DEF WrittenOK
  <2>1. name \in Nat /\ SplitSectors \in Nat BY NameFacts, XisoAssumption
  <2>2. Filled(name) = 0 BY <2>1 DEF Filled
  <2>3. 0 * SectorSize = 0 BY ScrubAssumption
  <2> QED BY <2>2, <2>3
<1>7. SectorsLandInPlace BY DEF SectorsLandInPlace
<1> QED BY <1>3, <1>4, <1>5, <1>6, <1>7 DEF IInv

\* While a plan is made the session keeps still: nothing is written.
LEMMA Unstreamed ==
  ASSUME IInv, pc \in {"opening", "scanning"}, UNCHANGED <<disc, mode, xisoVars, driverVars>>,
         pc' \in {"scanning", "planned", "failed"}, sector_index' \in 0 .. LastScanned + 1,
         run_start' \in {NoRun} \cup 0 .. LastScanned,
         total_sectors' \in Nat, zero_sectors' \subseteq 0 .. total_sectors' - 1,
         PlanOK', SearchOK'
  PROVE  IInv'
<1> USE DEF xisoVars, driverVars
<1>1. TypeOK'
  <2>1. current_sector' = 0 BY DEF IInv, PlanOK, NothingOpened
  <2>2. current_sector' \in 0 .. total_sectors' BY <2>1
  <2>3. LastScanned' = LastScanned BY DiscStays
  <2> QED BY <2>2, <2>3 DEF IInv, TypeOK
<1>2. WrittenOK'
  <2>1. \A name : Filled(name)' = Filled(name) BY DEF Filled
  <2> QED BY <2>1 DEF IInv, WrittenOK
<1>3. SectorsLandInPlace'
  <2>1. \A s : Needed(s)' <=> Needed(s) BY SearchStays
  <2>2. X360' <=> X360 BY DiscStays
  <2> QED BY <2>1, <2>2 DEF IInv, SectorsLandInPlace
<1> QED BY <1>1, <1>2, <1>3 DEF IInv

\* A partial plan that protects such a run, or none.
LEMMA PartialPlan ==
  ASSUME IInv, pc \in {"opening", "scanning"}, Partial, ~ScanFails,
         NEW security \in SUBSET (0 .. LastScanned), ~X360 => ProtectedOK(security),
         X360 => security = {}, PlanPartial(security),
         UNCHANGED <<disc, mode, scanVars, xisoVars, driverVars>>
  PROVE  IInv'
<1> USE DEF scanVars
<1>1. /\ disc \in Discs /\ current_sector = 0 /\ current_entry_name = 0
      /\ output_manifest = <<>>
  BY DEF IInv, PlanOK, NothingOpened
<1>2. /\ pc' = "planned" /\ total_sectors' = PartialTotal(security)
      /\ zero_sectors' = PartialMask(security)
  BY DEF PlanPartial
<1>3. total_sectors' \in Nat /\ total_sectors' > 0 BY <1>1, <1>2, PartialFacts
<1>4. zero_sectors' \subseteq 0 .. total_sectors' - 1 BY <1>2 DEF PartialMask
<1>5. PlanOK'
  <2>1. /\ Partial' /\ ~Streams' /\ disc' \in Discs
        /\ current_sector' = 0 /\ current_entry_name' = 0 /\ output_manifest' = <<>>
    BY <1>1 DEF Partial, Streams, xisoVars
  <2>2. ~ScanFails' /\ security \in SUBSET (0 .. LastScanned') BY DiscStays
  <2>3. /\ total_sectors' = PartialTotal(security)'
        /\ zero_sectors' = PartialMask(security)'
        /\ ~X360' => ProtectedOK(security)'
        /\ X360' => security = {}
    BY <1>2, SearchStays, DiscStays
  <2>4. Discs' = Discs BY DEF Discs
  <2> QED BY <1>2, <1>3, <2>1, <2>2, <2>3, <2>4 DEF PlanOK
<1>6. SearchOK' BY <1>2 DEF SearchOK
<1>7. /\ sector_index' \in 0 .. LastScanned + 1
      /\ run_start' \in {NoRun} \cup 0 .. LastScanned
  BY DEF IInv, TypeOK
<1> QED BY <1>2, <1>3, <1>4, <1>5, <1>6, <1>7, Unstreamed

LEMMA PlanNoneIInv ==
  ASSUME IInv, PlanNone, UNCHANGED <<xisoVars, driverVars>>
  PROVE  IInv'
<1> USE DEF PlanNone, scanVars
<1>1. disc \in Discs /\ NothingOpened BY DEF IInv, PlanOK
<1>2. total_sectors' \in Nat /\ total_sectors' > 0 /\ zero_sectors' = {}
  BY <1>1, FullIsWhole, DiscFacts DEF NothingOpened
<1>3. PlanOK'
  <2>1. /\ ~Streams' /\ disc' \in Discs /\ current_sector' = 0
        /\ current_entry_name' = 0 /\ output_manifest' = <<>>
    BY <1>1 DEF Streams, xisoVars, NothingOpened
  <2>2. total_sectors' = FullSectors' BY DiscStays
  <2> QED BY <1>2, <2>1, <2>2 DEF PlanOK
<1>4. SearchOK' BY DEF SearchOK
<1>5. /\ sector_index' \in 0 .. LastScanned + 1
      /\ run_start' \in {NoRun} \cup 0 .. LastScanned
  BY DEF IInv, TypeOK
<1> QED BY <1>2, <1>3, <1>4, <1>5, Unstreamed

\* A session that has not opened may fail.
LEMMA GivesUp ==
  ASSUME IInv, pc \in {"opening", "scanning"}, pc' = "failed",
         UNCHANGED <<disc, mode, scanVars, planVars, xisoVars, driverVars>>
  PROVE  IInv'
<1> USE DEF scanVars, planVars
<1>1. disc \in Discs /\ NothingOpened BY DEF IInv, PlanOK
<1>2. NothingOpened' BY <1>1 DEF NothingOpened, xisoVars
<1>3. PlanOK'
  <2>1. Streams' <=> Streams BY DEF Streams
  <2> QED BY <1>1, <1>2, <2>1 DEF PlanOK, NothingOpened
<1>4. SearchOK' BY DEF SearchOK
<1>5. /\ sector_index' \in 0 .. LastScanned + 1
      /\ run_start' \in {NoRun} \cup 0 .. LastScanned
      /\ total_sectors' \in Nat /\ zero_sectors' \subseteq 0 .. total_sectors' - 1
  BY DEF IInv, TypeOK
<1> QED BY <1>3, <1>4, <1>5, Unstreamed

LEMMA PlanWithoutSearchIInv ==
  ASSUME IInv, PlanWithoutSearch, UNCHANGED <<xisoVars, driverVars>>
  PROVE  IInv'
<1>1. /\ pc = "opening" /\ Partial /\ UNCHANGED <<disc, mode, scanVars>>
      /\ \/ ScanFails /\ pc' = "failed" /\ UNCHANGED planVars
         \/ ~ScanFails /\ (X360 \/ ~HasRedumpSize) /\ PlanPartial({})
  BY DEF PlanWithoutSearch
<1>2. CASE ScanFails /\ pc' = "failed" /\ UNCHANGED planVars BY <1>1, <1>2, GivesUp
<1>3. CASE ~ScanFails /\ (X360 \/ ~HasRedumpSize) /\ PlanPartial({})
  <2>1. ProtectedOK({}) BY <1>3 DEF ProtectedOK, SecuritySectors
  <2> QED BY <1>1, <1>3, <2>1, PartialPlan
<1> QED BY <1>1, <1>2, <1>3

LEMMA BeginSearchIInv ==
  ASSUME IInv, BeginSearch, UNCHANGED <<xisoVars, driverVars>>
  PROVE  IInv'
<1> USE DEF BeginSearch, scanVars, planVars
<1>1. disc \in Discs /\ NothingOpened BY DEF IInv, PlanOK
<1>2. PlanOK'
  <2>1. NothingOpened' /\ disc' \in Discs BY <1>1 DEF NothingOpened, xisoVars
  <2>2. Partial' /\ ~Streams' BY DEF Partial, Streams
  <2>3. ~ScanFails' /\ ~X360' /\ HasRedumpSize' BY DiscStays
  <2> QED BY <2>1, <2>2, <2>3 DEF PlanOK, NothingOpened
<1>3. sector_index' = 0 /\ run_start' = NoRun BY DEF IInv, SearchOK
<1>4. SearchOK'
  <2>1. SecurityRuns' = SecurityRuns BY SearchStays
  <2>2. \A first \in SecurityRuns : 0 <= first + SecurityRunLen BY <1>1, RunFacts
  <2> QED BY <1>3, <2>1, <2>2 DEF SearchOK
<1>5. /\ sector_index' \in 0 .. LastScanned + 1
      /\ run_start' \in {NoRun} \cup 0 .. LastScanned
      /\ total_sectors' \in Nat /\ zero_sectors' \subseteq 0 .. total_sectors' - 1
  BY DEF IInv, TypeOK
<1> QED BY <1>2, <1>4, <1>5, Unstreamed

\* What a search knows of its state.
LEMMA SearchTypes ==
  ASSUME IInv, pc = "scanning"
  PROVE  /\ disc \in Discs /\ Partial /\ ~ScanFails /\ ~X360 /\ HasRedumpSize
         /\ LastScanned \in Nat /\ SecurityRunLen \in Nat \ {0}
         /\ sector_index \in Nat /\ sector_index <= LastScanned + 1
         /\ run_start \in {NoRun} \cup 0 .. LastScanned
         /\ run_start \in {NoRun} \cup Nat
         /\ total_sectors = 0 /\ zero_sectors = {}
         /\ SearchOK
<1>1. disc \in Discs BY DEF IInv, PlanOK
<1>2. LastScanned \in Nat /\ SecurityRunLen \in Nat \ {0} BY <1>1, LastFacts, ScrubAssumption
<1>3. sector_index \in 0 .. LastScanned + 1 /\ run_start \in {NoRun} \cup 0 .. LastScanned
  BY DEF IInv, TypeOK
<1> QED BY <1>1, <1>2, <1>3 DEF IInv, PlanOK, NothingOpened

\* An iteration that goes on with the search.
LEMMA SearchGoesOn ==
  ASSUME IInv, pc = "scanning", pc' = "scanning", sector_index <= LastScanned,
         sector_index' = sector_index + 1,
         \/ /\ IsCandidate
            /\ run_start' = IF run_start = NoRun THEN sector_index ELSE run_start
         \/ /\ ~IsCandidate
            /\ run_start = NoRun \/ ~IsSecurityRun(run_start, sector_index - 1)
            /\ run_start' = NoRun,
         UNCHANGED <<disc, mode, planVars, xisoVars, driverVars>>
  PROVE  IInv'
<1> USE DEF planVars
<1>1. /\ disc \in Discs /\ LastScanned \in Nat /\ SecurityRunLen \in Nat \ {0}
      /\ sector_index \in Nat /\ sector_index + 1 \in Nat
      /\ run_start \in {NoRun} \cup 0 .. LastScanned
      /\ run_start \in {NoRun} \cup Nat
      /\ SearchOK
  BY SearchTypes
<1>2. PlanOK'
  <2>1. NothingOpened' /\ disc' \in Discs BY <1>1 DEF IInv, PlanOK, NothingOpened, xisoVars
  <2>2. Partial' /\ ~Streams' BY SearchTypes DEF Partial, Streams
  <2>3. ~ScanFails' /\ ~X360' /\ HasRedumpSize' BY SearchTypes, DiscStays
  <2> QED BY <2>1, <2>2, <2>3 DEF PlanOK, NothingOpened
<1>3. run_start' # NoRun =>
    /\ run_start' < sector_index'
    /\ \A s \in run_start' .. sector_index' - 1 : s \notin UsedSectors
  <2>1. run_start # NoRun =>
      /\ run_start < sector_index
      /\ \A s \in run_start .. sector_index - 1 : s \notin UsedSectors
    BY <1>1 DEF SearchOK
  <2>2. ASSUME IsCandidate
        PROVE  \A s \in run_start' .. sector_index' - 1 : s \notin UsedSectors
    <3>1. sector_index \notin UsedSectors BY <2>2 DEF IsCandidate
    <3> QED BY <1>1, <2>1, <2>2, <3>1 DEF NoRun
  <2> QED BY <1>1, <2>1, <2>2 DEF NoRun
<1>4. ASSUME disc.root_offset = 0
      PROVE  /\ IF run_start' = NoRun THEN sector_index' > 0 => ~Spare(sector_index' - 1)
                ELSE /\ \A s \in run_start' .. sector_index' - 1 : Spare(s)
                     /\ run_start' > 0 => ~Spare(run_start' - 1)
             /\ \A first \in SecurityRuns : sector_index' <= first + SecurityRunLen
  <2>1. /\ IF run_start = NoRun THEN sector_index > 0 => ~Spare(sector_index - 1)
           ELSE /\ \A s \in run_start .. sector_index - 1 : Spare(s)
                /\ run_start > 0 => ~Spare(run_start - 1)
        /\ \A first \in SecurityRuns : sector_index <= first + SecurityRunLen
    BY <1>1, <1>4 DEF SearchOK
  <2>2. IsCandidate <=> Spare(sector_index) BY <1>1, <1>4, CandidateIsSpare
  <2>3. sector_index' - 1 = sector_index BY <1>1
  <2>4. ASSUME NEW first \in SecurityRuns
        PROVE  sector_index' <= first + SecurityRunLen
    <3>1. first \in Nat /\ first + SecurityRunLen \in Nat BY <1>1, RunFacts
    <3>2. ASSUME sector_index = first + SecurityRunLen PROVE FALSE
      <4>1. run_start = first /\ ~Spare(sector_index) BY <1>1, <1>4, <3>2, SearchFinds
      <4>2. IsSecurityRun(run_start, sector_index - 1) BY <1>1, <3>1, <3>2, <4>1 DEF IsSecurityRun
      <4>3. run_start # NoRun BY <3>1, <4>1 DEF NoRun
      <4> QED BY <2>2, <4>1, <4>2, <4>3
    <3> QED BY <1>1, <2>1, <3>1, <3>2
  <2>5. CASE ~IsCandidate BY <2>2, <2>3, <2>4, <2>5
  <2>6. CASE IsCandidate /\ run_start = NoRun
    <3>1. run_start' = sector_index /\ run_start' # NoRun BY <1>1, <2>6 DEF NoRun
    <3>2. \A s \in run_start' .. sector_index' - 1 : s = sector_index BY <1>1, <2>3, <3>1
    <3> QED BY <2>1, <2>2, <2>4, <2>6, <3>1, <3>2
  <2>7. CASE IsCandidate /\ run_start # NoRun
    <3>1. run_start' = run_start BY <2>7
    <3>2. run_start \in Nat BY <1>1, <2>7
    <3>3. \A s \in run_start' .. sector_index' - 1 :
        s \in run_start .. sector_index - 1 \/ s = sector_index
      BY <1>1, <2>3, <3>1, <3>2
    <3> QED BY <2>1, <2>2, <2>4, <2>7, <3>1, <3>3
  <2> QED BY <2>5, <2>6, <2>7
<1>5. SearchOK'
  <2>1. SecurityRuns' = SecurityRuns /\ UsedSectors' = UsedSectors BY SearchStays, DiscStays
  <2>2. \A s : Spare(s)' <=> Spare(s) BY SearchStays
  <2> QED BY <1>3, <1>4, <2>1, <2>2 DEF SearchOK
<1>6. /\ sector_index' \in 0 .. LastScanned + 1
      /\ run_start' \in {NoRun} \cup 0 .. LastScanned
      /\ total_sectors' \in Nat /\ zero_sectors' \subseteq 0 .. total_sectors' - 1
  BY <1>1 DEF IInv, TypeOK
<1> QED BY <1>2, <1>5, <1>6, Unstreamed

\* The iteration that finds the run plans with it.
LEMMA SearchSucceeds ==
  ASSUME IInv, pc = "scanning", sector_index <= LastScanned, ~IsCandidate, run_start # NoRun,
         IsSecurityRun(run_start, sector_index - 1),
         PlanPartial(run_start .. sector_index - 1),
         UNCHANGED <<disc, mode, scanVars, xisoVars, driverVars>>
  PROVE  IInv'
<1> DEFINE security == run_start .. sector_index - 1
<1>1. /\ disc \in Discs /\ Partial /\ ~ScanFails /\ ~X360
      /\ LastScanned \in Nat /\ SecurityRunLen \in Nat \ {0}
      /\ sector_index \in Nat /\ SearchOK /\ PlanOK
  BY SearchTypes DEF IInv
<1>2. run_start \in 0 .. LastScanned /\ run_start \in Nat BY SearchTypes
<1>3. sector_index - 1 = run_start + SecurityRunLen - 1 BY <1>1, <1>2 DEF IsSecurityRun
<1>4. security \in SUBSET (0 .. LastScanned) BY <1>1, <1>2
<1>5. security \cap UsedSectors = {} BY <1>1 DEF SearchOK
<1>6. disc.root_offset = 0 => security = SecuritySectors BY <1>1, <1>2, FoundRun
<1>7. ProtectedOK(security)
  <2>1. security = run_start .. run_start + SecurityRunLen - 1 BY <1>3
  <2>2. run_start + SecurityRunLen - 1 <= LastScanned BY <1>1, <1>3
  <2> HIDE DEF security
  <2> QED BY <1>2, <1>5, <1>6, <2>1, <2>2 DEF ProtectedOK
<1> QED BY <1>1, <1>4, <1>7, PartialPlan

LEMMA ScanSectorIInv ==
  ASSUME IInv, ScanSector, UNCHANGED <<xisoVars, driverVars>>
  PROVE  IInv'
<1>1. pc = "scanning" /\ sector_index <= LastScanned /\ UNCHANGED <<disc, mode>> BY DEF ScanSector
<1>2. CASE /\ IsCandidate
           /\ run_start' = IF run_start = NoRun THEN sector_index ELSE run_start
           /\ sector_index' = sector_index + 1
           /\ UNCHANGED <<pc, planVars>>
  BY <1>1, <1>2, SearchGoesOn
<1>3. CASE /\ ~IsCandidate
           /\ run_start = NoRun \/ ~IsSecurityRun(run_start, sector_index - 1)
           /\ run_start' = NoRun
           /\ sector_index' = sector_index + 1
           /\ UNCHANGED <<pc, planVars>>
  BY <1>1, <1>3, SearchGoesOn
<1>4. CASE /\ ~IsCandidate
           /\ run_start # NoRun
           /\ IsSecurityRun(run_start, sector_index - 1)
           /\ PlanPartial(run_start .. sector_index - 1)
           /\ UNCHANGED scanVars
  BY <1>1, <1>4, SearchSucceeds
<1> QED BY <1>2, <1>3, <1>4 DEF ScanSector

\* A search that has seen every sector was right to find nothing.
LEMMA EndSearchIInv ==
  ASSUME IInv, EndSearch, UNCHANGED <<xisoVars, driverVars>>
  PROVE  IInv'
<1>1. /\ pc = "scanning" /\ sector_index > LastScanned /\ PlanPartial({})
      /\ UNCHANGED <<disc, mode, scanVars>>
  BY DEF EndSearch
<1>2. /\ disc \in Discs /\ Partial /\ ~ScanFails /\ ~X360
      /\ LastScanned \in Nat /\ sector_index \in Nat /\ SearchOK
  BY <1>1, SearchTypes
<1>3. ASSUME disc.root_offset = 0 PROVE SecuritySectors = {}
  <2>1. ASSUME NEW first \in SecurityRuns PROVE FALSE
    <3>1. first + SecurityRunLen \in Nat /\ first + SecurityRunLen <= LastScanned BY <1>2, RunFacts
    <3>2. sector_index <= first + SecurityRunLen BY <1>1, <1>2, <1>3 DEF SearchOK
    <3> QED BY <1>1, <1>2, <3>1, <3>2
  <2> QED BY <2>1 DEF SecuritySectors
<1>4. ProtectedOK({}) BY <1>3 DEF ProtectedOK
<1> QED BY <1>1, <1>2, <1>4, PartialPlan

LEMMA ScanReadFailsIInv ==
  ASSUME IInv, ScanReadFails, UNCHANGED <<xisoVars, driverVars>>
  PROVE  IInv'
BY GivesUp DEF ScanReadFails

-----------------------------------------------------------------------------
(* Opening a session                                                         *)

\* Sectors that file p of a split image holds in the end.
FileSectors(total, p) == Min({SplitSectors, total - (p - 1) * SplitSectors})

\* The files of a split image begin at multiples of the margin, and each has
\* at least a sector.
LEMMA FileSectorsFacts ==
  ASSUME NEW total \in Nat \ {0}, NEW p \in 1 .. CeilDiv(total, SplitSectors)
  PROVE  /\ p \in Nat \ {0} /\ (p - 1) * SplitSectors \in Nat
         /\ p * SplitSectors = (p - 1) * SplitSectors + SplitSectors
         /\ (p - 1) * SplitSectors < total
         /\ FileSectors(total, p) = IF p * SplitSectors <= total THEN SplitSectors
              ELSE total - (p - 1) * SplitSectors
         /\ FileSectors(total, p) \in Nat \ {0}
<1> DEFINE n == CeilDiv(total, SplitSectors)
           x == (p - 1) * SplitSectors
<1>1. SplitSectors \in Nat \ {0} /\ SplitSectors \in Nat BY XisoAssumption
<1>2. n \in Nat /\ n * SplitSectors < total + SplitSectors BY <1>1, CeilDivFacts
<1>3. p \in Nat \ {0} /\ p - 1 \in Nat /\ p <= n
  <2>1. p \in 1 .. n OBVIOUS
  <2> HIDE DEF n
  <2> QED BY <1>2, <2>1
<1>4. p * SplitSectors = x + SplitSectors /\ x \in Nat BY <1>1, <1>3
<1>5. p * SplitSectors <= n * SplitSectors /\ n * SplitSectors \in Nat
  <2> HIDE DEF n
  <2>1. p \in Nat BY <1>3
  <2> QED BY <1>1, <1>2, <1>3, <2>1, MultMonotonic
<1>6. x < total
  <2> DEFINE y == p * SplitSectors
             z == n * SplitSectors
  <2>1. y = x + SplitSectors /\ y <= z /\ z < total + SplitSectors /\ z \in Nat BY <1>2, <1>4, <1>5
  <2> HIDE DEF x, y, z, n
  <2> QED BY <1>1, <1>4, <2>1
<1> HIDE DEF x, n
<1>7. FileSectors(total, p) = IF SplitSectors <= total - x THEN SplitSectors ELSE total - x
  <2>1. total - x \in Int /\ SplitSectors \in Int BY <1>1, <1>4
  <2> QED BY <2>1, MinPair DEF FileSectors, x
<1>8. SplitSectors <= total - x <=> p * SplitSectors <= total
  <2> DEFINE y == p * SplitSectors
  <2>1. y = x + SplitSectors BY <1>4
  <2> HIDE DEF y
  <2>2. SplitSectors <= total - x <=> y <= total BY <1>1, <1>4, <2>1
  <2> QED BY <2>2 DEF y
<1>9. FileSectors(total, p) \in Nat \ {0} BY <1>1, <1>4, <1>6, <1>7
<1> QED BY <1>3, <1>4, <1>6, <1>7, <1>8, <1>9 DEF x

\* The manifest lists the files of the split image.
LEMMA ManifestFacts ==
  ASSUME NEW total \in Nat \ {0}
  PROVE  /\ BuildOutputManifest(total) \in Seq(Nat \ {0})
         /\ Len(BuildOutputManifest(total)) = CeilDiv(total, SplitSectors)
         /\ CeilDiv(total, SplitSectors) \in Nat \ {0}
         /\ \A p \in 1 .. CeilDiv(total, SplitSectors) :
              BuildOutputManifest(total)[p] = FileSectors(total, p) * SectorSize
<1> DEFINE n == CeilDiv(total, SplitSectors)
           f == BuildOutputManifest(total)
<1>1. SplitSectors \in Nat \ {0} /\ SectorSize \in Nat \ {0} BY XisoAssumption, ScrubAssumption
<1>2. n \in Nat /\ total <= n * SplitSectors BY <1>1, CeilDivFacts
<1>3. n # 0
  <2> HIDE DEF n
  <2>1. ASSUME n = 0 PROVE FALSE
    <3>1. n * SplitSectors = 0 BY <1>1, <2>1
    <3> QED BY <1>2, <3>1
  <2> QED BY <2>1
<1>4. f = [p \in 1 .. n |-> FileSectors(total, p) * SectorSize] BY DEF BuildOutputManifest, FileSectors
<1>5. \A p \in 1 .. n : FileSectors(total, p) * SectorSize \in Nat \ {0}
  <2> SUFFICES ASSUME NEW p \in 1 .. n
      PROVE  FileSectors(total, p) * SectorSize \in Nat \ {0}
    OBVIOUS
  <2>1. FileSectors(total, p) \in Nat \ {0} BY FileSectorsFacts
  <2> QED BY <1>1, <2>1
<1> HIDE DEF n, f
<1>6. f \in Seq(Nat \ {0}) /\ Len(f) = n BY <1>2, <1>4, <1>5
<1>7. \A p \in 1 .. n : f[p] = FileSectors(total, p) * SectorSize BY <1>4
<1> QED BY <1>2, <1>3, <1>6, <1>7 DEF n, f

\* open() ends with a session that has written nothing.
LEMMA FinishIInv ==
  ASSUME IInv, pc = "opening", NEW total \in Nat \ {0}, NEW zero, Finish(total, zero),
         \/ mode = "trim" /\ ~ScanFails /\ total = TrimTotal /\ zero = {}
         \/ mode = "zero" /\ ~ScanFails /\ total = FullSectors /\ zero = ZeroMask
         \/ mode = "full" /\ total \in 1 .. MaxRebuilt /\ zero = {}
  PROVE  IInv'
<1> USE DEF Finish, scanVars, driverVars
<1>1. disc \in Discs /\ NothingOpened BY DEF IInv, PlanOK
<1>2. /\ current_sector = 0 /\ current_sector' = 0
      /\ current_entry_name = 0 /\ current_entry_name' = 0
  BY <1>1 DEF NothingOpened
<1>3. PlanOK'
  <2>1. Streams' /\ disc' \in Discs BY <1>1 DEF Streams
  <2>2. mode' # "full" => current_sector' <= disc'.sectors BY <1>1, <1>2, DiscFacts
  <2>3. output_manifest' = IF split' THEN BuildOutputManifest(total_sectors)' ELSE <<>>
    BY DEF BuildOutputManifest
  <2> QED BY <2>1, <2>2, <2>3, DiscStays DEF PlanOK
<1>4. SearchOK' BY DEF SearchOK
<1>5. TypeOK'
  <2>1. LastScanned' = LastScanned BY DiscStays
  <2>2. zero \subseteq 0 .. total - 1 BY DEF ZeroMask
  <2>3. sectors_per_chunk' \in Nat \ {0}
    <3>1. PICK n \in ChunkSectors : sectors_per_chunk' = Max({n, 1}) BY DEF Finish
    <3>2. n \in Nat BY XisoAssumption
    <3> QED BY <3>1, <3>2, MaxPair
  <2>4. output_manifest' \in Seq(Nat \ {0}) /\ Len(output_manifest') \in Nat
    <3>1. BuildOutputManifest(total) \in Seq(Nat \ {0}) BY ManifestFacts
    <3>2. output_manifest' = BuildOutputManifest(total) \/ output_manifest' = <<>> BY DEF Finish
    <3>3. <<>> \in Seq(Nat \ {0}) OBVIOUS
    <3>4. output_manifest' \in Seq(Nat \ {0}) BY <3>1, <3>2, <3>3
    <3> QED BY <3>4
  <2>5. current_entry_name' \in 0 .. Max({Len(output_manifest') - 1, 0})
    <3> DEFINE len == Len(output_manifest')
    <3>1. len \in Nat BY <2>4
    <3> HIDE DEF len
    <3>2. len - 1 \in Int BY <3>1
    <3>3. Max({len - 1, 0}) = IF 0 <= len - 1 THEN len - 1 ELSE 0 BY <3>2, MaxPair
    <3>4. Max({len - 1, 0}) \in Nat BY <3>2, <3>3
    <3> QED BY <1>2, <3>4 DEF len
  <2>6. current_sector' \in 0 .. total_sectors' BY <1>2
  <2> QED BY <2>1, <2>2, <2>3, <2>4, <2>5, <2>6 DEF IInv, TypeOK
<1>6. WrittenOK'
  <2> SUFFICES ASSUME NEW name \in Names PROVE written'[name] = Filled(name)' * SectorSize
    BY DEF WrittenOK
  <2>1. name \in Nat /\ SplitSectors \in Nat BY NameFacts, XisoAssumption
  <2>2. Filled(name) = 0 /\ Filled(name)' = 0 BY <1>2, <2>1 DEF Filled
  <2> QED BY <2>2 DEF IInv, WrittenOK
<1>7. SectorsLandInPlace'
  <2> SUFFICES ASSUME NEW s \in DOMAIN landed PROVE landed'[s] = Nowhere /\ ~(s < 0)
    BY <1>2 DEF SectorsLandInPlace
  <2>1. s \in 0 .. LargestImage - 1 BY DEF IInv, TypeOK
  <2>2. ~(s < 0) BY <2>1, NameFacts
  <2> QED BY <1>2, <2>2 DEF IInv, SectorsLandInPlace
<1> QED BY <1>3, <1>4, <1>5, <1>6, <1>7 DEF IInv

LEMMA OpenIInv ==
  ASSUME IInv, OpenTrim \/ OpenZero \/ OpenRebuilt
  PROVE  IInv'
<1>1. disc \in Discs BY DEF IInv, PlanOK
<1>2. CASE OpenTrim BY <1>1, <1>2, TrimFacts, FinishIInv DEF OpenTrim
<1>3. CASE OpenZero BY <1>1, <1>3, FullIsWhole, DiscFacts, FinishIInv DEF OpenZero
<1>4. CASE OpenRebuilt
  <2>1. PICK total \in 1 .. MaxRebuilt : Finish(total, {}) BY <1>4 DEF OpenRebuilt
  <2>2. total \in Nat \ {0} BY XisoAssumption
  <2> QED BY <1>4, <2>1, <2>2, FinishIInv DEF OpenRebuilt
<1> QED BY <1>2, <1>3, <1>4

LEMMA OpenFailsIInv ==
  ASSUME IInv, OpenFails
  PROVE  IInv'
BY GivesUp DEF OpenFails

-----------------------------------------------------------------------------
(* Streaming                                                                 *)

\* A session that streams, and where it stands.
LEMMA StreamTypes ==
  ASSUME IInv, pc = "idle"
  PROVE  /\ disc \in Discs /\ Streams
         /\ total_sectors \in Nat \ {0}
         /\ current_sector \in Nat /\ current_sector <= total_sectors
         /\ current_sector <= LargestImage
         /\ LargestImage \in Nat /\ 0 .. LargestImage \subseteq Names
         /\ Names \subseteq Nat
         /\ sectors_per_chunk \in Nat \ {0}
         /\ SplitSectors \in Nat \ {0} /\ SectorSize \in Nat \ {0}
         /\ output_manifest = IF split THEN BuildOutputManifest(total_sectors) ELSE <<>>
<1>1. /\ disc \in Discs /\ Streams /\ total_sectors > 0 /\ total_sectors \in Nat
      /\ current_sector \in 0 .. total_sectors /\ sectors_per_chunk \in Nat \ {0}
  BY DEF IInv, PlanOK, TypeOK
<1>2. SplitSectors \in Nat \ {0} /\ SectorSize \in Nat \ {0} BY ScrubAssumption, XisoAssumption
<1>3. current_sector <= LargestImage
  <2>1. disc.sectors \in Nat /\ disc.sectors <= LargestImage /\ LargestImage \in Nat
    BY <1>1, DiscFacts, NameFacts
  <2>2. CASE mode = "full"
    <3>1. total_sectors <= MaxRebuilt /\ MaxRebuilt \in Nat BY <1>1, <2>2, XisoAssumption DEF IInv, PlanOK
    <3> QED BY <1>1, <2>1, <3>1, NameFacts
  <2>3. CASE mode # "full"
    <3>1. current_sector <= disc.sectors BY <1>1, <2>3 DEF IInv, PlanOK
    <3> QED BY <1>1, <2>1, <3>1
  <2> QED BY <2>2, <2>3
<1> QED BY <1>1, <1>2, <1>3, NameFacts DEF IInv, PlanOK

\* An unsplit image is one file.
LEMMA Unsplit ==
  ASSUME IInv, pc = "idle", ~split
  PROVE  current_entry_name = 0
<1>1. output_manifest = <<>> BY StreamTypes
<1>2. Len(output_manifest) = 0 /\ Max({0 - 1, 0}) = 0 BY <1>1, MaxPair
<1>3. current_entry_name \in 0 .. Max({0 - 1, 0}) BY <1>2 DEF IInv, TypeOK
<1> QED BY <1>2, <1>3

\* The split file at the cursor.
LEMMA SplitFacts ==
  ASSUME IInv, pc = "idle"
  PROVE  /\ SplitIndex \in Nat /\ SplitIndex <= current_sector
         /\ SplitIndex * SplitSectors \in Nat
         /\ (SplitIndex + 1) * SplitSectors = SplitIndex * SplitSectors + SplitSectors
         /\ SplitIndex * SplitSectors <= current_sector
         /\ current_sector < (SplitIndex + 1) * SplitSectors
         /\ EntryName \in Names
<1>1. /\ current_sector \in Nat /\ current_sector <= LargestImage /\ LargestImage \in Nat
      /\ SplitSectors \in Nat \ {0} /\ 0 .. LargestImage \subseteq Names
  BY StreamTypes
<1> DEFINE q == SplitIndex
           x == q * SplitSectors
<1>2. q \in Nat /\ x <= current_sector /\ current_sector < x + SplitSectors
  BY <1>1, DivMod, DivBounds DEF SplitIndex
<1> HIDE DEF q
<1>3. x \in Nat /\ (q + 1) * SplitSectors = x + SplitSectors BY <1>1, <1>2
<1>4. q <= x
  <2>1. q * 1 <= q * SplitSectors
    <3>1. 1 \in Nat /\ SplitSectors \in Nat /\ 1 <= SplitSectors BY <1>1
    <3>2. 1 * q <= SplitSectors * q BY <1>2, <3>1, MultMonotonic
    <3> QED BY <1>2, <3>1, <3>2
  <2> QED BY <1>2, <2>1
<1> HIDE DEF x
<1>5. q <= current_sector BY <1>1, <1>2, <1>3, <1>4
<1>6. EntryName \in Names
  <2>1. q \in Names BY <1>1, <1>2, <1>5
  <2>2. ~split => current_entry_name = 0 BY Unsplit
  <2> QED BY <1>1, <2>1, <2>2 DEF EntryName, q
<1> QED BY <1>2, <1>3, <1>5, <1>6 DEF q, x

\* A chunk has at least a sector and ends within its file and the image.
LEMMA ChunkFacts ==
  ASSUME IInv, pc = "idle", ~IsDone, NEW max \in ChunkLimits
  PROVE  /\ ChunkEnd(max) \in Nat
         /\ current_sector < ChunkEnd(max)
         /\ ChunkEnd(max) <= total_sectors
         /\ split => ChunkEnd(max) <= (SplitIndex + 1) * SplitSectors
<1> DEFINE room == max \div SectorSize
           limit == Min({sectors_per_chunk, Max({room, 1})})
           boundary == (SplitIndex + 1) * SplitSectors
           clamped == IF split THEN Min({limit, boundary - current_sector}) ELSE limit
<1>1. /\ current_sector \in Nat /\ total_sectors \in Nat /\ SectorSize \in Nat \ {0}
      /\ sectors_per_chunk \in Nat \ {0} /\ max \in Nat
  BY StreamTypes, XisoAssumption
<1>2. current_sector < total_sectors BY <1>1 DEF IsDone
<1>3. boundary \in Nat /\ current_sector < boundary BY SplitFacts, StreamTypes
<1>4. room \in Nat BY <1>1, DivMod
<1>5. limit \in Nat \ {0}
  <2> HIDE DEF room
  <2>1. Max({room, 1}) = IF 1 <= room THEN room ELSE 1 BY <1>4, MaxPair
  <2>2. PICK k \in Nat \ {0} : k = Max({room, 1}) BY <1>4, <2>1
  <2>3. Min({sectors_per_chunk, k}) = IF sectors_per_chunk <= k THEN sectors_per_chunk ELSE k
    BY <1>1, MinPair
  <2> QED BY <1>1, <2>2, <2>3
<1>6. ChunkEnd(max) = Min({current_sector + clamped, total_sectors}) BY DEF ChunkEnd
<1> HIDE DEF limit, boundary
<1>7. clamped \in Nat \ {0} /\ (split => clamped <= boundary - current_sector)
  <2>1. boundary - current_sector \in Nat \ {0} BY <1>1, <1>3
  <2>2. Min({limit, boundary - current_sector}) =
      IF limit <= boundary - current_sector THEN limit ELSE boundary - current_sector
    BY <1>5, <2>1, MinPair
  <2> QED BY <1>5, <2>1, <2>2
<1> HIDE DEF clamped
<1>8. Min({current_sector + clamped, total_sectors}) =
    IF current_sector + clamped <= total_sectors THEN current_sector + clamped
    ELSE total_sectors
  <2>1. current_sector + clamped \in Int /\ total_sectors \in Int BY <1>1, <1>7
  <2> QED BY <2>1, MinPair
<1>9. split => ChunkEnd(max) <= boundary BY <1>1, <1>3, <1>6, <1>7, <1>8
<1> QED BY <1>1, <1>2, <1>6, <1>7, <1>8, <1>9 DEF boundary

\* The files before the cursor's hold their share and those behind it nothing.
LEMMA FilledFacts ==
  ASSUME IInv, pc = "idle", split, NEW end \in Nat,
         current_sector <= end, end <= (SplitIndex + 1) * SplitSectors,
         current_sector' = end, split' = split, NEW name \in Nat
  PROVE  /\ name = SplitIndex =>
              /\ Filled(name) = current_sector - SplitIndex * SplitSectors
              /\ Filled(name)' = end - SplitIndex * SplitSectors
         /\ name < SplitIndex => Filled(name) = SplitSectors /\ Filled(name)' = SplitSectors
         /\ name > SplitIndex => Filled(name) = 0 /\ Filled(name)' = 0
<1> DEFINE q == SplitIndex
           x == q * SplitSectors
           a == name * SplitSectors
           b == (name + 1) * SplitSectors
           y == (q + 1) * SplitSectors
<1>1. SplitSectors \in Nat \ {0} /\ current_sector \in Nat /\ q \in Nat BY StreamTypes, SplitFacts
<1>2. x \in Nat /\ y = x + SplitSectors /\ x <= current_sector /\ current_sector < y BY SplitFacts
<1> HIDE DEF q
<1>3. a \in Nat /\ b = a + SplitSectors BY <1>1
<1>4. /\ Filled(name) = IF current_sector <= a THEN 0
                        ELSE IF current_sector <= b THEN current_sector - a ELSE SplitSectors
      /\ Filled(name)' = IF end <= a THEN 0 ELSE IF end <= b THEN end - a ELSE SplitSectors
  BY DEF Filled
<1>5. end <= y BY DEF q
<1>6. ASSUME name = q
      PROVE  Filled(name) = current_sector - x /\ Filled(name)' = end - x
  <2>1. a = x BY <1>6
  <2> HIDE DEF a, b, x, y
  <2> QED BY <1>1, <1>2, <1>3, <1>4, <1>5, <2>1
<1>7. ASSUME name < q
      PROVE  Filled(name) = SplitSectors /\ Filled(name)' = SplitSectors
  <2>1. name + 1 \in Nat /\ name + 1 <= q /\ SplitSectors \in Nat BY <1>1, <1>7
  <2>2. b <= x BY <1>1, <2>1, MultMonotonic
  <2> HIDE DEF a, b, x, y
  <2> QED BY <1>1, <1>2, <1>3, <1>4, <2>2
<1>8. ASSUME name > q
      PROVE  Filled(name) = 0 /\ Filled(name)' = 0
  <2>1. q + 1 \in Nat /\ q + 1 <= name /\ SplitSectors \in Nat BY <1>1, <1>8
  <2>2. y <= a BY <1>1, <2>1, MultMonotonic
  <2> HIDE DEF a, b, x, y
  <2> QED BY <1>1, <1>2, <1>3, <1>4, <1>5, <2>2
<1> QED BY <1>6, <1>7, <1>8 DEF q, x

\* Where a chunk goes: the file at the cursor grows by it, and the place of
\* each of its sectors is what the sector's number gives.
LEMMA ChunkPlaces ==
  ASSUME IInv, pc = "idle", NEW end \in Nat, current_sector < end,
         split => end <= (SplitIndex + 1) * SplitSectors,
         current_sector' = end, split' = split
  PROVE  /\ Filled(EntryName) \in Nat
         /\ \A name \in Nat :
              Filled(name)' = IF name = EntryName THEN Filled(name) + (end - current_sector)
                              ELSE Filled(name)
         /\ \A s \in current_sector .. end - 1 :
              /\ EntryName = (IF split THEN s \div SplitSectors ELSE 0)
              /\ Filled(EntryName) + (s - current_sector) =
                   (IF split THEN (s % SplitSectors) ELSE s)
<1>1. current_sector \in Nat /\ SplitSectors \in Nat \ {0} BY StreamTypes
<1>2. CASE ~split
  <2>1. EntryName = 0 BY <1>2, Unsplit DEF EntryName
  <2>2. \A name : /\ Filled(name) = IF name = 0 THEN current_sector ELSE 0
                  /\ Filled(name)' = IF name = 0 THEN end ELSE 0
    BY <1>2 DEF Filled
  <2>3. Filled(EntryName) = current_sector BY <2>1, <2>2
  <2>4. \A name \in Nat :
      Filled(name)' = IF name = EntryName THEN Filled(name) + (end - current_sector)
                      ELSE Filled(name)
    BY <1>1, <2>1, <2>2
  <2>5. \A s \in current_sector .. end - 1 : current_sector + (s - current_sector) = s BY <1>1
  <2> QED BY <1>1, <1>2, <2>1, <2>3, <2>4, <2>5
<1>3. CASE split
  <2> DEFINE q == SplitIndex
             x == q * SplitSectors
             y == (q + 1) * SplitSectors
  <2>1. /\ q \in Nat /\ EntryName = q /\ x \in Nat
        /\ x <= current_sector /\ y = x + SplitSectors
    BY <1>3, SplitFacts DEF EntryName
  <2>2. \A name \in Nat : name = q => /\ Filled(name) = current_sector - x
                                      /\ Filled(name)' = end - x
    BY <1>1, <1>3, <2>1, FilledFacts
  <2>3. ASSUME NEW name \in Nat, name # q PROVE Filled(name)' = Filled(name)
    <3>1. name < q \/ name > q BY <2>1, <2>3
    <3> QED BY <1>1, <1>3, <3>1, FilledFacts
  <2>4. end <= y BY <1>3
  <2>5. ASSUME NEW s \in current_sector .. end - 1
        PROVE  s \div SplitSectors = q /\ (s % SplitSectors) = s - x /\ s \in Nat
    <3>1. s \in Nat /\ x <= s /\ s < x + SplitSectors
      <4> HIDE DEF x, y
      <4> QED BY <1>1, <2>1, <2>4
    <3> HIDE DEF q
    <3>2. s \div SplitSectors = q /\ (s % SplitSectors) = s - q * SplitSectors
      BY <1>1, <2>1, <3>1, DivUnique
    <3> QED BY <3>1, <3>2
  <2> HIDE DEF q, x, y
  <2>6. Filled(q) = current_sector - x BY <2>1, <2>2
  <2>7. Filled(q) \in Nat BY <1>1, <2>1, <2>6
  <2>8. \A s \in current_sector .. end - 1 : Filled(q) + (s - current_sector) = s - x
    BY <1>1, <2>1, <2>5, <2>6
  <2>9. \A name \in Nat :
      Filled(name)' = IF name = q THEN Filled(name) + (end - current_sector) ELSE Filled(name)
    BY <1>1, <2>1, <2>2, <2>3
  <2> QED BY <1>3, <2>1, <2>5, <2>7, <2>8, <2>9
<1> QED BY <1>2, <1>3

\* The files after a chunk.
LEMMA NextChunkWritten ==
  ASSUME IInv, NEW max \in ChunkLimits, NextChunk(max)
  PROVE  /\ written' \in [Names -> Nat]
         /\ WrittenOK'
<1> DEFINE end == ChunkEnd(max)
           k == end - current_sector
<1>1. /\ pc = "idle" /\ ~IsDone /\ current_sector' = end /\ split' = split
      /\ written' = [written EXCEPT ![EntryName] = @ + k * SectorSize]
  BY DEF NextChunk
<1>2. /\ end \in Nat /\ current_sector < end /\ current_sector \in Nat
      /\ split => end <= (SplitIndex + 1) * SplitSectors
  BY <1>1, ChunkFacts, StreamTypes
<1>3. /\ SectorSize \in Nat /\ EntryName \in Names /\ Names \subseteq Nat BY <1>1, SplitFacts, StreamTypes
<1> HIDE DEF end
<1>4. /\ Filled(EntryName) \in Nat
      /\ \A name \in Nat : Filled(name)' = IF name = EntryName THEN Filled(name) + k
                                            ELSE Filled(name)
  BY <1>1, <1>2, ChunkPlaces
<1>5. k \in Nat BY <1>2
<1> HIDE DEF k
<1>6. /\ written \in [Names -> Nat]
      /\ \A name \in Names : written[name] = Filled(name) * SectorSize
  BY DEF IInv, TypeOK, WrittenOK
<1>7. k * SectorSize \in Nat BY <1>3, <1>5
<1>8. written' \in [Names -> Nat]
  <2> DEFINE n == k * SectorSize
  <2>1. n \in Nat /\ written' = [written EXCEPT ![EntryName] = @ + n] BY <1>1, <1>7
  <2> HIDE DEF n
  <2>2. written[EntryName] + n \in Nat BY <1>3, <1>6, <2>1
  <2> QED BY <1>3, <1>6, <2>1, <2>2
<1>9. ASSUME NEW name \in Names
      PROVE  written'[name] = Filled(name)' * SectorSize
  <2>1. CASE name = EntryName
    <3>1. written'[name] = Filled(name) * SectorSize + k * SectorSize BY <1>1, <1>6, <2>1
    <3>2. PICK f \in Nat : f = Filled(name) BY <1>4, <2>1
    <3>a. Filled(name)' = f + k BY <1>3, <1>4, <2>1, <3>2
    <3>3. (f + k) * SectorSize = f * SectorSize + k * SectorSize BY <1>3, <1>5, <3>2
    <3> QED BY <3>1, <3>2, <3>3, <3>a
  <2>2. CASE name # EntryName
    <3>1. written'[name] = written[name] BY <1>1, <1>6, <2>2
    <3>2. Filled(name)' = Filled(name) BY <1>3, <1>4, <2>2
    <3> QED BY <1>6, <3>1, <3>2
  <2> QED BY <2>1, <2>2
<1> QED BY <1>8, <1>9 DEF WrittenOK

\* Which sectors of a streamed image are zeroed.
LEMMA ContentFacts ==
  ASSUME IInv, pc = "idle", NEW s \in Nat, s < total_sectors
  PROVE  Content(s) = IF mode = "zero" /\ ~X360 /\ ~Needed(s) THEN "zero" ELSE "image"
<1>1. disc \in Discs /\ Streams /\ total_sectors > 0 /\ total_sectors \in Nat
  BY StreamTypes DEF IInv, PlanOK
<1>2. Needed(s) <=> s \in UsedSectors BY <1>1, UsedIsNeeded
<1>3. CASE mode = "zero"
  <2>1. total_sectors = FullSectors /\ zero_sectors = ZeroMask BY <1>1, <1>3 DEF IInv, PlanOK
  <2>2. s \in 0 .. FullSectors - 1 BY <1>1, <2>1
  <2> QED BY <1>2, <1>3, <2>1, <2>2 DEF Content, ZeroMask
<1>4. CASE mode # "zero"
  <2>1. zero_sectors = {} BY <1>1, <1>4 DEF IInv, PlanOK
  <2> QED BY <1>4, <2>1 DEF Content
<1> QED BY <1>3, <1>4

\* The sectors after a chunk.
LEMMA NextChunkLanded ==
  ASSUME IInv, NEW max \in ChunkLimits, NextChunk(max)
  PROVE  /\ landed' \in [0 .. LargestImage - 1 ->
                           [name : Names, offset : Int, content : {"image", "zero"}]]
         /\ SectorsLandInPlace'
<1> DEFINE end == ChunkEnd(max)
           Landing(s) == [name |-> EntryName,
                          offset |-> written[EntryName] + (s - current_sector) * SectorSize,
                          content |-> Content(s)]
<1>1. /\ pc = "idle" /\ ~IsDone /\ current_sector' = end
      /\ UNCHANGED <<disc, mode, split, zero_sectors>>
      /\ landed' = [s \in DOMAIN landed |->
                      IF s \in current_sector .. end - 1 THEN Landing(s) ELSE landed[s]]
  BY DEF NextChunk, scrubVars, planVars
<1>2. /\ end \in Nat /\ current_sector < end /\ end <= total_sectors
      /\ current_sector \in Nat
      /\ split => end <= (SplitIndex + 1) * SplitSectors
      /\ total_sectors \in Nat /\ LargestImage \in Nat
  BY <1>1, ChunkFacts, StreamTypes
<1>3. /\ SectorSize \in Nat /\ EntryName \in Names /\ Names \subseteq Nat BY <1>1, SplitFacts, StreamTypes
<1> HIDE DEF end
<1>4. /\ Filled(EntryName) \in Nat
      /\ \A s \in current_sector .. end - 1 :
           /\ EntryName = (IF split THEN s \div SplitSectors ELSE 0)
           /\ Filled(EntryName) + (s - current_sector) =
                (IF split THEN (s % SplitSectors) ELSE s)
  BY <1>1, <1>2, ChunkPlaces
<1>5. written[EntryName] = Filled(EntryName) * SectorSize BY <1>3 DEF IInv, WrittenOK
<1>6. landed \in [0 .. LargestImage - 1 ->
    [name : Names, offset : Int, content : {"image", "zero"}]]
  BY DEF IInv, TypeOK
<1>7. ASSUME NEW s \in current_sector .. end - 1
      PROVE  /\ s \in Nat /\ s < total_sectors
             /\ Landing(s).name = (IF split THEN s \div SplitSectors ELSE 0)
             /\ Landing(s).offset = SectorSize * (IF split THEN (s % SplitSectors) ELSE s)
             /\ Landing(s).offset \in Nat
             /\ Landing(s).content =
                  (IF mode = "zero" /\ ~X360 /\ ~Needed(s) THEN "zero" ELSE "image")
  <2>1. s \in Nat /\ s < total_sectors /\ s - current_sector \in Nat BY <1>2
  <2> DEFINE f == Filled(EntryName)
             d == s - current_sector
             place == IF split THEN (s % SplitSectors) ELSE s
  <2>2. f \in Nat /\ d \in Nat /\ f + d = place BY <1>4, <2>1
  <2>3. Landing(s).offset = f * SectorSize + d * SectorSize BY <1>5
  <2> HIDE DEF f, d, place
  <2>4. f * SectorSize + d * SectorSize = SectorSize * (f + d) /\ SectorSize * (f + d) \in Nat
    BY <1>3, <2>2
  <2>5. Landing(s).offset = SectorSize * place /\ Landing(s).offset \in Nat BY <2>2, <2>3, <2>4
  <2>6. Content(s) = IF mode = "zero" /\ ~X360 /\ ~Needed(s) THEN "zero" ELSE "image"
    BY <1>1, <2>1, ContentFacts
  <2> QED BY <1>4, <2>1, <2>5, <2>6 DEF place
<1>8. ASSUME NEW s \in current_sector .. end - 1
      PROVE  Landing(s) \in [name : Names, offset : Int, content : {"image", "zero"}]
  BY <1>3, <1>7, <1>8 DEF Content
<1>9. ASSUME NEW s \in current_sector .. end - 1
      PROVE  Landing(s) # Nowhere
  <2>1. Landing(s).offset \in Nat /\ Nowhere.offset = -1 BY <1>7 DEF Nowhere
  <2> HIDE DEF Landing
  <2>2. Landing(s).offset # Nowhere.offset BY <2>1
  <2> QED BY <2>2
<1>10. landed' \in [0 .. LargestImage - 1 ->
    [name : Names, offset : Int, content : {"image", "zero"}]]
  <2> HIDE DEF Landing
  <2> QED BY <1>1, <1>6, <1>8
<1>11. SectorsLandInPlace'
  <2>1. \A s : Needed(s)' <=> Needed(s) BY <1>1, SearchStays
  <2>2. X360' <=> X360 BY <1>1, DiscStays
  <2>3. ASSUME NEW s \in DOMAIN landed, s \in current_sector .. end - 1
        PROVE  /\ landed'[s] # Nowhere /\ s < end
               /\ landed'[s].name = (IF split THEN s \div SplitSectors ELSE 0)
               /\ landed'[s].offset = SectorSize * (IF split THEN (s % SplitSectors) ELSE s)
               /\ landed'[s].content =
                    (IF mode = "zero" /\ ~X360 /\ ~Needed(s) THEN "zero" ELSE "image")
    <3>1. landed'[s] = Landing(s) /\ s < end BY <1>1, <1>2, <2>3
    <3> HIDE DEF Landing
    <3> QED BY <1>7, <1>9, <2>3, <3>1
  <2>4. ASSUME NEW s \in DOMAIN landed, s \notin current_sector .. end - 1
        PROVE  landed'[s] = landed[s] /\ (s < end <=> s < current_sector)
    <3>1. s \in Nat BY <1>2, <1>6
    <3> QED BY <1>1, <1>2, <2>4, <3>1
  <2>5. SectorsLandInPlace BY DEF IInv
  <2>6. DOMAIN landed' = DOMAIN landed BY <1>1
  <2> HIDE DEF Landing
  <2> QED BY <1>1, <2>1, <2>2, <2>3, <2>4, <2>5, <2>6 DEF SectorsLandInPlace
<1> QED BY <1>10, <1>11

\* The name that a call sets is one of the manifest's.
LEMMA EntryNameBound ==
  ASSUME IInv, pc = "idle", ~IsDone
  PROVE  EntryName \in 0 .. Max({Len(output_manifest) - 1, 0})
<1>1. /\ total_sectors \in Nat \ {0} /\ current_sector \in Nat /\ current_sector < total_sectors
      /\ SplitSectors \in Nat \ {0}
      /\ output_manifest = IF split THEN BuildOutputManifest(total_sectors) ELSE <<>>
  BY StreamTypes DEF IsDone
<1>2. CASE ~split BY <1>2, Unsplit DEF EntryName, IInv, TypeOK
<1>3. CASE split
  <2> DEFINE n == CeilDiv(total_sectors, SplitSectors)
             q == SplitIndex
             x == q * SplitSectors
             z == n * SplitSectors
  <2>1. Len(output_manifest) = n /\ n \in Nat \ {0} /\ total_sectors <= z
    BY <1>1, <1>3, ManifestFacts, CeilDivFacts
  <2>2. q \in Nat /\ x \in Nat /\ x <= current_sector /\ EntryName = q BY <1>3, SplitFacts DEF EntryName
  <2> HIDE DEF n, q
  <2>3. z \in Nat BY <1>1, <2>1
  <2>4. ASSUME n <= q PROVE FALSE
    <3>1. z <= x BY <1>1, <2>1, <2>2, <2>4, MultMonotonic
    <3> HIDE DEF x, z
    <3> QED BY <1>1, <2>1, <2>2, <2>3, <3>1
  <2>5. Max({n - 1, 0}) = n - 1
    <3>1. n - 1 \in Int /\ 0 <= n - 1 BY <2>1
    <3> QED BY <3>1, MaxPair
  <2>6. q <= n - 1 BY <2>1, <2>2, <2>4
  <2> QED BY <2>1, <2>2, <2>5, <2>6
<1> QED BY <1>2, <1>3

LEMMA NextChunkIInv ==
  ASSUME IInv, NEW max \in ChunkLimits, NextChunk(max)
  PROVE  IInv'
<1>1. /\ pc = "idle" /\ ~IsDone /\ Readable(ChunkEnd(max))
      /\ current_sector' = ChunkEnd(max) /\ current_entry_name' = EntryName
      /\ UNCHANGED <<disc, mode, pc, sector_index, run_start, total_sectors, zero_sectors,
                     split, sectors_per_chunk, output_manifest, failures>>
  BY DEF NextChunk, scrubVars, scanVars, planVars
<1>2. /\ ChunkEnd(max) \in Nat /\ ChunkEnd(max) <= total_sectors /\ total_sectors \in Nat
  BY <1>1, ChunkFacts, StreamTypes
<1>3. TypeOK'
  <2>1. LastScanned' = LastScanned BY <1>1, DiscStays
  <2>2. current_sector' \in 0 .. total_sectors BY <1>1, <1>2
  <2>3. current_entry_name' \in 0 .. Max({Len(output_manifest) - 1, 0}) BY <1>1, EntryNameBound
  <2> QED BY <1>1, <2>1, <2>2, <2>3, NextChunkWritten, NextChunkLanded DEF IInv, TypeOK
<1>4. PlanOK'
  <2>1. Streams /\ Streams' /\ total_sectors > 0 /\ disc \in Discs BY <1>1 DEF IInv, PlanOK, Streams
  <2>2. BuildOutputManifest(total_sectors)' = BuildOutputManifest(total_sectors)
    BY <1>1 DEF BuildOutputManifest
  <2>3. mode # "full" => current_sector' <= disc.sectors BY <1>1 DEF Readable
  <2> QED BY <1>1, <2>1, <2>2, <2>3, DiscStays DEF IInv, PlanOK
<1>5. SearchOK' BY <1>1 DEF SearchOK
<1> QED BY <1>3, <1>4, <1>5, NextChunkWritten, NextChunkLanded DEF IInv

\* A call that throws only names its file.
LEMMA ThrowIInv ==
  ASSUME IInv, Throw
  PROVE  IInv'
<1>1. /\ pc = "idle" /\ ~IsDone /\ pc' \in {"idle", "failed"}
      /\ failures' = failures + 1 /\ failures < MaxFailures
      /\ current_entry_name' = EntryName
      /\ UNCHANGED <<disc, mode, sector_index, run_start, total_sectors, zero_sectors,
                     split, sectors_per_chunk, current_sector, output_manifest,
                     written, landed>>
  BY DEF Throw, scanVars, planVars
<1>2. TypeOK'
  <2>1. LastScanned' = LastScanned BY <1>1, DiscStays
  <2>2. current_entry_name' \in 0 .. Max({Len(output_manifest) - 1, 0}) BY <1>1, EntryNameBound
  <2>3. failures' \in 0 .. MaxFailures BY <1>1, XisoAssumption DEF IInv, TypeOK
  <2> QED BY <1>1, <2>1, <2>2, <2>3 DEF IInv, TypeOK
<1>3. PlanOK'
  <2>1. Streams /\ Streams' /\ total_sectors > 0 /\ disc \in Discs BY <1>1 DEF IInv, PlanOK, Streams
  <2>2. BuildOutputManifest(total_sectors)' = BuildOutputManifest(total_sectors)
    BY <1>1 DEF BuildOutputManifest
  <2> QED BY <1>1, <2>1, <2>2, DiscStays DEF IInv, PlanOK
<1>4. SearchOK' BY <1>1 DEF SearchOK
<1>5. WrittenOK'
  <2>1. \A name : Filled(name)' = Filled(name) BY <1>1 DEF Filled
  <2> QED BY <1>1, <2>1 DEF IInv, WrittenOK
<1>6. SectorsLandInPlace' BY <1>1, SearchStays, DiscStays DEF IInv, SectorsLandInPlace
<1> QED BY <1>2, <1>3, <1>4, <1>5, <1>6 DEF IInv

-----------------------------------------------------------------------------
(* The invariant                                                             *)

LEMMA NextIInv ==
  ASSUME IInv, [Next]_vars
  PROVE  IInv'
<1>1. CASE ScrubStep /\ UNCHANGED <<xisoVars, driverVars>>
  <2>1. CASE PlanNone BY <1>1, <2>1, PlanNoneIInv
  <2>2. CASE PlanWithoutSearch BY <1>1, <2>2, PlanWithoutSearchIInv
  <2>3. CASE BeginSearch BY <1>1, <2>3, BeginSearchIInv
  <2>4. CASE ScanSector BY <1>1, <2>4, ScanSectorIInv
  <2>5. CASE SearchOvershoots BY <1>1, <2>5, ScanReadFailsIInv DEF SearchOvershoots
  <2>6. CASE EndSearch BY <1>1, <2>6, EndSearchIInv
  <2> QED BY <1>1, <2>1, <2>2, <2>3, <2>4, <2>5, <2>6 DEF ScrubStep
<1>2. CASE OpenTrim \/ OpenZero \/ OpenRebuilt BY <1>2, OpenIInv
<1>3. CASE OpenFails BY <1>3, OpenFailsIInv
<1>4. ASSUME NEW max \in ChunkLimits, NextChunk(max) PROVE IInv' BY <1>4, NextChunkIInv
<1>5. CASE ReadBeyondImage \/ ReadFails BY <1>5, ThrowIInv DEF ReadBeyondImage, ReadFails
<1>6. CASE ScanReadFails /\ UNCHANGED <<xisoVars, driverVars>> BY <1>6, ScanReadFailsIInv
<1>7. CASE UNCHANGED vars
  <2> USE DEF vars, scrubVars, scanVars, planVars, xisoVars, driverVars
  <2>1. TypeOK' BY <1>7, DiscStays DEF IInv, TypeOK
  <2>2. PlanOK'
    <3>1. disc' = disc /\ disc \in Discs BY <1>7 DEF IInv, PlanOK
    <3>2. BuildOutputManifest(total_sectors)' = BuildOutputManifest(total_sectors)
      BY <1>7 DEF BuildOutputManifest
    <3>3. /\ Streams' <=> Streams
          /\ NothingOpened' <=> NothingOpened
          /\ Partial' <=> Partial
      BY <1>7 DEF Streams, NothingOpened, Partial
    <3> QED BY <1>7, <3>1, <3>2, <3>3, DiscStays, SearchStays DEF IInv, PlanOK
  <2>3. SearchOK' BY <1>7, DiscStays, SearchStays DEF IInv, SearchOK
  <2>4. WrittenOK'
    <3>1. \A name : Filled(name)' = Filled(name) BY <1>7 DEF Filled
    <3> QED BY <1>7, <3>1 DEF IInv, WrittenOK
  <2>5. SectorsLandInPlace' BY <1>7, DiscStays, SearchStays DEF IInv, SectorsLandInPlace
  <2> QED BY <2>1, <2>2, <2>3, <2>4, <2>5 DEF IInv
<1> QED BY <1>1, <1>2, <1>3, <1>4, <1>5, <1>6, <1>7 DEF Next, Call, Ended

\* The inductive invariant holds in every state of every conversion.
THEOREM Invariant == Spec => []IInv
<1>1. Init => IInv BY InitIInv
<1>2. IInv /\ [Next]_vars => IInv' BY NextIInv
<1> QED BY <1>1, <1>2, PTL DEF Spec

\* For every disc and every scrub mode, a plan cuts off and zeroes no sector
\* with a byte that is needed, and a partial plan spares exactly the security
\* sectors that scan_for_zero_run() has to find.
THEOREM PlansAreSound == Spec => []PlanSound
<1>1. IInv => PlanSound BY PlanKeeps, PlanSpares DEF IInv, PlanSound
<1> QED BY Invariant, <1>1, PTL

\* Every sector of the image is handed over once, in order, into the split
\* file and at the offset its number gives, zeroed or as it is.
THEOREM InPlace == Spec => []SectorsLandInPlace
<1>1. IInv => SectorsLandInPlace BY DEF IInv
<1> QED BY Invariant, <1>1, PTL

-----------------------------------------------------------------------------
(* The session implements PartStream                                         *)

\* Sectors that output file p holds in the end.
Share(p) == IF split THEN FileSectors(total_sectors, p) ELSE total_sectors

\* Output files of a session that streams.
FileCount == IF split THEN CeilDiv(total_sectors, SplitSectors) ELSE 1

\* What the refinement mapping gives for a session that has opened.
LEMMA MappedFacts ==
  ASSUME IInv, Streams, total_sectors > 0, pc \in {"idle", "failed"}
  PROVE  /\ FileCount \in Nat \ {0}
         /\ Promised = [p \in 1 .. FileCount |-> Share(p) * SectorSize]
         /\ HandedOver = [p \in 1 .. FileCount |-> Filled(p - 1) * SectorSize]
         /\ Promised \in Seq(Nat)
         /\ \A p \in 1 .. FileCount : /\ Share(p) \in Nat \ {0}
                                      /\ p - 1 \in Names
<1>1. /\ total_sectors \in Nat \ {0} /\ SplitSectors \in Nat \ {0} /\ SectorSize \in Nat \ {0}
      /\ disc \in Discs
      /\ output_manifest = IF split THEN BuildOutputManifest(total_sectors) ELSE <<>>
  BY ScrubAssumption, XisoAssumption DEF IInv, TypeOK, PlanOK
<1>2. FileCount \in Nat \ {0} BY <1>1, ManifestFacts DEF FileCount
<1>3. Promised = [p \in 1 .. FileCount |-> Share(p) * SectorSize]
  <2>1. CASE split
    <3> DEFINE f == BuildOutputManifest(total_sectors)
    <3>1. f \in Seq(Nat \ {0}) /\ Len(f) = FileCount
          /\ \A p \in 1 .. FileCount : f[p] = Share(p) * SectorSize
      BY <1>1, <2>1, ManifestFacts DEF FileCount, Share
    <3>2. Promised = f BY <1>1, <2>1 DEF Promised
    <3> HIDE DEF f
    <3>3. f = [p \in 1 .. FileCount |-> f[p]] BY <3>1
    <3> QED BY <3>1, <3>2, <3>3
  <2>2. CASE ~split
    <3>1. Promised = <<total_sectors * SectorSize>> BY <1>1, <2>2 DEF Promised
    <3>2. FileCount = 1 /\ \A p : Share(p) = total_sectors BY <2>2 DEF FileCount, Share
    <3> QED BY <3>1, <3>2
  <2> QED BY <2>1, <2>2
<1>4. \A p \in 1 .. FileCount : Share(p) \in Nat \ {0} BY <1>1, FileSectorsFacts DEF FileCount, Share
<1>5. Promised \in Seq(Nat)
  <2>1. \A p \in 1 .. FileCount : Share(p) * SectorSize \in Nat BY <1>1, <1>4
  <2> QED BY <1>2, <1>3, <2>1
<1>6. \A p \in 1 .. FileCount : p - 1 \in Names
  <2>1. CASE ~split
    <3>1. \A p \in 1 .. FileCount : p - 1 = 0 BY <2>1 DEF FileCount
    <3> QED BY <3>1, NameFacts
  <2>2. CASE split
    <3>1. FileCount <= total_sectors
      <4>1. total_sectors <= total_sectors * SplitSectors
        <5>1. 1 \in Nat /\ 1 <= SplitSectors /\ SplitSectors \in Nat /\ total_sectors \in Nat BY <1>1
        <5>2. 1 * total_sectors <= SplitSectors * total_sectors BY <5>1, MultMonotonic
        <5> QED BY <1>1, <5>2
      <4> QED BY <1>1, <2>2, <4>1, CeilDivLeast DEF FileCount
    <3>2. 0 .. total_sectors - 1 \subseteq Names
      <4>1. LargestImage \in Nat /\ disc.sectors \in Nat /\ disc.sectors <= LargestImage
        BY <1>1, DiscFacts, NameFacts
      <4>2. CASE total_sectors <= LargestImage BY <1>1, <4>1, <4>2, NameFacts
      <4>3. CASE total_sectors > LargestImage
        <5>1. mode # "full"
          <6>1. MaxRebuilt \in Nat /\ MaxRebuilt <= LargestImage BY XisoAssumption, NameFacts
          <6> QED BY <1>1, <4>1, <4>3, <6>1 DEF IInv, PlanOK
        <5>2. mode # "zero" BY <1>1, <4>1, <4>3, FullIsWhole DEF IInv, PlanOK
        <5>3. ~ScanFails /\ total_sectors = TrimTotal BY <5>1, <5>2 DEF IInv, PlanOK
        <5>4. PICK e \in disc.entries : e.sector = total_sectors BY <1>1, <4>1, <4>3, <5>3, TrimFacts
        <5>5. e \in Entries BY <1>1, DiscFacts
        <5> QED BY <1>1, <5>4, <5>5, NameFacts
      <4> QED BY <1>1, <4>1, <4>2, <4>3
    <3> QED BY <1>1, <1>2, <3>1, <3>2
  <2> QED BY <2>1, <2>2
<1>7. HandedOver = [p \in 1 .. FileCount |-> Filled(p - 1) * SectorSize]
  <2>1. HandedOver = [p \in 1 .. FileCount |-> written[p - 1]] BY <1>3 DEF HandedOver
  <2>2. \A p \in 1 .. FileCount : written[p - 1] = Filled(p - 1) * SectorSize BY <1>6 DEF IInv, WrittenOK
  <2> QED BY <2>1, <2>2
<1> QED BY <1>2, <1>3, <1>4, <1>5, <1>6, <1>7

LEMMA MappedFactsNext ==
  (IInv /\ Streams /\ total_sectors > 0 /\ pc \in {"idle", "failed"} =>
     /\ FileCount \in Nat \ {0}
     /\ Promised = [p \in 1 .. FileCount |-> Share(p) * SectorSize]
     /\ HandedOver = [p \in 1 .. FileCount |-> Filled(p - 1) * SectorSize]
     /\ Promised \in Seq(Nat))'
<1>1. IInv /\ Streams /\ total_sectors > 0 /\ pc \in {"idle", "failed"} =>
        /\ FileCount \in Nat \ {0}
        /\ Promised = [p \in 1 .. FileCount |-> Share(p) * SectorSize]
        /\ HandedOver = [p \in 1 .. FileCount |-> Filled(p - 1) * SectorSize]
        /\ Promised \in Seq(Nat)
  BY MappedFacts
<1> QED BY <1>1, PTL

\* A plan for another format, which promises nothing, is a Publish.
LEMMA PlanPublishes ==
  ASSUME pc \in {"opening", "scanning"}, pc' = "planned"
  PROVE  Stream!Publish
<1>1. Phase = "planning" /\ Phase' = "done" BY DEF Phase
<1>2. Promised' = <<>> BY DEF Promised
<1>3. HandedOver' = <<>> BY <1>2 DEF HandedOver
<1>4. <<>> \in Seq(Nat) /\ [p \in DOMAIN <<>> |-> 0] = <<>> OBVIOUS
<1> QED BY <1>1, <1>2, <1>3, <1>4 DEF Stream!Publish, Stream!Complete

\* Giving up before the session is open is a Fail.
LEMMA GivingUpFails ==
  ASSUME IInv, pc \in {"opening", "scanning"}, pc' = "failed", total_sectors' = total_sectors
  PROVE  Stream!Fail
<1>1. Phase = "planning" /\ Phase' = "failed" BY DEF Phase
<1>2. Promised = <<>> /\ Promised' = <<>> BY DEF Promised, IInv, PlanOK, NothingOpened
<1>3. HandedOver = <<>> /\ HandedOver' = <<>> BY <1>2 DEF HandedOver
<1> QED BY <1>1, <1>2, <1>3 DEF Stream!Fail

\* Opening publishes the manifest; nothing is handed over yet.
LEMMA OpeningPublishes ==
  ASSUME IInv, IInv', pc = "opening", pc' = "idle", current_sector' = 0
  PROVE  Stream!Publish
<1>1. Streams' /\ total_sectors' > 0 /\ total_sectors' \in Nat BY DEF IInv, PlanOK, TypeOK
<1>2. /\ FileCount' \in Nat \ {0}
      /\ Promised' = [p \in 1 .. FileCount' |-> Share(p)' * SectorSize]
      /\ HandedOver' = [p \in 1 .. FileCount' |-> Filled(p - 1)' * SectorSize]
      /\ Promised' \in Seq(Nat)
  BY <1>1, MappedFactsNext
<1>3. Phase = "planning" /\ Phase' = "streaming" BY <1>1 DEF Phase, IsDone
<1>4. ASSUME NEW p \in 1 .. FileCount' PROVE Filled(p - 1)' * SectorSize = 0
  <2>1. p - 1 \in Nat /\ SplitSectors \in Nat /\ SectorSize \in Nat
    BY <1>2, ScrubAssumption, XisoAssumption
  <2>2. Filled(p - 1)' = 0 BY <2>1 DEF Filled
  <2> QED BY <2>1, <2>2
<1>5. HandedOver' = [p \in DOMAIN Promised' |-> 0] BY <1>2, <1>4
<1> QED BY <1>2, <1>3, <1>5 DEF Stream!Publish

\* The file a chunk goes to, in terms of what every file holds in the end.
LEMMA ChunkShares ==
  ASSUME IInv, NEW max \in ChunkLimits, NextChunk(max)
  PROVE  \E cur \in 1 .. FileCount :
           /\ cur \in Nat
           /\ \A p \in 1 .. FileCount :
                /\ p \in Nat /\ Filled(p - 1) \in Nat /\ Filled(p - 1)' \in Nat
                /\ p < cur => Filled(p - 1) = Share(p)
                /\ p > cur => Filled(p - 1) = 0
                /\ p # cur => Filled(p - 1)' = Filled(p - 1)
                /\ p = cur =>
                     /\ Filled(p - 1) <= Filled(p - 1)'
                     /\ Filled(p - 1)' <= Share(p)
                     /\ current_sector' = total_sectors => Filled(p - 1)' = Share(p)
                /\ current_sector' = total_sectors => p <= cur
<1>1. /\ pc = "idle" /\ ~IsDone /\ current_sector' = ChunkEnd(max) /\ split' = split BY DEF NextChunk
<1>2. PICK end \in Nat : end = ChunkEnd(max) BY <1>1, ChunkFacts
<1>3. /\ current_sector' = end /\ current_sector < end /\ end <= total_sectors
      /\ current_sector \in Nat /\ total_sectors \in Nat \ {0}
      /\ SplitSectors \in Nat \ {0} /\ SplitSectors \in Nat
      /\ split => end <= (SplitIndex + 1) * SplitSectors
  BY <1>1, <1>2, ChunkFacts, StreamTypes
<1>4. CASE ~split
  <2>1. FileCount = 1 /\ \A p : Share(p) = total_sectors BY <1>4 DEF FileCount, Share
  <2>2. \A p \in 1 .. FileCount : p = 1 /\ Filled(p - 1) = current_sector
                                       /\ Filled(p - 1)' = end
    BY <1>1, <1>3, <1>4, <2>1 DEF Filled
  <2> QED BY <1>3, <2>1, <2>2
<1>5. CASE split
  <2> DEFINE n == CeilDiv(total_sectors, SplitSectors)
  <2>1. PICK q \in Nat : q = SplitIndex BY <1>1, SplitFacts
  <2> DEFINE x == q * SplitSectors
             y == (q + 1) * SplitSectors
  <2>2. /\ x \in Nat /\ y = x + SplitSectors /\ x <= current_sector
        /\ current_sector < y /\ end <= y /\ q + 1 \in Nat
    BY <1>1, <1>3, <1>5, <2>1, SplitFacts
  <2>3. FileCount = n /\ n \in Nat /\ total_sectors <= n * SplitSectors
        /\ n * SplitSectors \in Nat
    <3>1. n \in Nat /\ total_sectors <= n * SplitSectors BY <1>3, CeilDivFacts
    <3> HIDE DEF n
    <3>2. n * SplitSectors \in Nat BY <1>3, <3>1
    <3>3. FileCount = n BY <1>5 DEF FileCount, n
    <3> QED BY <3>1, <3>2, <3>3
  <2>4. q + 1 <= n
    <3>1. ASSUME n <= q PROVE FALSE
      <4>1. n * SplitSectors <= x
        <5> HIDE DEF n
        <5> QED BY <1>3, <2>1, <2>3, <3>1, MultMonotonic
      <4> HIDE DEF x, y, n
      <4> QED BY <1>3, <2>2, <2>3, <4>1
    <3> HIDE DEF n
    <3> QED BY <2>1, <2>3, <3>1
  <2>5. ASSUME end = total_sectors PROVE n <= q + 1 BY <1>3, <2>2, <2>5, CeilDivLeast
  <2>6. ASSUME NEW p \in 1 .. FileCount
        PROVE  /\ p \in Nat /\ Filled(p - 1) \in Nat /\ Filled(p - 1)' \in Nat
               /\ p < q + 1 => Filled(p - 1) = Share(p)
               /\ p > q + 1 => Filled(p - 1) = 0
               /\ p # q + 1 => Filled(p - 1)' = Filled(p - 1)
               /\ p = q + 1 =>
                    /\ Filled(p - 1) <= Filled(p - 1)'
                    /\ Filled(p - 1)' <= Share(p)
                    /\ end = total_sectors => Filled(p - 1)' = Share(p)
    <3>1. p \in 1 .. n BY <2>3
    <3>2. /\ p \in Nat \ {0} /\ p - 1 \in Nat
          /\ Share(p) = IF p * SplitSectors <= total_sectors THEN SplitSectors
                        ELSE total_sectors - (p - 1) * SplitSectors
      <4>1. p \in Nat \ {0} BY <3>1, <1>3, FileSectorsFacts
      <4>2. p - 1 \in Nat BY <4>1
      <4> QED BY <1>3, <1>5, <3>1, <4>1, <4>2, FileSectorsFacts DEF Share
    <3>3. PICK k \in Nat : k = p - 1 BY <3>2
    <3>4. /\ k = q => Filled(k) = current_sector - x /\ Filled(k)' = end - x
          /\ k < q => Filled(k) = SplitSectors /\ Filled(k)' = SplitSectors
          /\ k > q => Filled(k) = 0 /\ Filled(k)' = 0
      BY <1>1, <1>3, <1>5, <2>1, FilledFacts
    <3>5. CASE k = q
      <4>1. p = q + 1 /\ Share(p) = IF y <= total_sectors THEN SplitSectors
                                    ELSE total_sectors - x
        BY <3>2, <3>3, <3>5
      <4> HIDE DEF x, y
      <4> QED BY <1>3, <2>1, <2>2, <3>2, <3>3, <3>4, <3>5, <4>1
    <3>6. CASE k < q
      <4>1. p <= q /\ p \in Nat BY <2>1, <3>2, <3>3, <3>6
      <4>2. p * SplitSectors <= x /\ p * SplitSectors \in Nat BY <1>3, <2>1, <4>1, MultMonotonic
      <4>3. p * SplitSectors <= total_sectors
        <5> DEFINE z == p * SplitSectors
        <5>1. z <= x /\ z \in Nat BY <4>2
        <5> HIDE DEF x, y, z
        <5>2. z <= total_sectors BY <1>3, <2>2, <5>1
        <5> QED BY <5>2 DEF z
      <4>4. Share(p) = SplitSectors BY <3>2, <4>3
      <4> HIDE DEF x, y
      <4> QED BY <1>3, <2>1, <3>2, <3>3, <3>4, <3>6, <4>1, <4>4
    <3>7. CASE k > q
      <4>1. p > q + 1 BY <2>1, <3>2, <3>3, <3>7
      <4> HIDE DEF x, y
      <4> QED BY <2>1, <3>2, <3>3, <3>4, <3>7, <4>1
    <3> QED BY <2>1, <3>5, <3>6, <3>7
  <2>7. q + 1 \in 1 .. FileCount
    <3> HIDE DEF n
    <3> QED BY <2>1, <2>3, <2>4
  <2>8. ASSUME NEW p \in 1 .. FileCount, end = total_sectors PROVE p <= q + 1
    <3>1. n <= q + 1 BY <2>5, <2>8
    <3> HIDE DEF n
    <3> QED BY <2>1, <2>3, <3>1
  <2> HIDE DEF n, x, y
  <2> QED BY <1>3, <2>2, <2>6, <2>7, <2>8
<1> QED BY <1>4, <1>5

\* A chunk is a Deliver of its file.
LEMMA NextChunkDelivers ==
  ASSUME IInv, IInv', NEW max \in ChunkLimits, NextChunk(max)
  PROVE  \E p \in DOMAIN Promised : Stream!Deliver(p)
<1> DEFINE end == ChunkEnd(max)
<1>1. /\ pc = "idle" /\ pc' = "idle" /\ ~IsDone /\ current_sector' = end
      /\ UNCHANGED <<mode, total_sectors, split, output_manifest>>
  BY DEF NextChunk, scrubVars, planVars
<1>2. /\ end \in Nat /\ current_sector < end /\ end <= total_sectors
      /\ current_sector \in Nat /\ total_sectors \in Nat \ {0} /\ Streams
      /\ split => end <= (SplitIndex + 1) * SplitSectors
      /\ SplitSectors \in Nat \ {0} /\ SectorSize \in Nat \ {0} /\ SectorSize \in Nat
  BY <1>1, ChunkFacts, StreamTypes
<1> HIDE DEF end
<1>3. Streams' /\ total_sectors' > 0 /\ FileCount' = FileCount
      /\ \A p : Share(p)' = Share(p)
  BY <1>1, <1>2 DEF Streams, FileCount, Share, FileSectors
<1>4. /\ FileCount \in Nat \ {0}
      /\ Promised = [p \in 1 .. FileCount |-> Share(p) * SectorSize]
      /\ HandedOver = [p \in 1 .. FileCount |-> Filled(p - 1) * SectorSize]
      /\ \A p \in 1 .. FileCount : Share(p) \in Nat \ {0}
  BY <1>1, <1>2, MappedFacts
<1>5. HandedOver' = [p \in 1 .. FileCount |-> Filled(p - 1)' * SectorSize] BY <1>1, <1>3, MappedFactsNext
<1>6. Promised' = Promised BY <1>1, <1>2 DEF Promised
<1>7. PICK cur \in 1 .. FileCount :
    /\ cur \in Nat
    /\ \A p \in 1 .. FileCount :
         /\ p \in Nat /\ Filled(p - 1) \in Nat /\ Filled(p - 1)' \in Nat
         /\ p < cur => Filled(p - 1) = Share(p)
         /\ p > cur => Filled(p - 1) = 0
         /\ p # cur => Filled(p - 1)' = Filled(p - 1)
         /\ p = cur =>
              /\ Filled(p - 1) <= Filled(p - 1)'
              /\ Filled(p - 1)' <= Share(p)
              /\ current_sector' = total_sectors => Filled(p - 1)' = Share(p)
         /\ current_sector' = total_sectors => p <= cur
  BY ChunkShares
<1>8. Phase = "streaming" /\ Phase' \in {"streaming", "done"}
      /\ (Phase' = "done" => end = total_sectors)
  BY <1>1, <1>2 DEF Phase, IsDone
<1>9. DOMAIN Promised = 1 .. FileCount /\ DOMAIN HandedOver = 1 .. FileCount BY <1>4
<1>10. \A q \in DOMAIN Promised : q < cur => HandedOver[q] = Promised[q] BY <1>4, <1>7, <1>9
<1>11. \A q \in DOMAIN Promised : q > cur => HandedOver[q] = 0
  <2>1. 0 * SectorSize = 0 BY <1>2
  <2>2. \A q \in 1 .. FileCount : HandedOver[q] = Filled(q - 1) * SectorSize BY <1>4
  <2> QED BY <1>7, <1>9, <2>1, <2>2
<1> DEFINE size == Filled(cur - 1)' * SectorSize
<1>12. size \in HandedOver[cur] .. Promised[cur]
  <2>1. PICK a \in Nat, b \in Nat, c \in Nat :
      a = Filled(cur - 1) /\ b = Filled(cur - 1)' /\ c = Share(cur)
    BY <1>4, <1>7
  <2>2. a <= b /\ b <= c BY <1>7, <2>1
  <2>3. a * SectorSize <= b * SectorSize /\ b * SectorSize <= c * SectorSize BY <1>2, <2>2, MultMonotonic
  <2>4. HandedOver[cur] = a * SectorSize /\ Promised[cur] = c * SectorSize
        /\ size = b * SectorSize
    BY <1>4, <1>7, <2>1
  <2>5. a * SectorSize \in Nat /\ b * SectorSize \in Nat /\ c * SectorSize \in Nat BY <1>2
  <2> HIDE DEF size
  <2> QED BY <2>3, <2>4, <2>5
<1>13. HandedOver' = [HandedOver EXCEPT ![cur] = size] BY <1>4, <1>5, <1>7
<1>14. Phase' = "done" => HandedOver' = Promised'
  <2>1. ASSUME end = total_sectors, NEW p \in 1 .. FileCount
        PROVE  Filled(p - 1)' = Share(p)
    <3>1. current_sector' = total_sectors BY <1>1, <2>1
    <3>2. p <= cur /\ p \in Nat BY <1>7, <3>1
    <3>3. p = cur \/ p < cur BY <1>7, <3>2
    <3>4. p < cur => p # cur BY <1>7, <3>2
    <3> QED BY <1>7, <3>1, <3>3, <3>4
  <2> QED BY <1>4, <1>5, <1>6, <1>8, <2>1
<1>15. Stream!Deliver(cur)
  BY <1>6, <1>8, <1>10, <1>11, <1>12, <1>13, <1>14 DEF Stream!Deliver, Stream!Complete
<1> QED BY <1>7, <1>9, <1>15

\* A session that opens, plans, streams, throws or ends is PartStream's.
LEMMA StepRefines ==
  ASSUME IInv, IInv', [Next]_vars
  PROVE  [Stream!Next]_(Stream!vars)
<1> USE DEF scrubVars, scanVars, planVars, xisoVars, driverVars
<1>1. CASE ScrubStep /\ UNCHANGED <<xisoVars, driverVars>>
  <2>1. CASE pc \in {"opening", "scanning"} /\ pc' = "planned" BY <2>1, PlanPublishes DEF Stream!Next
  <2>2. CASE pc \in {"opening", "scanning"} /\ pc' = "failed" /\ UNCHANGED planVars
    BY <2>2, GivingUpFails DEF Stream!Next
  <2>3. CASE pc \in {"opening", "scanning"} /\ pc' = "scanning"
    <3>1. Phase' = Phase BY <2>3 DEF Phase
    <3>2. Promised = <<>> /\ Promised' = <<>> BY <2>3 DEF Promised
    <3>3. HandedOver = <<>> /\ HandedOver' = <<>> BY <3>2 DEF HandedOver
    <3> QED BY <3>1, <3>2, <3>3 DEF Stream!vars
  <2>4. \/ pc \in {"opening", "scanning"} /\ pc' = "planned"
        \/ pc \in {"opening", "scanning"} /\ pc' = "failed" /\ UNCHANGED planVars
        \/ pc \in {"opening", "scanning"} /\ pc' = "scanning"
    BY <1>1 DEF ScrubStep, PlanNone, PlanWithoutSearch, BeginSearch, ScanSector, SearchOvershoots,
       ScanReadFails, EndSearch, PlanPartial
  <2> QED BY <2>1, <2>2, <2>3, <2>4
<1>2. CASE OpenTrim \/ OpenZero \/ OpenRebuilt
  <2>1. pc = "opening" /\ pc' = "idle" /\ current_sector' = current_sector
    BY <1>2 DEF OpenTrim, OpenZero, OpenRebuilt, Finish
  <2>2. current_sector = 0 BY <2>1 DEF IInv, PlanOK, NothingOpened
  <2> QED BY <2>1, <2>2, OpeningPublishes DEF Stream!Next
<1>3. CASE OpenFails BY <1>3, GivingUpFails DEF OpenFails, Stream!Next
<1>4. ASSUME NEW max \in ChunkLimits, NextChunk(max)
      PROVE  [Stream!Next]_(Stream!vars)
  BY <1>4, NextChunkDelivers DEF Stream!Next
<1>5. CASE ReadBeyondImage \/ ReadFails
  <2>1. /\ pc = "idle" /\ ~IsDone /\ pc' \in {"idle", "failed"}
        /\ UNCHANGED <<total_sectors, split, current_sector, output_manifest, written>>
    BY <1>5 DEF ReadBeyondImage, ReadFails, Throw
  <2>2. Promised' = Promised BY <2>1 DEF Promised
  <2>3. HandedOver' = HandedOver BY <2>1, <2>2 DEF HandedOver
  <2>4. Phase = "streaming" /\ Phase' \in {"streaming", "failed"} BY <2>1 DEF Phase, IsDone
  <2> QED BY <2>2, <2>3, <2>4 DEF Stream!Next, Stream!Fail, Stream!vars
<1>6. CASE ScanReadFails /\ UNCHANGED <<xisoVars, driverVars>>
  BY <1>6, GivingUpFails DEF ScanReadFails, Stream!Next
<1>7. CASE UNCHANGED vars BY <1>7 DEF vars, Stream!vars, Phase, IsDone, Promised, HandedOver
<1> QED BY <1>1, <1>2, <1>3, <1>4, <1>5, <1>6, <1>7 DEF Next, Call, Ended

\* An XISO session is a PartStream session: open() publishes the manifest, or
\* none, and next_chunk() hands over the promised bytes of one file after the
\* other, whichever calls throw.
THEOREM Refines == Spec => Stream!Spec
<1>1. Init => Stream!Init
  <2> SUFFICES ASSUME Init PROVE Stream!Init OBVIOUS
  <2>1. Phase = "planning" /\ Promised = <<>> BY DEF Init, ScrubInit, Phase, Promised
  <2>2. HandedOver = <<>> BY <2>1 DEF HandedOver
  <2> QED BY <2>1, <2>2 DEF Stream!Init
<1>2. IInv /\ IInv' /\ [Next]_vars => [Stream!Next]_(Stream!vars) BY StepRefines
<1> QED BY Invariant, <1>1, <1>2, PTL DEF Spec, Stream!Spec
=============================================================================
