------------------------------ MODULE GodProofs ------------------------------
(***************************************************************************)
(* Proofs about GodWriter and GodReader, for images of any length and any  *)
(* sizes of blocks, subparts and Data files: the hash chain verifies in    *)
(* the files handed over, the header describes them, the session is a      *)
(* PartStream, and a reader gets every range of the image back.            *)
(*                                                                         *)
(* The layout of an image is a function of its length alone: how long part *)
(* p is, how many subparts it has, how long each is, which block stands    *)
(* where (PartLen, SubCount, SubLen, FileBlock).  The inductive invariant  *)
(* says that the first pass has hashed the layout up to its cursor         *)
(* (HashOK), that the chained tables are those of the layout (PartsOK),    *)
(* and that the files hold the layout up to the streaming cursor           *)
(* (StreamOK).  The reader's remap_sector is then shown to invert it.      *)
(***************************************************************************)
EXTENDS GodReader, CommonLemmas

-----------------------------------------------------------------------------
(* Totals                                                                    *)

\* Total() computes the sum.
LEMMA TotalIsSum ==
  ASSUME NEW n \in Nat, NEW g, HasLen(g, n), \A k \in 1 .. n : g[k] \in Nat
  PROVE  \E S : IsSum(S, g, n) /\ Total(g) = S[n]
<1> DEFINE iter == CHOOSE f : f = [s \in SUBSET (1 .. n) |->
                               IF s = {} THEN 0 ELSE f[s \ {Max(s)}] + g[Max(s)]]
<1>1. DOMAIN g = 1 .. n BY SequenceLength
<1>2. Total(g) = iter[1 .. n] BY <1>1 DEF Total, FoldLeft, MapThenFoldSet
<1> HIDE DEF iter
<1>3. \E S : IsSum(S, g, n) /\ iter[1 .. n] = S[n] BY FoldSums DEF iter
<1> QED BY <1>2, <1>3

\* A sum that is known is the total.
LEMMA TotalBy ==
  ASSUME NEW n \in Nat, NEW g, HasLen(g, n), \A k \in 1 .. n : g[k] \in Nat,
         NEW T, IsSum(T, g, n)
  PROVE  Total(g) = T[n] /\ T[n] \in Nat
<1>1. PICK S : IsSum(S, g, n) /\ Total(g) = S[n] BY TotalIsSum
<1>2. S[n] = T[n] BY <1>1, SumUnique
<1>3. T[n] \in Nat BY DEF IsSum
<1> QED BY <1>1, <1>2, <1>3

\* Totals add up along a concatenation.
LEMMA TotalConcat ==
  ASSUME NEW m, NEW n, NEW g, NEW h, HasLen(g, m), HasLen(h, n),
         \A k \in 1 .. m : g[k] \in Nat, \A k \in 1 .. n : h[k] \in Nat,
         NEW f, IsConcat(f, g, m, h, n)
  PROVE  /\ Total(f) = Total(g) + Total(h)
         /\ Total(g) \in Nat /\ Total(h) \in Nat
<1>0. /\ m \in Nat /\ n \in Nat
      /\ HasLen(f, m + n)
      /\ \A k \in 1 .. m + n : f[k] = IF k <= m THEN g[k] ELSE h[k - m]
  BY DEF IsConcat, HasLen
<1>1. PICK S : IsSum(S, g, m) /\ Total(g) = S[m] BY <1>0, TotalIsSum
<1>2. PICK T : IsSum(T, h, n) /\ Total(h) = T[n] BY <1>0, TotalIsSum
<1> DEFINE U == [k \in 0 .. m + n |-> IF k <= m THEN S[k] ELSE S[m] + T[k - m]]
<1>3. S \in [0 .. m -> Nat] /\ T \in [0 .. n -> Nat] /\ S[0] = 0 /\ T[0] = 0 BY <1>0, <1>1, <1>2 DEF IsSum
<1>4. \A k \in 1 .. m : S[k] = S[k - 1] + g[k] BY <1>0, <1>1 DEF IsSum
<1>5. \A k \in 1 .. n : T[k] = T[k - 1] + h[k] BY <1>0, <1>2 DEF IsSum
<1>6. IsSum(U, f, m + n)
  <2>1. U \in [0 .. m + n -> Nat] /\ U[0] = 0 BY <1>0, <1>3
  <2>2. ASSUME NEW k \in 1 .. m + n
        PROVE  U[k] = U[k - 1] + f[k]
    <3>1. k \in 0 .. m + n /\ k - 1 \in 0 .. m + n BY <1>0
    <3>2. CASE k <= m
      <4>1. k \in 1 .. m /\ k - 1 <= m BY <1>0, <3>2
      <4> QED BY <1>0, <1>4, <3>1, <3>2, <4>1
    <3>3. CASE k = m + 1
      <4>1. U[k] = S[m] + T[1] /\ U[k - 1] = S[m] /\ f[k] = h[1] /\ 1 \in 1 .. n /\ 1 - 1 = 0
        BY <1>0, <3>1, <3>3
      <4>2. T[1] = T[0] + h[1] BY <1>0, <1>5, <4>1
      <4>3. h[1] \in Nat BY <1>0, <4>1
      <4> QED BY <1>0, <1>3, <4>1, <4>2, <4>3
    <3>4. CASE k > m + 1
      <4>1. k - m \in 1 .. n /\ (k - m) - 1 = (k - 1) - m /\ (k - m) - 1 \in 0 .. n BY <1>0, <3>4
      <4>2. U[k] = S[m] + T[k - m] /\ U[k - 1] = S[m] + T[(k - 1) - m] /\ f[k] = h[k - m]
        BY <1>0, <3>1, <3>4
      <4>3. T[k - m] = T[(k - m) - 1] + h[k - m] BY <1>0, <1>5, <4>1
      <4>4. T[(k - m) - 1] \in Nat /\ h[k - m] \in Nat /\ S[m] \in Nat BY <1>0, <1>3, <4>1
      <4> QED BY <1>0, <4>1, <4>2, <4>3, <4>4
    <3> QED BY <1>0, <3>2, <3>3, <3>4
  <2> HIDE DEF U
  <2> QED BY <1>0, <2>1, <2>2 DEF IsSum
<1>7. \A k \in 1 .. m + n : f[k] \in Nat
  <2>1. ASSUME NEW k \in 1 .. m + n PROVE f[k] \in Nat
    <3>1. CASE k <= m BY <1>0, <3>1
    <3>2. CASE ~(k <= m)
      <4>1. k - m \in 1 .. n BY <1>0, <3>2
      <4> QED BY <1>0, <3>2, <4>1
    <3> QED BY <1>0, <3>1, <3>2
  <2> QED BY <1>0, <2>1
<1>8. U[m + n] = S[m] + T[n]
  <2>1. CASE n = 0 BY <1>0, <1>3, <2>1
  <2>2. CASE n # 0 BY <1>0, <1>3, <2>2
  <2> QED BY <1>0, <2>1, <2>2
<1> HIDE DEF U
<1>9. m + n \in Nat BY <1>0
<1>10. Total(f) = U[m + n] BY <1>0, <1>6, <1>7, <1>9, TotalBy
<1> QED BY <1>0, <1>1, <1>2, <1>3, <1>8, <1>10

\* n times the same number.
LEMMA TotalOfEqual ==
  ASSUME NEW n \in Nat, NEW c \in Nat
  PROVE  Total([k \in 1 .. n |-> c]) = n * c
<1> DEFINE g == [k \in 1 .. n |-> c]
           T == [k \in 0 .. n |-> k * c]
<1>1. T \in [0 .. n -> Nat] /\ T[0] = 0 OBVIOUS
<1>2. \A k \in 1 .. n : T[k] = T[k - 1] + g[k] OBVIOUS
<1>3. HasLen(g, n) /\ \A k \in 1 .. n : g[k] \in Nat BY DEF HasLen
<1>4. T[n] = n * c OBVIOUS
<1> HIDE DEF g, T
<1>5. Total(g) = T[n] BY <1>1, <1>2, <1>3, TotalBy DEF IsSum
<1> QED BY <1>4, <1>5 DEF g

-----------------------------------------------------------------------------
(* The layout of an image of D sectors: Data file i, its subpart j.          *)

PartSize == SubpartsPerPart * SubpartSize
PartCount(D) == DivCeil(DivCeil(D, BlockSectors), BlocksPerPart)
PartLen(D, i) == Smaller(PartSize, D - PartStart(i))
SubCount(D, i) == PlannedSubparts(PartLen(D, i))
SubStart(i, j) == PartStart(i) + j * SubpartSize
SubLen(D, i, j) == Smaller(SubpartSize, D - SubStart(i, j))
BlockCount(D, i, j) == DivCeil(SubLen(D, i, j), BlockSectors)

\* How many pieces of size d it takes to hold a.
LEMMA CeilFacts ==
  ASSUME NEW a \in Nat, NEW d \in Nat \ {0}
  PROVE  /\ DivCeil(a, d) \in Nat
         /\ \A m \in Nat : m < DivCeil(a, d) <=> m * d < a
<1> DEFINE q == DivCeil(a, d)
           p == q * d
<1>1. q \in Nat /\ p <= a + d - 1 /\ a + d - 1 < p + d
  <2>1. a + d - 1 \in Nat OBVIOUS
  <2> QED BY <2>1, DivMod, DivBounds DEF DivCeil
<1>2. p \in Nat BY <1>1
<1> HIDE DEF q
<1>3. ASSUME NEW m \in Nat, m < q
      PROVE  m * d < a
  <2>1. (m + 1) * d <= p BY <1>1, <1>3, MultMonotonic
  <2>2. (m + 1) * d = m * d + d /\ m * d \in Nat OBVIOUS
  <2> HIDE DEF p
  <2> QED BY <1>1, <1>2, <2>1, <2>2
<1>4. ASSUME NEW m \in Nat, ~(m < q)
      PROVE  ~(m * d < a)
  <2>1. p <= m * d /\ m * d \in Nat BY <1>1, <1>4, MultMonotonic
  <2> HIDE DEF p
  <2> QED BY <1>1, <1>2, <2>1
<1> QED BY <1>1, <1>3, <1>4 DEF q

\* The sizes are sizes.
LEMMA Sizes ==
  /\ SubpartSize \in Nat \ {0}
  /\ BlocksPerPart \in Nat \ {0}
  /\ PartSize \in Nat \ {0}
  /\ PartSize = BlocksPerPart * BlockSectors
  /\ \A i \in Nat : PartStart(i) = i * PartSize /\ PartStart(i) \in Nat
<1>1. SubpartSize \in Nat \ {0} BY GodAssumption DEF SubpartSize
<1>2. BlocksPerPart \in Nat \ {0} BY GodAssumption DEF BlocksPerPart
<1>3. PartSize \in Nat \ {0} BY <1>1, GodAssumption DEF PartSize
<1>4. PartSize = BlocksPerPart * BlockSectors BY GodAssumption DEF PartSize, BlocksPerPart, SubpartSize
<1>5. ASSUME NEW i \in Nat PROVE PartStart(i) = i * PartSize /\ PartStart(i) \in Nat
  <2>1. PartStart(i) = i * BlocksPerPart * BlockSectors BY DEF PartStart
  <2>2. i * BlocksPerPart * BlockSectors = i * (BlocksPerPart * BlockSectors) BY <1>2, GodAssumption
  <2> QED BY <1>3, <1>4, <2>1, <2>2
<1> QED BY <1>1, <1>2, <1>3, <1>4, <1>5

\* Data file i exists exactly if the image goes on at its start.
LEMMA PartRange ==
  ASSUME NEW D \in Nat \ {0}
  PROVE  /\ PartCount(D) \in Nat \ {0}
         /\ \A i \in Nat : i < PartCount(D) <=> PartStart(i) < D
<1> DEFINE bc == DivCeil(D, BlockSectors)
<1>1. bc \in Nat /\ \A m \in Nat : m < bc <=> m * BlockSectors < D BY CeilFacts, GodAssumption
<1> HIDE DEF bc
<1>2. PartCount(D) = DivCeil(bc, BlocksPerPart) BY DEF PartCount, bc
<1>3. DivCeil(bc, BlocksPerPart) \in Nat
      /\ \A m \in Nat : m < DivCeil(bc, BlocksPerPart) <=> m * BlocksPerPart < bc
  BY <1>1, CeilFacts, Sizes
<1>4. ASSUME NEW i \in Nat
      PROVE  i < PartCount(D) <=> PartStart(i) < D
  <2>1. i * BlocksPerPart \in Nat BY Sizes
  <2>2. i < PartCount(D) <=> (i * BlocksPerPart) * BlockSectors < D BY <1>1, <1>2, <1>3, <2>1
  <2> QED BY <2>2 DEF PartStart
<1>5. PartStart(0) = 0 BY Sizes
<1>6. 0 < PartCount(D) BY <1>4, <1>5
<1> QED BY <1>2, <1>3, <1>4, <1>6

\* Every Data file holds something, and all but the last are full.
LEMMA PartFacts ==
  ASSUME NEW D \in Nat \ {0}, NEW i \in 0 .. PartCount(D) - 1
  PROVE  /\ PartStart(i) \in Nat /\ PartStart(i) < D
         /\ PartLen(D, i) \in 1 .. PartSize
         /\ SubCount(D, i) \in 1 .. SubpartsPerPart
         /\ \A j \in Nat : j < SubCount(D, i) <=> j * SubpartSize < PartLen(D, i)
         /\ \A j \in Nat : j < SubCount(D, i) <=> j < SubpartsPerPart /\ SubStart(i, j) < D
         /\ i + 1 < PartCount(D) => /\ PartLen(D, i) = PartSize
                                    /\ SubCount(D, i) = SubpartsPerPart
<1> DEFINE start == PartStart(i)
           len == PartLen(D, i)
           subs == SubCount(D, i)
           count == PartCount(D)
<1>1. count \in Nat \ {0} /\ i \in Nat /\ i < count /\ \A k \in Nat : k < count <=> PartStart(k) < D
  BY PartRange
<1>2. start \in Nat /\ start < D /\ PartSize \in Nat \ {0} /\ SubpartSize \in Nat \ {0} BY <1>1, Sizes
<1>3. len = IF PartSize <= D - start THEN PartSize ELSE D - start BY DEF PartLen, Smaller
<1>4. len \in 1 .. PartSize BY <1>2, <1>3
<1> HIDE DEF len, start, count
<1>5. subs \in Nat /\ \A j \in Nat : j < subs <=> j * SubpartSize < len
  <2>1. subs = DivCeil(len, SubpartSize) BY DEF SubCount, PlannedSubparts, len
  <2> HIDE DEF subs
  <2>2. len \in Nat BY <1>4, <1>2
  <2> QED BY <1>2, <2>1, <2>2, CeilFacts
<1> HIDE DEF subs
<1>6. 0 < subs
  <2>1. 0 * SubpartSize = 0 /\ 0 < len BY <1>2, <1>4
  <2> QED BY <1>5, <2>1
<1>7. SubpartsPerPart * SubpartSize = PartSize /\ SubpartsPerPart \in Nat BY GodAssumption DEF PartSize
<1>8. ~(SubpartsPerPart < subs)
  <2>1. SubpartsPerPart < subs <=> SubpartsPerPart * SubpartSize < len BY <1>5, <1>7
  <2> QED BY <1>2, <1>4, <1>7, <2>1
<1>9. ASSUME NEW j \in Nat
      PROVE  j < subs <=> j < SubpartsPerPart /\ SubStart(i, j) < D
  <2> DEFINE p == j * SubpartSize
  <2>1. p \in Nat BY <1>2
  <2>2. SubStart(i, j) = start + p BY DEF SubStart, start
  <2>3. j < SubpartsPerPart => p < PartSize
    <3> SUFFICES ASSUME j < SubpartsPerPart PROVE p < PartSize OBVIOUS
    <3>1. (j + 1) * SubpartSize <= SubpartsPerPart * SubpartSize BY <1>2, <1>7, MultMonotonic
    <3>2. (j + 1) * SubpartSize = p + SubpartSize BY <1>2
    <3> HIDE DEF p
    <3> QED BY <1>2, <1>7, <2>1, <3>1, <3>2
  <2>4. ~(j < SubpartsPerPart) => PartSize <= p BY <1>2, <1>7, MultMonotonic
  <2>5. j < subs <=> p < len BY <1>5
  <2> HIDE DEF p
  <2> QED BY <1>2, <1>3, <2>1, <2>2, <2>3, <2>4, <2>5
<1>10. ASSUME i + 1 < count
    PROVE  len = PartSize /\ subs = SubpartsPerPart
  <2>1. PartStart(i + 1) < D /\ PartStart(i + 1) = (i + 1) * PartSize /\ start = i * PartSize
    BY <1>1, <1>10, Sizes DEF start
  <2>2. (i + 1) * PartSize = i * PartSize + PartSize BY <1>1, <1>2
  <2>3. start + PartSize < D BY <2>1, <2>2
  <2>4. len = PartSize BY <1>2, <1>3, <2>3
  <2>5. ~(subs < SubpartsPerPart)
    <3> SUFFICES ASSUME subs < SubpartsPerPart PROVE FALSE OBVIOUS
    <3>1. ~(subs * SubpartSize < PartSize) BY <1>5, <2>4
    <3>2. (subs + 1) * SubpartSize <= SubpartsPerPart * SubpartSize BY <1>2, <1>5, <1>7, MultMonotonic
    <3>3. (subs + 1) * SubpartSize = subs * SubpartSize + SubpartSize /\ subs * SubpartSize \in Nat
      BY <1>2, <1>5
    <3> QED BY <1>2, <1>7, <3>1, <3>2, <3>3
  <2> QED BY <1>5, <1>7, <1>8, <2>4, <2>5
<1> QED BY <1>2, <1>4, <1>5, <1>6, <1>7, <1>8, <1>9, <1>10 DEF len, start, count, subs

\* Every subpart holds something, and all but a file's last are full.
LEMMA SubFacts ==
  ASSUME NEW D \in Nat \ {0}, NEW i \in 0 .. PartCount(D) - 1,
         NEW j \in 0 .. SubCount(D, i) - 1
  PROVE  /\ SubStart(i, j) \in Nat /\ j * SubpartSize \in Nat
         /\ SubStart(i, j) < D /\ j * SubpartSize < PartLen(D, i)
         /\ SubLen(D, i, j) \in 1 .. SubpartSize
         /\ SubLen(D, i, j) = Smaller(SubpartSize, PartLen(D, i) - j * SubpartSize)
         /\ BlockCount(D, i, j) \in 1 .. BlocksPerSubpart
         /\ \A k \in Nat : k < BlockCount(D, i, j) <=> k * BlockSectors < SubLen(D, i, j)
         /\ j + 1 < SubCount(D, i) => /\ SubLen(D, i, j) = SubpartSize
                                      /\ BlockCount(D, i, j) = BlocksPerSubpart
<1> DEFINE start == PartStart(i)
           len == PartLen(D, i)
           subs == SubCount(D, i)
           p == j * SubpartSize
           sl == SubLen(D, i, j)
           bc == BlockCount(D, i, j)
<1>1. /\ start \in Nat /\ start < D /\ len \in 1 .. PartSize /\ subs \in 1 .. SubpartsPerPart
      /\ \A n \in Nat : n < subs <=> n * SubpartSize < len
      /\ \A n \in Nat : n < subs <=> n < SubpartsPerPart /\ SubStart(i, n) < D
  BY PartFacts
<1>2. SubpartSize \in Nat \ {0} /\ PartSize \in Nat \ {0} BY Sizes
<1>3. len = IF PartSize <= D - start THEN PartSize ELSE D - start BY DEF PartLen, Smaller
<1>4. SubStart(i, j) = start + p BY DEF SubStart
<1>5. sl = IF SubpartSize <= D - (start + p) THEN SubpartSize ELSE D - (start + p)
  BY <1>4 DEF SubLen, Smaller
<1> HIDE DEF start, len, subs, sl
<1>6. j \in Nat /\ j < subs /\ p \in Nat BY <1>1, <1>2 DEF subs
<1>7. p < len /\ start + p < D /\ j < SubpartsPerPart BY <1>1, <1>4, <1>6
<1>8. p + SubpartSize <= PartSize
  <2>1. (j + 1) * SubpartSize <= SubpartsPerPart * SubpartSize
    BY <1>2, <1>6, <1>7, GodAssumption, MultMonotonic
  <2>2. (j + 1) * SubpartSize = p + SubpartSize BY <1>2, <1>6
  <2> QED BY <2>1, <2>2 DEF PartSize
<1>9. (j + 1 < subs) => p + SubpartSize < len
  <2>1. (j + 1) * SubpartSize = p + SubpartSize /\ j + 1 \in Nat BY <1>2, <1>6
  <2> QED BY <1>1, <2>1
<1> HIDE DEF p
<1>10. sl \in 1 .. SubpartSize BY <1>1, <1>2, <1>5, <1>6, <1>7
<1>11. sl = Smaller(SubpartSize, len - p) BY <1>1, <1>2, <1>3, <1>5, <1>6, <1>7, <1>8 DEF Smaller
<1>12. j + 1 < subs => sl = SubpartSize BY <1>1, <1>2, <1>9, <1>6, <1>11 DEF Smaller
<1>13. bc \in Nat /\ \A k \in Nat : k < bc <=> k * BlockSectors < sl
  <2>1. bc = DivCeil(sl, BlockSectors) /\ sl \in Nat BY <1>10 DEF BlockCount, sl
  <2> HIDE DEF bc
  <2> QED BY <2>1, CeilFacts, GodAssumption
<1> HIDE DEF bc
<1>14. bc \in 1 .. BlocksPerSubpart
  <2>1. 0 * BlockSectors = 0 /\ 0 < sl BY <1>10, GodAssumption
  <2>2. 0 < bc BY <1>13, <2>1
  <2>3. BlocksPerSubpart * BlockSectors = SubpartSize BY GodAssumption DEF SubpartSize
  <2>4. BlocksPerSubpart < bc <=> BlocksPerSubpart * BlockSectors < sl BY <1>13, GodAssumption
  <2> QED BY <1>2, <1>10, <1>13, <2>2, <2>3, <2>4, GodAssumption
<1>15. sl = SubpartSize => bc = BlocksPerSubpart
  <2> SUFFICES ASSUME sl = SubpartSize, bc < BlocksPerSubpart PROVE FALSE BY <1>14, GodAssumption
  <2>1. ~(bc * BlockSectors < SubpartSize) /\ bc \in Nat BY <1>13, <1>14
  <2>2. (bc + 1) * BlockSectors <= BlocksPerSubpart * BlockSectors BY <2>1, GodAssumption, MultMonotonic
  <2>3. (bc + 1) * BlockSectors = bc * BlockSectors + BlockSectors /\ bc * BlockSectors \in Nat
    BY <2>1, GodAssumption
  <2>4. BlocksPerSubpart * BlockSectors = SubpartSize BY GodAssumption DEF SubpartSize
  <2> QED BY <1>2, <2>1, <2>2, <2>3, <2>4, GodAssumption
<1> QED
  BY <1>1, <1>4, <1>6, <1>7, <1>10, <1>11, <1>12, <1>13, <1>14, <1>15 DEF start, len, subs, p, sl, bc

\* What the first m subparts of a file hold.
Streamed(D, i, m) == Smaller(m * SubpartSize, PartLen(D, i))

\* It grows by a subpart at a time, from nothing to the whole file.
LEMMA StreamedGrows ==
  ASSUME NEW D \in Nat \ {0}, NEW i \in 0 .. PartCount(D) - 1
  PROVE  /\ Streamed(D, i, 0) = 0
         /\ Streamed(D, i, SubCount(D, i)) = PartLen(D, i)
         /\ \A m \in 0 .. SubCount(D, i) : Streamed(D, i, m) \in 0 .. PartLen(D, i)
         /\ \A j \in 0 .. SubCount(D, i) - 1 :
              Streamed(D, i, j + 1) = Streamed(D, i, j) + SubLen(D, i, j)
<1> DEFINE len == PartLen(D, i)
           subs == SubCount(D, i)
<1>1. /\ len \in 1 .. PartSize /\ subs \in 1 .. SubpartsPerPart
      /\ \A n \in Nat : n < subs <=> n * SubpartSize < len
  BY PartFacts
<1>2. SubpartSize \in Nat \ {0} /\ PartSize \in Nat \ {0} BY Sizes
<1>3. \A m : Streamed(D, i, m) = IF m * SubpartSize <= len THEN m * SubpartSize ELSE len
  BY DEF Streamed, Smaller
<1>4. ASSUME NEW j \in 0 .. subs - 1
      PROVE  Streamed(D, i, j + 1) = Streamed(D, i, j) + SubLen(D, i, j)
  <2> DEFINE p == j * SubpartSize
  <2>1. p \in Nat /\ p < len /\ SubLen(D, i, j) = Smaller(SubpartSize, len - p) BY SubFacts
  <2>2. (j + 1) * SubpartSize = p + SubpartSize BY <1>1, <1>2
  <2>3. Streamed(D, i, j) = p BY <1>1, <1>3, <2>1
  <2>4. Streamed(D, i, j + 1) = IF p + SubpartSize <= len THEN p + SubpartSize ELSE len BY <1>3, <2>2
  <2> HIDE DEF p, len
  <2> QED BY <1>1, <1>2, <2>1, <2>3, <2>4 DEF Smaller
<1> HIDE DEF len, subs
<1>5. 0 * SubpartSize = 0 BY <1>2
<1>6. Streamed(D, i, 0) = 0 BY <1>1, <1>3, <1>5
<1>7. Streamed(D, i, subs) = len
  <2>1. subs \in Nat /\ subs * SubpartSize \in Nat /\ len \in Nat BY <1>1, <1>2, GodAssumption
  <2>2. ~(subs * SubpartSize < len) BY <1>1, <2>1
  <2> QED BY <1>3, <2>1, <2>2
<1>8. ASSUME NEW m \in 0 .. subs PROVE Streamed(D, i, m) \in 0 .. len
  <2>1. m \in Nat /\ m * SubpartSize \in Nat /\ len \in Nat BY <1>1, <1>2, GodAssumption
  <2> QED BY <1>3, <2>1
<1> QED BY <1>4, <1>6, <1>7, <1>8 DEF len, subs

\* The planned size of a Data file, a table per subpart and one for the file.
FileSize(D, i) == BlockSectors + SubCount(D, i) * BlockSectors + PartLen(D, i)

LEMMA FileSizes ==
  ASSUME NEW D \in Nat \ {0}, NEW i \in 0 .. PartCount(D) - 1
  PROVE  /\ FileSize(D, i) \in 0 .. FullPartSize
         /\ FullPartSize \in Nat
         /\ i + 1 < PartCount(D) => FileSize(D, i) = FullPartSize
<1> DEFINE len == PartLen(D, i)
           subs == SubCount(D, i)
           t == subs * BlockSectors
           u == SubpartsPerPart * BlockSectors
<1>1. /\ len \in 1 .. PartSize /\ subs \in 1 .. SubpartsPerPart
      /\ i + 1 < PartCount(D) => len = PartSize /\ subs = SubpartsPerPart
  BY PartFacts
<1>2. PartSize \in Nat /\ PartSize = BlocksPerPart * BlockSectors /\ BlocksPerPart \in Nat BY Sizes
<1>3. FullPartSize = BlockSectors + u + PartSize BY <1>2, GodAssumption DEF FullPartSize
<1>4. t <= u /\ t \in Nat /\ u \in Nat BY <1>1, GodAssumption, MultMonotonic
<1>5. i + 1 < PartCount(D) => t = u BY <1>1
<1>6. FileSize(D, i) = BlockSectors + t + len BY DEF FileSize
<1> HIDE DEF len, t, u
<1> QED BY <1>1, <1>2, <1>3, <1>4, <1>5, <1>6, GodAssumption

-----------------------------------------------------------------------------
(* Blocks, tables and what a file holds after its first m subparts.          *)

DataBlock(D, i, j, k) ==
  Data(SubStart(i, j) + (k - 1) * BlockSectors,
       Smaller(BlockSectors, SubLen(D, i, j) - (k - 1) * BlockSectors))

SubTable(D, i, j) == Table([k \in 1 .. BlockCount(D, i, j) |-> Digest(DataBlock(D, i, j, k))])

\* What the three kinds of blocks are made of.
LEMMA Kinds ==
  /\ \A f, l : Data(f, l)[1] = "data" /\ Data(f, l)[2] = f /\ Length(Data(f, l)) = l
  /\ \A h : Table(h)[1] = "table" /\ Table(h)[2] = h /\ Length(Table(h)) = BlockSectors
  /\ \A h : Header(h)[1] = "header" /\ Header(h)[2] = h /\ Length(Header(h)) = HeaderSize
BY DEF Data, Table, Header, Length

\* The blocks of a subpart.
LEMMA BlocksOfSubpart ==
  ASSUME NEW D, NEW i, NEW j
  PROVE  Blocks(SubStart(i, j), SubLen(D, i, j))
           = [k \in 1 .. BlockCount(D, i, j) |-> DataBlock(D, i, j, k)]
BY DEF Blocks, BlockCount, DataBlock

\* The length of each of them.
LEMMA DataBlockLength ==
  ASSUME NEW D \in Nat \ {0}, NEW i \in 0 .. PartCount(D) - 1,
         NEW j \in 0 .. SubCount(D, i) - 1, NEW k \in 1 .. BlockCount(D, i, j)
  PROVE  /\ (k - 1) * BlockSectors \in Nat
         /\ (k - 1) * BlockSectors < SubLen(D, i, j)
         /\ Length(DataBlock(D, i, j, k))
              = Smaller(BlockSectors, SubLen(D, i, j) - (k - 1) * BlockSectors)
         /\ Length(DataBlock(D, i, j, k)) \in 1 .. BlockSectors
<1> DEFINE sl == SubLen(D, i, j)
           p == (k - 1) * BlockSectors
<1>1. BlockCount(D, i, j) \in Nat /\ sl \in Nat
      /\ \A n \in Nat : n < BlockCount(D, i, j) <=> n * BlockSectors < sl
  BY SubFacts, Sizes
<1>2. k - 1 \in Nat /\ k - 1 < BlockCount(D, i, j) BY <1>1
<1>3. p \in Nat /\ p < sl BY <1>1, <1>2, GodAssumption
<1>4. Length(DataBlock(D, i, j, k)) = Smaller(BlockSectors, sl - p) BY Kinds DEF DataBlock
<1> HIDE DEF p, sl
<1>5. Smaller(BlockSectors, sl - p) \in 1 .. BlockSectors BY <1>1, <1>3, GodAssumption DEF Smaller
<1> QED BY <1>3, <1>4, <1>5 DEF p, sl

\* In all, the subpart.
LEMMA SubpartSizeOf ==
  ASSUME NEW D \in Nat \ {0}, NEW i \in 0 .. PartCount(D) - 1,
         NEW j \in 0 .. SubCount(D, i) - 1
  PROVE  Total([k \in 1 .. BlockCount(D, i, j) |-> Length(DataBlock(D, i, j, k))])
           = SubLen(D, i, j)
<1> DEFINE sl == SubLen(D, i, j)
           n == BlockCount(D, i, j)
           g == [k \in 1 .. n |-> Length(DataBlock(D, i, j, k))]
           T == [k \in 0 .. n |-> Smaller(k * BlockSectors, sl)]
<1>1. n \in Nat \ {0} /\ sl \in Nat \ {0}
      /\ \A m \in Nat : m < n <=> m * BlockSectors < sl
  <2>1. n \in 1 .. BlocksPerSubpart /\ sl \in 1 .. SubpartSize BY SubFacts
  <2>2. \A m \in Nat : m < n <=> m * BlockSectors < sl BY SubFacts
  <2> HIDE DEF n, sl
  <2> QED BY <2>1, <2>2, Sizes, GodAssumption
<1>2. ASSUME NEW k \in 1 .. n
      PROVE  g[k] = Smaller(BlockSectors, sl - (k - 1) * BlockSectors) /\ g[k] \in Nat
  BY DataBlockLength, GodAssumption
<1> HIDE DEF sl, n
<1>3. ASSUME NEW k \in 0 .. n PROVE T[k] \in Nat
  <2>1. k * BlockSectors \in Nat BY <1>1, GodAssumption
  <2> QED BY <1>1, <2>1 DEF Smaller
<1>4. T[0] = 0
  <2>1. 0 * BlockSectors = 0 /\ 0 \in 0 .. n BY <1>1, GodAssumption
  <2> QED BY <1>1, <2>1 DEF Smaller
<1>5. ASSUME NEW k \in 1 .. n
      PROVE  T[k] = T[k - 1] + g[k]
  <2> DEFINE p == (k - 1) * BlockSectors
  <2>1. k - 1 \in Nat /\ k - 1 < n /\ k \in 0 .. n /\ k - 1 \in 0 .. n BY <1>1
  <2>2. p \in Nat /\ p < sl /\ k * BlockSectors = p + BlockSectors BY <1>1, <2>1, GodAssumption
  <2>3. T[k] = Smaller(p + BlockSectors, sl) /\ T[k - 1] = Smaller(p, sl) BY <2>1, <2>2
  <2>4. g[k] = Smaller(BlockSectors, sl - p) BY <1>2
  <2> HIDE DEF p, T, g
  <2> QED BY <1>1, <2>2, <2>3, <2>4, GodAssumption DEF Smaller
<1>6. T[n] = sl
  <2>1. ~(n * BlockSectors < sl) /\ n * BlockSectors \in Nat /\ n \in 0 .. n BY <1>1, GodAssumption
  <2> QED BY <1>1, <2>1 DEF Smaller
<1>7. HasLen(g, n) BY <1>1 DEF HasLen
<1>8. T \in [0 .. n -> Nat] BY <1>3
<1> HIDE DEF g, T
<1>9. Total(g) = T[n]
  <2>1. IsSum(T, g, n) BY ONLY <1>4, <1>5, <1>8 DEF IsSum
  <2>2. n \in Nat /\ \A k \in 1 .. n : g[k] \in Nat BY ONLY <1>1, <1>2
  <2> QED BY ONLY <1>7, <2>1, <2>2, TotalBy
<1> QED BY <1>6, <1>9 DEF g, n, sl

\* The place of subpart j's table in a file, and the place behind the last
\* block of the first m subparts.
Width == BlocksPerSubpart + 1
TablePlace(j) == 2 + j * Width
FileLen(D, i, m) ==
  IF m = 0 THEN 1 ELSE TablePlace(m - 1) + BlockCount(D, i, m - 1)

RawMht(D, i) == [j \in 1 .. SubCount(D, i) |-> Digest(SubTable(D, i, j - 1))]
RawMhts(D, n) == [i \in 1 .. n |-> RawMht(D, i - 1)]
Master(D, i) == Chained(RawMhts(D, PartCount(D)))[i + 1]

FileBlock(D, i, b) ==
  IF b = 1 THEN Master(D, i) ELSE LET j == (b - 2) \div Width
           k == (b - 2) % Width
       IN IF k = 0 THEN SubTable(D, i, j) ELSE DataBlock(D, i, j, k)

FileAfter(D, i, m) == [b \in 1 .. FileLen(D, i, m) |-> FileBlock(D, i, b)]

\* Which block is where.
LEMMA FileBlocks ==
  ASSUME NEW D, NEW i, NEW j \in Nat
  PROVE  /\ Width \in Nat \ {0}
         /\ TablePlace(j) \in Nat \ {0, 1}
         /\ FileBlock(D, i, 1) = Master(D, i)
         /\ FileBlock(D, i, TablePlace(j)) = SubTable(D, i, j)
         /\ \A k \in 1 .. BlocksPerSubpart :
              FileBlock(D, i, TablePlace(j) + k) = DataBlock(D, i, j, k)
<1> DEFINE p == j * Width
<1>1. Width \in Nat \ {0} /\ Width = BlocksPerSubpart + 1 BY GodAssumption DEF Width
<1>2. p \in Nat /\ TablePlace(j) = 2 + p BY <1>1 DEF TablePlace
<1>3. FileBlock(D, i, 1) = Master(D, i) BY DEF FileBlock
<1>4. FileBlock(D, i, TablePlace(j)) = SubTable(D, i, j)
  <2>1. p \div Width = j /\ p % Width = p - p
    <3>1. p <= p /\ p < p + Width BY <1>1, <1>2
    <3> QED BY <1>1, <1>2, <3>1, DivUnique
  <2> HIDE DEF p
  <2>2. TablePlace(j) - 2 = p /\ TablePlace(j) # 1 /\ p - p = 0 BY <1>2
  <2> QED BY <2>1, <2>2 DEF FileBlock
<1>5. ASSUME NEW k \in 1 .. BlocksPerSubpart
      PROVE  FileBlock(D, i, TablePlace(j) + k) = DataBlock(D, i, j, k)
  <2> DEFINE x == p + k
  <2>1. x \in Nat /\ p <= x /\ x < p + Width BY <1>1, <1>2, GodAssumption
  <2>2. x \div Width = j /\ x % Width = x - p BY <1>1, <1>2, <2>1, DivUnique
  <2> HIDE DEF p
  <2>3. (TablePlace(j) + k) - 2 = x /\ TablePlace(j) + k # 1 /\ x - p = k /\ k # 0 BY <1>2
  <2> HIDE DEF x
  <2> QED BY <2>2, <2>3 DEF FileBlock
<1> QED BY <1>1, <1>2, <1>3, <1>4, <1>5

\* Totals over the blocks of a sequence and of a concatenation: its size.
LEMMA SizeOfSequence ==
  ASSUME NEW m, NEW s, HasLen(s, m), NEW g, HasLen(g, m),
         \A b \in 1 .. m : g[b] = Length(s[b])
  PROVE  SizeOf(s) = Total(g)
<1>1. DOMAIN s = 1 .. m /\ DOMAIN g = 1 .. m BY SequenceLength
<1>2. g = [b \in 1 .. m |-> g[b]] BY DEF HasLen
<1>3. [b \in DOMAIN s |-> Length(s[b])] = g BY <1>1, <1>2
<1> QED BY <1>3 DEF SizeOf

LEMMA SizeOfConcat ==
  ASSUME NEW m, NEW n, NEW s, NEW t, HasLen(s, m), HasLen(t, n),
         \A b \in 1 .. m : Length(s[b]) \in Nat, \A b \in 1 .. n : Length(t[b]) \in Nat
  PROVE  SizeOf(s \o t) = SizeOf(s) + SizeOf(t) /\ SizeOf(s) \in Nat /\ SizeOf(t) \in Nat
<1> DEFINE r == s \o t
           g == [b \in 1 .. m |-> Length(s[b])]
           h == [b \in 1 .. n |-> Length(t[b])]
           f == [b \in 1 .. m + n |-> Length(r[b])]
<1>1. IsConcat(r, s, m, t, n) BY SequenceConcat
<1>2. /\ m \in Nat /\ n \in Nat
      /\ HasLen(r, m + n)
      /\ \A b \in 1 .. m + n : r[b] = IF b <= m THEN s[b] ELSE t[b - m]
  BY <1>1 DEF IsConcat, HasLen
<1> HIDE DEF r
<1>3. HasLen(g, m) /\ HasLen(h, n) /\ HasLen(f, m + n) BY <1>2 DEF HasLen
<1>4. (\A b \in 1 .. m : g[b] \in Nat) /\ (\A b \in 1 .. n : h[b] \in Nat) OBVIOUS
<1>5. IsConcat(f, g, m, h, n)
  <2>1. ASSUME NEW b \in 1 .. m + n PROVE f[b] = IF b <= m THEN g[b] ELSE h[b - m]
    <3>1. CASE b <= m BY <1>2, <3>1
    <3>2. CASE ~(b <= m)
      <4>1. b - m \in 1 .. n BY <1>2, <3>2
      <4> QED BY <1>2, <3>2, <4>1
    <3> QED BY <3>1, <3>2
  <2> HIDE DEF f
  <2> QED BY <1>3, <2>1 DEF IsConcat
<1>6. /\ \A b \in 1 .. m : g[b] = Length(s[b])
      /\ \A b \in 1 .. n : h[b] = Length(t[b])
      /\ \A b \in 1 .. m + n : f[b] = Length(r[b])
  OBVIOUS
<1> HIDE DEF f, g, h
<1>7. Total(f) = Total(g) + Total(h) /\ Total(g) \in Nat /\ Total(h) \in Nat
  BY <1>3, <1>4, <1>5, TotalConcat
<1>8. SizeOf(s) = Total(g) /\ SizeOf(t) = Total(h) /\ SizeOf(r) = Total(f)
  BY <1>2, <1>3, <1>6, SizeOfSequence
<1> QED BY <1>7, <1>8 DEF r

\* And its data blocks.
IsData(block) == IF block[1] = "data" THEN 1 ELSE 0

LEMMA DataBlocksSequence ==
  ASSUME NEW m, NEW s, HasLen(s, m), NEW g, HasLen(g, m),
         \A b \in 1 .. m : g[b] = IsData(s[b])
  PROVE  DataBlocksIn(s) = Total(g)
<1>1. DOMAIN s = 1 .. m /\ DOMAIN g = 1 .. m BY SequenceLength
<1>2. g = [b \in 1 .. m |-> g[b]] BY DEF HasLen
<1>3. [b \in DOMAIN s |-> IsData(s[b])] = g BY <1>1, <1>2
<1> QED BY <1>3 DEF DataBlocksIn, IsData

LEMMA DataBlocksConcat ==
  ASSUME NEW m, NEW n, NEW s, NEW t, HasLen(s, m), HasLen(t, n)
  PROVE  DataBlocksIn(s \o t) = DataBlocksIn(s) + DataBlocksIn(t) /\ DataBlocksIn(s) \in Nat /\ DataBlocksIn(t) \in Nat
<1> DEFINE r == s \o t
           g == [b \in 1 .. m |-> IsData(s[b])]
           h == [b \in 1 .. n |-> IsData(t[b])]
           f == [b \in 1 .. m + n |-> IsData(r[b])]
<1>1. IsConcat(r, s, m, t, n) BY SequenceConcat
<1>2. /\ m \in Nat /\ n \in Nat
      /\ HasLen(r, m + n)
      /\ \A b \in 1 .. m + n : r[b] = IF b <= m THEN s[b] ELSE t[b - m]
  BY <1>1 DEF IsConcat, HasLen
<1> HIDE DEF r
<1>3. HasLen(g, m) /\ HasLen(h, n) /\ HasLen(f, m + n) BY <1>2 DEF HasLen
<1>4. (\A b \in 1 .. m : g[b] \in Nat) /\ (\A b \in 1 .. n : h[b] \in Nat) BY DEF IsData
<1>5. IsConcat(f, g, m, h, n)
  <2>1. ASSUME NEW b \in 1 .. m + n PROVE f[b] = IF b <= m THEN g[b] ELSE h[b - m]
    <3>1. CASE b <= m BY <1>2, <3>1
    <3>2. CASE ~(b <= m)
      <4>1. b - m \in 1 .. n BY <1>2, <3>2
      <4> QED BY <1>2, <3>2, <4>1
    <3> QED BY <3>1, <3>2
  <2> HIDE DEF f
  <2> QED BY <1>3, <2>1 DEF IsConcat
<1>6. /\ \A b \in 1 .. m : g[b] = IsData(s[b])
      /\ \A b \in 1 .. n : h[b] = IsData(t[b])
      /\ \A b \in 1 .. m + n : f[b] = IsData(r[b])
  OBVIOUS
<1> HIDE DEF f, g, h
<1>7. Total(f) = Total(g) + Total(h) /\ Total(g) \in Nat /\ Total(h) \in Nat
  BY <1>3, <1>4, <1>5, TotalConcat
<1>8. DataBlocksIn(s) = Total(g) /\ DataBlocksIn(t) = Total(h) /\ DataBlocksIn(r) = Total(f)
  BY <1>2, <1>3, <1>6, DataBlocksSequence
<1> QED BY <1>7, <1>8 DEF r

\* What a subpart adds to a file: its table and its blocks.
Addition(D, i, j) == <<SubTable(D, i, j)>> \o Blocks(SubStart(i, j), SubLen(D, i, j))

LEMMA AdditionFacts ==
  ASSUME NEW D \in Nat \ {0}, NEW i \in 0 .. PartCount(D) - 1,
         NEW j \in 0 .. SubCount(D, i) - 1
  PROVE  /\ Addition(D, i, j) = [b \in 1 .. 1 + BlockCount(D, i, j) |->
                   IF b <= 1 THEN SubTable(D, i, j) ELSE DataBlock(D, i, j, b - 1)]
         /\ \A b \in 1 .. 1 + BlockCount(D, i, j) : Length(Addition(D, i, j)[b]) \in Nat
         /\ SizeOf(Addition(D, i, j)) = BlockSectors + SubLen(D, i, j)
         /\ DataBlocksIn(Addition(D, i, j)) = BlockCount(D, i, j)
<1> DEFINE n == BlockCount(D, i, j)
           s == <<SubTable(D, i, j)>>
           t == Blocks(SubStart(i, j), SubLen(D, i, j))
           a == Addition(D, i, j)
<1>1. n \in Nat \ {0}
  <2>1. n \in 1 .. BlocksPerSubpart BY SubFacts
  <2> QED BY <2>1
<1>2. t = [k \in 1 .. n |-> DataBlock(D, i, j, k)] BY BlocksOfSubpart
<1>3. HasLen(s, 1) /\ s[1] = SubTable(D, i, j) BY SequenceSingle
<1> HIDE DEF n, s, t
<1>4. HasLen(t, n) BY <1>1, <1>2 DEF HasLen
<1>5. a = s \o t BY DEF Addition, s, t
<1> HIDE DEF a
<1>6. /\ HasLen(a, 1 + n)
      /\ \A b \in 1 .. 1 + n : a[b] = IF b <= 1 THEN s[b] ELSE t[b - 1]
  <2>1. IsConcat(a, s, 1, t, n) BY <1>3, <1>4, <1>5, SequenceConcat
  <2> QED BY <2>1 DEF IsConcat
<1>7. \A b \in 1 .. 1 + n : (IF b <= 1 THEN s[b] ELSE t[b - 1])
    = (IF b <= 1 THEN SubTable(D, i, j) ELSE DataBlock(D, i, j, b - 1))
  <2> SUFFICES ASSUME NEW b \in 1 .. 1 + n
      PROVE  (IF b <= 1 THEN s[b] ELSE t[b - 1])
              = (IF b <= 1 THEN SubTable(D, i, j) ELSE DataBlock(D, i, j, b - 1))
    OBVIOUS
  <2>1. b <= 1 => b = 1 OBVIOUS
  <2>2. ~(b <= 1) => b - 1 \in 1 .. n BY <1>1
  <2> QED BY <1>2, <1>3, <2>1, <2>2
<1>8. a = [b \in 1 .. 1 + n |-> IF b <= 1 THEN SubTable(D, i, j) ELSE DataBlock(D, i, j, b - 1)]
  BY <1>6, <1>7 DEF HasLen
<1>9. \A k \in 1 .. n : Length(t[k]) \in Nat BY <1>2, DataBlockLength, GodAssumption DEF n
<1>10. Length(s[1]) = BlockSectors /\ BlockSectors \in Nat BY <1>3, Kinds, GodAssumption DEF SubTable
<1>11. \A b \in 1 .. 1 + n : Length(a[b]) \in Nat
  <2> SUFFICES ASSUME NEW b \in 1 .. 1 + n PROVE Length(a[b]) \in Nat OBVIOUS
  <2>1. b <= 1 => b = 1 OBVIOUS
  <2>2. ~(b <= 1) => b - 1 \in 1 .. n BY <1>1
  <2> QED BY <1>6, <1>9, <1>10, <2>1, <2>2
<1>12. \A b \in 1 .. 1 : Length(s[b]) \in Nat BY <1>10
<1>13. SizeOf(a) = SizeOf(s) + SizeOf(t)
  <2>1. SizeOf(s \o t) = SizeOf(s) + SizeOf(t) BY ONLY <1>3, <1>4, <1>9, <1>12, SizeOfConcat
  <2> QED BY ONLY <1>5, <2>1
<1>14. SizeOf(s) = BlockSectors
  <2> DEFINE g == [b \in 1 .. 1 |-> BlockSectors]
  <2>1. HasLen(g, 1) /\ \A b \in 1 .. 1 : g[b] = Length(s[b]) BY <1>10 DEF HasLen
  <2>2. Total(g) = 1 * BlockSectors BY <1>10, TotalOfEqual
  <2> HIDE DEF g
  <2>3. SizeOf(s) = Total(g) BY <1>3, <2>1, SizeOfSequence, 1 \in Nat
  <2> QED BY <1>10, <2>2, <2>3
<1>15. SizeOf(t) = SubLen(D, i, j)
  <2> DEFINE g == [b \in 1 .. n |-> Length(DataBlock(D, i, j, b))]
  <2>1. HasLen(g, n) /\ \A b \in 1 .. n : g[b] = Length(t[b]) BY <1>1, <1>2 DEF HasLen
  <2>2. Total(g) = SubLen(D, i, j) BY SubpartSizeOf DEF n
  <2> HIDE DEF g
  <2> QED BY <1>1, <1>4, <2>1, <2>2, SizeOfSequence
<1>16. DataBlocksIn(a) = DataBlocksIn(s) + DataBlocksIn(t)
  BY <1>1, <1>3, <1>4, <1>5, DataBlocksConcat, 1 \in Nat
<1>17. DataBlocksIn(s) = 0
  <2>1. IsData(s[1]) = 0 BY <1>3, Kinds DEF SubTable, IsData
  <2> DEFINE g == [b \in 1 .. 1 |-> 0]
  <2>2. HasLen(g, 1) /\ \A b \in 1 .. 1 : g[b] = IsData(s[b]) BY <2>1 DEF HasLen
  <2>3. Total(g) = 1 * 0 BY TotalOfEqual
  <2> HIDE DEF g
  <2>4. DataBlocksIn(s) = Total(g) BY <1>3, <2>2, DataBlocksSequence, 1 \in Nat
  <2> QED BY <2>3, <2>4
<1>18. DataBlocksIn(t) = n
  <2>1. \A k \in 1 .. n : IsData(t[k]) = 1 BY <1>2, Kinds DEF DataBlock, IsData
  <2> DEFINE g == [b \in 1 .. n |-> 1]
  <2>2. HasLen(g, n) /\ \A b \in 1 .. n : g[b] = IsData(t[b]) BY <1>1, <2>1 DEF HasLen
  <2>3. Total(g) = n * 1 BY <1>1, TotalOfEqual
  <2> HIDE DEF g
  <2>4. DataBlocksIn(t) = Total(g) BY <1>1, <1>4, <2>2, DataBlocksSequence
  <2> QED BY <1>1, <2>3, <2>4
<1>19. 0 + n = n BY <1>1
<1> QED BY <1>8, <1>11, <1>13, <1>14, <1>15, <1>16, <1>17, <1>18, <1>19 DEF n, a

\* A file whose first subparts are full is as long as the place of the next.
LEMMA FileLens ==
  ASSUME NEW D \in Nat \ {0}, NEW i \in 0 .. PartCount(D) - 1
  PROVE  /\ \A m \in 0 .. SubCount(D, i) : FileLen(D, i, m) \in Nat \ {0}
         /\ \A m \in 0 .. SubCount(D, i) - 1 : FileLen(D, i, m) = TablePlace(m) - 1
         /\ \A m \in 0 .. SubCount(D, i) - 1 :
              FileLen(D, i, m + 1) = TablePlace(m) + BlockCount(D, i, m)
<1> DEFINE subs == SubCount(D, i)
<1>1. subs \in 1 .. SubpartsPerPart /\ SubpartsPerPart \in Nat BY PartFacts, GodAssumption
<1> HIDE DEF subs
<1>2. Width = BlocksPerSubpart + 1 /\ Width \in Nat BY GodAssumption DEF Width
<1>3. \A j \in Nat : TablePlace(j) \in Nat \ {0, 1} /\ TablePlace(j) = 2 + j * Width
  BY FileBlocks DEF TablePlace
<1>4. \A j \in 0 .. subs - 1 : /\ BlockCount(D, i, j) \in 1 .. BlocksPerSubpart
                               /\ j + 1 < subs => BlockCount(D, i, j) = BlocksPerSubpart
  BY SubFacts DEF subs
<1>5. FileLen(D, i, 0) = 1 BY DEF FileLen
<1>6. ASSUME NEW m \in 0 .. subs - 1
      PROVE  /\ FileLen(D, i, m + 1) = TablePlace(m) + BlockCount(D, i, m)
             /\ FileLen(D, i, m + 1) \in Nat \ {0}
  <2>1. m + 1 # 0 /\ (m + 1) - 1 = m /\ m \in Nat BY <1>1
  <2>2. FileLen(D, i, m + 1) = TablePlace(m) + BlockCount(D, i, m) BY <2>1 DEF FileLen
  <2>3. TablePlace(m) \in Nat \ {0} /\ BlockCount(D, i, m) \in Nat BY <1>3, <1>4, <2>1
  <2> QED BY <2>2, <2>3
<1>7. ASSUME NEW m \in 0 .. subs
      PROVE  FileLen(D, i, m) \in Nat \ {0}
  <2>1. CASE m = 0 BY <1>5, <2>1
  <2>2. CASE m # 0
    <3>1. m - 1 \in 0 .. subs - 1 /\ (m - 1) + 1 = m BY <1>1, <2>2
    <3> QED BY <1>6, <3>1
  <2> QED BY <2>1, <2>2
<1>8. ASSUME NEW m \in 0 .. subs - 1
      PROVE  FileLen(D, i, m) = TablePlace(m) - 1
  <2>1. CASE m = 0
    <3>1. 0 * Width = 0 BY <1>2
    <3> QED BY <1>3, <1>5, <2>1, <3>1
  <2>2. CASE m # 0
    <3>1. m - 1 \in 0 .. subs - 1 /\ (m - 1) + 1 = m /\ (m - 1) + 1 < subs /\ m - 1 \in Nat /\ m \in Nat
      BY <1>1, <2>2
    <3>2. FileLen(D, i, m) = TablePlace(m - 1) + BlocksPerSubpart BY <1>4, <1>6, <3>1
    <3>3. m * Width = (m - 1) * Width + Width /\ (m - 1) * Width \in Nat BY <1>2, <3>1
    <3>4. TablePlace(m) = 2 + m * Width /\ TablePlace(m - 1) = 2 + (m - 1) * Width BY <1>3, <3>1
    <3> QED BY <1>2, <3>2, <3>3, <3>4, GodAssumption
  <2> QED BY <2>1, <2>2
<1> QED BY <1>6, <1>7, <1>8 DEF subs

\* A subpart more is its addition behind what there was.
LEMMA FileGrows ==
  ASSUME NEW D \in Nat \ {0}, NEW i \in 0 .. PartCount(D) - 1,
         NEW m \in 0 .. SubCount(D, i) - 1
  PROVE  FileAfter(D, i, m + 1) = FileAfter(D, i, m) \o Addition(D, i, m)
<1> DEFINE s == FileAfter(D, i, m)
           t == Addition(D, i, m)
           l == FileLen(D, i, m)
           n == BlockCount(D, i, m)
<1>1. SubCount(D, i) \in Nat BY PartFacts, GodAssumption
<1>2. l \in Nat \ {0} /\ l = TablePlace(m) - 1 /\ FileLen(D, i, m + 1) = TablePlace(m) + n
  BY <1>1, FileLens
<1>3. n \in 1 .. BlocksPerSubpart /\ m \in Nat BY <1>1, SubFacts
<1>4. t = [b \in 1 .. 1 + n |-> IF b <= 1 THEN SubTable(D, i, m) ELSE DataBlock(D, i, m, b - 1)]
  BY AdditionFacts
<1>5. s = [b \in 1 .. l |-> FileBlock(D, i, b)] BY DEF FileAfter
<1>6. TablePlace(m) \in Nat /\ BlocksPerSubpart \in Nat BY <1>3, FileBlocks, GodAssumption
<1> HIDE DEF s, t, l, n
<1>7. HasLen(s, l) /\ HasLen(t, 1 + n)
  <2>1. l \in Nat /\ 1 + n \in Nat BY <1>2, <1>3, <1>6
  <2> QED BY <1>4, <1>5, <2>1 DEF HasLen
<1> DEFINE r == s \o t
<1> HIDE DEF r
<1>8. /\ HasLen(r, l + (1 + n))
      /\ \A b \in 1 .. l + (1 + n) : r[b] = IF b <= l THEN s[b] ELSE t[b - l]
  <2>1. IsConcat(r, s, l, t, 1 + n) BY <1>7, SequenceConcat DEF r
  <2> QED BY <2>1 DEF IsConcat
<1>9. l + (1 + n) = FileLen(D, i, m + 1) BY <1>2, <1>3, <1>6
<1>10. ASSUME NEW b \in 1 .. l + (1 + n)
    PROVE  (IF b <= l THEN s[b] ELSE t[b - l]) = FileBlock(D, i, b)
  <2>1. CASE b <= l BY <1>5, <2>1
  <2>2. CASE b = l + 1
    <3>1. b - l = 1 /\ ~(b <= l) /\ b = TablePlace(m) /\ 1 \in 1 .. 1 + n BY <1>2, <1>3, <1>6, <2>2
    <3>2. t[b - l] = SubTable(D, i, m) BY <1>4, <3>1
    <3> QED BY <1>3, <3>1, <3>2, FileBlocks
  <2>3. CASE b > l + 1
    <3> DEFINE k == (b - l) - 1
    <3>1. ~(b <= l) /\ b - l \in 1 .. 1 + n /\ ~(b - l <= 1) /\ k \in 1 .. BlocksPerSubpart
          /\ b = TablePlace(m) + k
      BY <1>2, <1>3, <1>6, <2>3
    <3>2. t[b - l] = DataBlock(D, i, m, k) BY <1>4, <3>1
    <3> HIDE DEF k
    <3> QED BY <1>3, <3>1, <3>2, FileBlocks
  <2> QED BY <1>2, <2>1, <2>2, <2>3
<1>11. r = [b \in 1 .. FileLen(D, i, m + 1) |-> FileBlock(D, i, b)] BY <1>8, <1>9, <1>10 DEF HasLen
<1> QED BY <1>11 DEF FileAfter, s, t, r

\* Chained() gives tables only.
IsTable(block) == \E h : block = Table(h)

LEMMA TableLength ==
  ASSUME NEW block, IsTable(block)
  PROVE  Length(block) = BlockSectors /\ IsData(block) = 0
BY Kinds DEF IsTable, IsData

\* What a file after m subparts holds: every block has a length, the data
\* come to what was streamed, the tables to one each.
LEMMA FileTotals ==
  ASSUME NEW D \in Nat \ {0}, NEW i \in 0 .. PartCount(D) - 1, IsTable(Master(D, i))
  PROVE  \A m \in 0 .. SubCount(D, i) :
           /\ HasLen(FileAfter(D, i, m), FileLen(D, i, m))
           /\ \A b \in 1 .. FileLen(D, i, m) : Length(FileAfter(D, i, m)[b]) \in Nat
           /\ SizeOf(FileAfter(D, i, m)) = BlockSectors + m * BlockSectors + Streamed(D, i, m)
           /\ DataBlocksIn(FileAfter(D, i, m))
                = IF m = 0 THEN 0 ELSE (m - 1) * BlocksPerSubpart + BlockCount(D, i, m - 1)
<1> DEFINE subs == SubCount(D, i)
           Holds(m) ==
             /\ HasLen(FileAfter(D, i, m), FileLen(D, i, m))
             /\ \A b \in 1 .. FileLen(D, i, m) : Length(FileAfter(D, i, m)[b]) \in Nat
             /\ SizeOf(FileAfter(D, i, m))
                  = BlockSectors + m * BlockSectors + Streamed(D, i, m)
             /\ DataBlocksIn(FileAfter(D, i, m))
                  = IF m = 0 THEN 0 ELSE (m - 1) * BlocksPerSubpart + BlockCount(D, i, m - 1)
           E == {m \in Nat : m <= subs => Holds(m)}
<1>1. subs \in Nat BY PartFacts, GodAssumption
<1> HIDE DEF subs
<1>2. \A m \in 0 .. subs : HasLen(FileAfter(D, i, m), FileLen(D, i, m))
  BY FileLens DEF subs, FileAfter, HasLen
<1>3. 0 \in E
  <2> DEFINE f == FileAfter(D, i, 0)
  <2>1. FileLen(D, i, 0) = 1 /\ 1 \in 1 .. 1 BY DEF FileLen
  <2>2. f[1] = Master(D, i) /\ HasLen(f, 1)
    <3>1. FileBlock(D, i, 1) = Master(D, i) BY FileBlocks, 0 \in Nat
    <3> QED BY <1>1, <1>2, <2>1, <3>1 DEF FileAfter
  <2>3. Length(f[1]) = BlockSectors /\ IsData(f[1]) = 0 BY <2>2, TableLength
  <2>4. DOMAIN f = 1 .. 1 BY <2>2, SequenceLength
  <2> HIDE DEF f
  <2>5. SizeOf(f) = 1 * BlockSectors
    <3>1. [b \in DOMAIN f |-> Length(f[b])] = [b \in 1 .. 1 |-> BlockSectors] BY <2>3, <2>4
    <3>2. Total([b \in 1 .. 1 |-> BlockSectors]) = 1 * BlockSectors BY TotalOfEqual, GodAssumption
    <3> QED BY <3>1, <3>2 DEF SizeOf
  <2>6. DataBlocksIn(f) = 1 * 0
    <3>1. [b \in DOMAIN f |-> IF f[b][1] = "data" THEN 1 ELSE 0] = [b \in 1 .. 1 |-> 0]
      BY <2>3, <2>4 DEF IsData
    <3>2. Total([b \in 1 .. 1 |-> 0]) = 1 * 0 BY TotalOfEqual
    <3> QED BY <3>1, <3>2 DEF DataBlocksIn
  <2>7. Streamed(D, i, 0) = 0 BY StreamedGrows
  <2>8. Holds(0)
    <3>1. \A b \in 1 .. 1 : Length(f[b]) \in Nat BY <2>3, GodAssumption
    <3>2. SizeOf(f) = BlockSectors + 0 * BlockSectors + Streamed(D, i, 0) BY <2>5, <2>7, GodAssumption
    <3> QED BY <2>1, <2>2, <2>6, <3>1, <3>2 DEF f
  <2> QED BY <2>8
<1>4. ASSUME NEW m \in Nat, m \in E
      PROVE  m + 1 \in E
  <2> SUFFICES ASSUME m + 1 <= subs PROVE Holds(m + 1) OBVIOUS
  <2> DEFINE s == FileAfter(D, i, m)
             t == Addition(D, i, m)
             l == FileLen(D, i, m)
             n == BlockCount(D, i, m)
             r == FileAfter(D, i, m + 1)
  <2>1. m \in 0 .. subs - 1 /\ m \in 0 .. subs /\ m + 1 \in 0 .. subs /\ Holds(m) BY <1>1, <1>4
  <2>2. r = s \o t BY <2>1, FileGrows DEF subs
  <2>3. /\ t = [b \in 1 .. 1 + n |->
                  IF b <= 1 THEN SubTable(D, i, m) ELSE DataBlock(D, i, m, b - 1)]
        /\ \A b \in 1 .. 1 + n : Length(t[b]) \in Nat
        /\ SizeOf(t) = BlockSectors + SubLen(D, i, m)
        /\ DataBlocksIn(t) = n
    BY <2>1, AdditionFacts DEF subs
  <2>4. n \in 1 .. BlocksPerSubpart /\ (m + 1 < subs => n = BlocksPerSubpart)
        /\ SubLen(D, i, m) \in Nat
    BY <2>1, SubFacts, Sizes DEF subs
  <2>5. l \in Nat \ {0} /\ l = TablePlace(m) - 1 /\ FileLen(D, i, m + 1) = TablePlace(m) + n
    BY <2>1, FileLens DEF subs
  <2>6. TablePlace(m) \in Nat BY FileBlocks
  <2> HIDE DEF r, s, t, l, n
  <2>7. HasLen(s, l) /\ (\A b \in 1 .. l : Length(s[b]) \in Nat) BY <2>1 DEF s, l
  <2>8. HasLen(t, 1 + n)
    <3>1. 1 + n \in Nat BY <2>4, GodAssumption
    <3> QED BY <2>3, <3>1 DEF HasLen
  <2>9. SizeOf(r) = SizeOf(s) + SizeOf(t) /\ SizeOf(s) \in Nat
    <3>1. \A b \in 1 .. 1 + n : Length(t[b]) \in Nat BY <2>3
    <3> QED BY ONLY <2>2, <2>7, <2>8, <3>1, SizeOfConcat
  <2>10. DataBlocksIn(r) = DataBlocksIn(s) + DataBlocksIn(t) /\ DataBlocksIn(s) \in Nat
    BY <2>2, <2>7, <2>8, DataBlocksConcat
  <2>11. SizeOf(r) = BlockSectors + (m + 1) * BlockSectors + Streamed(D, i, m + 1)
    <3>1. SizeOf(s) = BlockSectors + m * BlockSectors + Streamed(D, i, m) BY <2>1 DEF s
    <3>2. Streamed(D, i, m + 1) = Streamed(D, i, m) + SubLen(D, i, m)
          /\ Streamed(D, i, m) \in 0 .. PartLen(D, i)
      BY <2>1, StreamedGrows DEF subs
    <3>3. PartLen(D, i) \in Nat BY PartFacts, Sizes
    <3>4. (m + 1) * BlockSectors = m * BlockSectors + BlockSectors /\ m * BlockSectors \in Nat
      BY GodAssumption
    <3> QED BY <2>3, <2>4, <2>9, <3>1, <3>2, <3>3, <3>4, GodAssumption
  <2>12. DataBlocksIn(r) = m * BlocksPerSubpart + n
    <3>1. CASE m = 0
      <4>1. DataBlocksIn(s) = 0 /\ 0 * BlocksPerSubpart = 0 BY <2>1, <3>1, GodAssumption DEF s
      <4> QED BY <2>3, <2>10, <3>1, <4>1
    <3>2. CASE m # 0
      <4>1. m - 1 \in 0 .. subs - 1 /\ (m - 1) + 1 < subs BY <1>1, <2>1, <3>2
      <4>2. BlockCount(D, i, m - 1) = BlocksPerSubpart BY <4>1, SubFacts DEF subs
      <4>3. DataBlocksIn(s) = (m - 1) * BlocksPerSubpart + BlocksPerSubpart BY <2>1, <3>2, <4>2 DEF s
      <4>4. (m - 1) * BlocksPerSubpart + BlocksPerSubpart = m * BlocksPerSubpart BY GodAssumption
      <4> QED BY <2>3, <2>10, <4>3, <4>4
    <3> QED BY <3>1, <3>2
  <2>13. ASSUME NEW b \in 1 .. FileLen(D, i, m + 1) PROVE Length(r[b]) \in Nat
    <3>1. \A x \in 1 .. l + (1 + n) : r[x] = IF x <= l THEN s[x] ELSE t[x - l]
      <4>1. IsConcat(r, s, l, t, 1 + n) BY <2>2, <2>7, <2>8, SequenceConcat
      <4> QED BY <4>1 DEF IsConcat
    <3>2. FileLen(D, i, m + 1) = l + (1 + n) BY <2>4, <2>5, <2>6, GodAssumption
    <3>3. CASE b <= l BY <2>7, <3>1, <3>2, <3>3
    <3>4. CASE ~(b <= l)
      <4>1. b - l \in 1 .. 1 + n BY <2>4, <2>5, <3>2, <3>4, GodAssumption
      <4> QED BY <2>3, <3>1, <3>2, <3>4, <4>1
    <3> QED BY <3>3, <3>4
  <2>14. HasLen(r, FileLen(D, i, m + 1)) BY <1>2, <2>1 DEF r
  <2>15. m + 1 # 0 /\ (m + 1) - 1 = m OBVIOUS
  <2> QED BY <2>11, <2>12, <2>13, <2>14, <2>15 DEF r, n
<1> HIDE DEF E, Holds
<1>5. Nat \subseteq E BY <1>3, <1>4, NatInduct
<1>6. \A m \in 0 .. subs : Holds(m) BY <1>5 DEF E
<1> QED BY <1>6 DEF Holds, subs

-----------------------------------------------------------------------------
(* The chain of master tables, and the totals over all files.                *)

\* finish_hashing() builds the chain from its end: each table has its own
\* digests and, but for the last, the digest of the table after it.
LEMMA ChainLinks ==
  ASSUME NEW n \in Nat, NEW mhts, Len(mhts) = n
  PROVE  /\ HasLen(Chained(mhts), n)
         /\ \A i \in 1 .. n : Chained(mhts)[i]
                = Table(IF i = n THEN mhts[i] ELSE Append(mhts[i], Digest(Chained(mhts)[i + 1])))
<1> DEFINE Part(F, m) ==
             F = [i \in n - m + 1 .. n |->
                    Table(IF i = n THEN mhts[i] ELSE Append(mhts[i], Digest(F[i + 1])))]
           E == {m \in Nat : \E F : Part(F, m)}
           Chain == CHOOSE F : F = [i \in 1 .. n |->
                      Table(IF i = n THEN mhts[i] ELSE Append(mhts[i], Digest(F[i + 1])))]
<1>1. 0 \in E
  <2> DEFINE F == [i \in n - 0 + 1 .. n |-> 0]
  <2>1. n - 0 + 1 .. n = {} OBVIOUS
  <2>2. F = [i \in n - 0 + 1 .. n |->
      Table(IF i = n THEN mhts[i] ELSE Append(mhts[i], Digest(F[i + 1])))]
    BY <2>1
  <2> HIDE DEF F
  <2>3. Part(F, 0) BY <2>2
  <2> HIDE DEF Part
  <2> QED BY <2>3
<1>2. ASSUME NEW m \in Nat, m \in E
      PROVE  m + 1 \in E
  <2>1. PICK F : Part(F, m) BY <1>2
  <2> DEFINE low == n - (m + 1) + 1
             G == [i \in low .. n |->
                     Table(IF i = n THEN mhts[i] ELSE Append(mhts[i], Digest(F[i + 1])))]
  <2>2. ASSUME NEW i \in low .. n, i # n
        PROVE  F[i + 1] = G[i + 1]
    <3>1. i + 1 \in n - m + 1 .. n /\ i + 1 \in low .. n BY <2>2
    <3> QED BY <2>1, <3>1
  <2>3. G = [i \in low .. n |->
      Table(IF i = n THEN mhts[i] ELSE Append(mhts[i], Digest(G[i + 1])))]
    <3>1. \A i \in low .. n :
        Table(IF i = n THEN mhts[i] ELSE Append(mhts[i], Digest(F[i + 1])))
        = Table(IF i = n THEN mhts[i] ELSE Append(mhts[i], Digest(G[i + 1])))
      BY <2>2
    <3> QED BY <3>1
  <2>4. Part(G, m + 1) BY <2>3
  <2> HIDE DEF G, Part
  <2>5. m + 1 \in Nat OBVIOUS
  <2> QED BY <2>4, <2>5
<1> HIDE DEF E
<1>3. Nat \subseteq E BY <1>1, <1>2, NatInduct
<1>4. PICK F : Part(F, n) BY <1>3 DEF E
<1>5. n - n + 1 = 1 OBVIOUS
<1>6. F = [i \in 1 .. n |->
    Table(IF i = n THEN mhts[i] ELSE Append(mhts[i], Digest(F[i + 1])))]
  BY <1>4, <1>5
<1>7. Chain = [i \in 1 .. n |->
    Table(IF i = n THEN mhts[i] ELSE Append(mhts[i], Digest(Chain[i + 1])))]
  BY <1>6
<1>8. Chained(mhts) = [i \in 1 .. n |-> Chain[i]] BY DEF Chained
<1> HIDE DEF Chain
<1>9. Chained(mhts) = Chain BY <1>7, <1>8
<1>10. DOMAIN Chain = 1 .. n BY <1>7
<1>11. HasLen(Chain, n) BY <1>7, <1>10 DEF HasLen
<1>12. \A i \in 1 .. n :
    Chain[i] = Table(IF i = n THEN mhts[i] ELSE Append(mhts[i], Digest(Chain[i + 1])))
  BY <1>7
<1> QED BY <1>9, <1>11, <1>12

\* Each master table lists the file's tables and, behind them, the next one.
LEMMA MasterLinks ==
  ASSUME NEW D \in Nat \ {0}, NEW i \in 0 .. PartCount(D) - 1
  PROVE  /\ IsTable(Master(D, i))
         /\ \A j \in 1 .. SubCount(D, i) : Master(D, i)[2][j] = Digest(SubTable(D, i, j - 1))
         /\ i + 1 < PartCount(D) =>
              Master(D, i)[2][SubpartsPerPart + 1] = Digest(Master(D, i + 1))
<1> DEFINE n == PartCount(D)
           mhts == RawMhts(D, n)
           raw == RawMht(D, i)
           subs == SubCount(D, i)
           next == Digest(Master(D, i + 1))
           chained == Append(raw, next)
<1>1. n \in Nat \ {0} /\ i + 1 \in 1 .. n BY PartRange
<1>2. subs \in Nat /\ (i + 1 < n => subs = SubpartsPerPart) BY PartFacts, GodAssumption
<1> HIDE DEF n, subs
<1>3. HasLen(mhts, n) /\ mhts[i + 1] = raw
  <2>1. mhts = [k \in 1 .. n |-> RawMht(D, k - 1)] /\ (i + 1) - 1 = i BY <1>1 DEF RawMhts
  <2> QED BY <1>1, <2>1 DEF HasLen
<1>4. Len(mhts) = n BY <1>3, SequenceLength
<1>5. Master(D, i) = Chained(mhts)[i + 1] /\ Master(D, i + 1) = Chained(mhts)[(i + 1) + 1]
  BY DEF Master, n
<1> HIDE DEF mhts
<1>6. Chained(mhts)[i + 1]
    = Table(IF i + 1 = n THEN mhts[i + 1]
            ELSE Append(mhts[i + 1], Digest(Chained(mhts)[(i + 1) + 1])))
  BY <1>1, <1>4, ChainLinks
<1>7. Master(D, i) = Table(IF i + 1 = n THEN raw ELSE chained) BY <1>3, <1>5, <1>6
<1>8. raw = [j \in 1 .. subs |-> Digest(SubTable(D, i, j - 1))] BY DEF RawMht, subs
<1>9. HasLen(raw, subs) BY <1>2, <1>8 DEF HasLen
<1> HIDE DEF raw, next
<1>10. IsAppend(chained, raw, subs, next) BY <1>9, SequenceAppend
<1> HIDE DEF chained
<1>11. /\ \A j \in 1 .. subs : chained[j] = raw[j]
       /\ chained[subs + 1] = next
  <2>1. \A j \in 1 .. subs + 1 : chained[j] = IF j <= subs THEN raw[j] ELSE next BY <1>10 DEF IsAppend
  <2>2. subs + 1 \in 1 .. subs + 1 /\ ~(subs + 1 <= subs) BY <1>2
  <2> QED BY <1>2, <2>1, <2>2
<1>12. Master(D, i)[2] = IF i + 1 = n THEN raw ELSE chained BY <1>7, Kinds
<1>13. IsTable(Master(D, i)) BY <1>7 DEF IsTable
<1>14. \A j \in 1 .. subs : Master(D, i)[2][j] = Digest(SubTable(D, i, j - 1)) BY <1>8, <1>11, <1>12
<1>15. i + 1 < n => Master(D, i)[2][SubpartsPerPart + 1] = next BY <1>1, <1>2, <1>11, <1>12
<1> QED BY <1>13, <1>14, <1>15 DEF n, subs, next

\* Total of n equal numbers and a last one.
LEMMA TotalWithLast ==
  ASSUME NEW n \in Nat, NEW c \in Nat, NEW e \in Nat, NEW g, HasLen(g, n + 1),
         \A k \in 1 .. n : g[k] = c, g[n + 1] = e
  PROVE  Total(g) = n * c + e
<1> DEFINE T == [k \in 0 .. n + 1 |-> IF k <= n THEN k * c ELSE n * c + e]
<1>1. T \in [0 .. n + 1 -> Nat] /\ T[0] = 0 BY 0 * c = 0
<1>2. ASSUME NEW k \in 1 .. n + 1 PROVE T[k] = T[k - 1] + g[k] /\ g[k] \in Nat
  <2>1. CASE k <= n
    <3>1. k * c = (k - 1) * c + c OBVIOUS
    <3>2. T[k] = k * c /\ T[k - 1] = (k - 1) * c /\ g[k] = c BY <2>1
    <3> QED BY <3>1, <3>2
  <2>2. CASE k = n + 1
    <3>1. T[k] = n * c + e /\ T[k - 1] = n * c /\ g[k] = e BY <2>2
    <3> QED BY <3>1
  <2> QED BY <2>1, <2>2
<1>3. T[n + 1] = n * c + e /\ n + 1 \in Nat OBVIOUS
<1> HIDE DEF T
<1>4. IsSum(T, g, n + 1) BY <1>1, <1>2 DEF IsSum
<1>5. \A k \in 1 .. n + 1 : g[k] \in Nat BY <1>2
<1> DEFINE l == n + 1
<1>6. l \in Nat OBVIOUS
<1>7. IsSum(T, g, l) /\ HasLen(g, l) /\ \A k \in 1 .. l : g[k] \in Nat BY <1>4, <1>5
<1> HIDE DEF l
<1>8. Total(g) = T[l] BY <1>6, <1>7, TotalBy
<1> QED BY <1>3, <1>8 DEF l

\* A whole Data file: its size, and how many data blocks it has.
WholeFile(D, i) == FileAfter(D, i, SubCount(D, i))
DataOf(D, i) == (SubCount(D, i) - 1) * BlocksPerSubpart + BlockCount(D, i, SubCount(D, i) - 1)

LEMMA WholeFileFacts ==
  ASSUME NEW D \in Nat \ {0}, NEW i \in 0 .. PartCount(D) - 1
  PROVE  /\ SizeOf(WholeFile(D, i)) = FileSize(D, i)
         /\ DataBlocksIn(WholeFile(D, i)) = DataOf(D, i)
         /\ FileSize(D, i) \in Nat /\ DataOf(D, i) \in Nat
         /\ i + 1 < PartCount(D) => DataOf(D, i) = BlocksPerPart
<1> DEFINE subs == SubCount(D, i)
           last == BlockCount(D, i, subs - 1)
<1>1. subs \in 1 .. SubpartsPerPart /\ (i + 1 < PartCount(D) => subs = SubpartsPerPart
                                                    /\ PartLen(D, i) = PartSize)
  BY PartFacts
<1>2. subs \in Nat /\ subs # 0 /\ subs \in 0 .. subs /\ subs - 1 \in 0 .. subs - 1 BY <1>1, GodAssumption
<1>3. /\ SizeOf(FileAfter(D, i, subs)) = BlockSectors + subs * BlockSectors + Streamed(D, i, subs)
      /\ DataBlocksIn(FileAfter(D, i, subs))
           = IF subs = 0 THEN 0 ELSE (subs - 1) * BlocksPerSubpart + last
  BY <1>2, MasterLinks, FileTotals
<1>4. Streamed(D, i, subs) = PartLen(D, i) BY StreamedGrows
<1>5. last \in 1 .. BlocksPerSubpart /\ SubLen(D, i, subs - 1) \in 1 .. SubpartSize BY <1>2, SubFacts
<1>6. FileSize(D, i) \in Nat BY FileSizes
<1>7. SizeOf(WholeFile(D, i)) = FileSize(D, i) BY <1>3, <1>4 DEF WholeFile, FileSize
<1>8. DataBlocksIn(WholeFile(D, i)) = DataOf(D, i) BY <1>2, <1>3 DEF WholeFile, DataOf
<1>9. DataOf(D, i) = (subs - 1) * BlocksPerSubpart + last BY DEF DataOf
<1>10. i + 1 < PartCount(D) => last = BlocksPerSubpart
  <2> SUFFICES ASSUME i + 1 < PartCount(D) PROVE last = BlocksPerSubpart OBVIOUS
  <2> DEFINE j == subs - 1
             p == j * SubpartSize
  <2>1. j \in 0 .. subs - 1 /\ j \in Nat /\ subs = j + 1 BY <1>2
  <2>2. PartSize = SubpartsPerPart * SubpartSize /\ SubpartSize \in Nat \ {0} BY Sizes DEF PartSize
  <2>3. PartSize = p + SubpartSize /\ p \in Nat BY <1>1, <2>1, <2>2
  <2>4. SubLen(D, i, j) = Smaller(SubpartSize, PartLen(D, i) - p) BY <2>1, SubFacts
  <2>5. SubLen(D, i, j) = SubpartSize BY <1>1, <2>2, <2>3, <2>4 DEF Smaller
  <2>6. \A k \in Nat : k < last <=> k * BlockSectors < SubpartSize BY <2>1, <2>5, SubFacts
  <2>7. last \in Nat /\ last <= BlocksPerSubpart BY <1>5, GodAssumption
  <2> HIDE DEF last
  <2>8. ~(last < BlocksPerSubpart)
    <3> SUFFICES ASSUME last < BlocksPerSubpart PROVE FALSE OBVIOUS
    <3>1. ~(last * BlockSectors < SubpartSize) BY <2>6, <2>7
    <3>2. (last + 1) * BlockSectors <= BlocksPerSubpart * BlockSectors
      BY <2>7, GodAssumption, MultMonotonic
    <3>3. (last + 1) * BlockSectors = last * BlockSectors + BlockSectors
          /\ last * BlockSectors \in Nat
      BY <2>7, GodAssumption
    <3>4. BlocksPerSubpart * BlockSectors = SubpartSize BY GodAssumption DEF SubpartSize
    <3> QED BY <2>2, <3>1, <3>2, <3>3, <3>4, GodAssumption
  <2> QED BY <2>7, <2>8, GodAssumption
<1> HIDE DEF subs, last
<1>11. DataOf(D, i) \in Nat
  <2>1. (subs - 1) * BlocksPerSubpart \in Nat
    <3>1. subs - 1 \in Nat BY <1>2
    <3> QED BY <3>1, GodAssumption
  <2> QED BY <1>5, <1>9, <2>1, GodAssumption
<1>12. i + 1 < PartCount(D) => DataOf(D, i) = BlocksPerPart
  <2>1. (SubpartsPerPart - 1) * BlocksPerSubpart + BlocksPerSubpart = BlocksPerSubpart * SubpartsPerPart
    BY GodAssumption
  <2> QED BY <1>1, <1>9, <1>10, <2>1 DEF BlocksPerPart
<1> QED BY <1>6, <1>7, <1>8, <1>11, <1>12

\* All Data files together: what the header says of their size,
LEMMA SizeOfAll ==
  ASSUME NEW D \in Nat \ {0}, NEW g, HasLen(g, PartCount(D)),
         \A i \in 1 .. PartCount(D) : g[i] = SizeOf(WholeFile(D, i - 1))
  PROVE  Total(g) = FileSize(D, PartCount(D) - 1) + (PartCount(D) - 1) * FullPartSize
<1> DEFINE n == PartCount(D) - 1
           e == FileSize(D, n)
<1>1. PartCount(D) \in Nat \ {0} BY PartRange
<1>2. n \in Nat /\ n + 1 = PartCount(D) /\ n \in 0 .. PartCount(D) - 1 BY <1>1
<1> HIDE DEF n
<1>3. e \in Nat /\ FullPartSize \in Nat BY <1>2, WholeFileFacts, FileSizes
<1>4. \A k \in 1 .. n : g[k] = FullPartSize
  <2> SUFFICES ASSUME NEW k \in 1 .. n PROVE g[k] = FullPartSize OBVIOUS
  <2>1. k \in 1 .. PartCount(D) /\ k - 1 \in 0 .. PartCount(D) - 1 /\ (k - 1) + 1 < PartCount(D) BY <1>2
  <2>2. SizeOf(WholeFile(D, k - 1)) = FullPartSize BY <2>1, WholeFileFacts, FileSizes
  <2> QED BY <2>1, <2>2
<1>5. g[n + 1] = e
  <2>1. n + 1 \in 1 .. PartCount(D) /\ (n + 1) - 1 = n BY <1>2
  <2> QED BY <1>2, <2>1, WholeFileFacts
<1>6. HasLen(g, n + 1) BY <1>2
<1> HIDE DEF e
<1>7. Total(g) = n * FullPartSize + e BY ONLY <1>2, <1>3, <1>4, <1>5, <1>6, TotalWithLast
<1>8. n * FullPartSize \in Nat BY <1>2, <1>3
<1> QED BY <1>3, <1>7, <1>8 DEF n, e

\* and of their data blocks, which are those of the image.
LEMMA DataOfAll ==
  ASSUME NEW D \in Nat \ {0}, NEW g, HasLen(g, PartCount(D)),
         \A i \in 1 .. PartCount(D) : g[i] = DataBlocksIn(WholeFile(D, i - 1))
  PROVE  Total(g) = DivCeil(D, BlockSectors)
<1> DEFINE n == PartCount(D) - 1
           e == DataOf(D, n)
           subs == SubCount(D, n)
           j == subs - 1
           c == BlockCount(D, n, j)
           q == DivCeil(D, BlockSectors)
           p == j * SubpartSize
           start == PartStart(n)
           sl == SubLen(D, n, j)
<1>1. PartCount(D) \in Nat \ {0} /\ \A i \in Nat : i < PartCount(D) <=> PartStart(i) < D BY PartRange
<1>2. n \in Nat /\ n + 1 = PartCount(D) /\ n \in 0 .. PartCount(D) - 1 BY <1>1
<1> HIDE DEF n
<1>3. e \in Nat /\ BlocksPerPart \in Nat BY <1>2, WholeFileFacts, Sizes
<1>4. \A k \in 1 .. n : g[k] = BlocksPerPart
  <2> SUFFICES ASSUME NEW k \in 1 .. n PROVE g[k] = BlocksPerPart OBVIOUS
  <2>1. k \in 1 .. PartCount(D) /\ k - 1 \in 0 .. PartCount(D) - 1 /\ (k - 1) + 1 < PartCount(D) BY <1>2
  <2>2. DataBlocksIn(WholeFile(D, k - 1)) = BlocksPerPart BY <2>1, WholeFileFacts
  <2> QED BY <2>1, <2>2
<1>5. g[n + 1] = e
  <2>1. n + 1 \in 1 .. PartCount(D) /\ (n + 1) - 1 = n BY <1>2
  <2> QED BY <1>2, <2>1, WholeFileFacts
<1>6. HasLen(g, n + 1) BY <1>2
<1> HIDE DEF e
<1>7. Total(g) = n * BlocksPerPart + e BY ONLY <1>2, <1>3, <1>4, <1>5, <1>6, TotalWithLast
<1>8. q \in Nat /\ \A m \in Nat : m < q <=> m * BlockSectors < D BY CeilFacts, GodAssumption
<1>9. subs \in 1 .. SubpartsPerPart /\ PartLen(D, n) \in 1 .. PartSize BY <1>2, PartFacts
<1>10. j \in Nat /\ j \in 0 .. subs - 1 /\ subs = j + 1 BY <1>9, GodAssumption
<1> HIDE DEF q, subs
<1>11. /\ c \in 1 .. BlocksPerSubpart
       /\ \A k \in Nat : k < c <=> k * BlockSectors < sl
       /\ sl \in 1 .. SubpartSize
  BY <1>2, <1>10, SubFacts DEF subs
<1>12. e = j * BlocksPerSubpart + c BY DEF e, DataOf, subs
\* the last subpart ends with the image
<1>13. D = start + p + sl
  <2>1. start \in Nat /\ start < D /\ PartLen(D, n) = Smaller(PartSize, D - start)
        /\ start = n * PartSize /\ PartSize \in Nat
    BY <1>2, PartFacts, Sizes DEF PartLen
  <2>2. ~(PartStart(n + 1) < D) /\ PartStart(n + 1) = (n + 1) * PartSize BY <1>1, <1>2, Sizes
  <2>3. (n + 1) * PartSize = n * PartSize + PartSize BY <1>2, <2>1
  <2>4. PartLen(D, n) = D - start BY <2>1, <2>2, <2>3 DEF Smaller
  <2>5. p \in Nat /\ p < PartLen(D, n) /\ sl = Smaller(SubpartSize, PartLen(D, n) - p)
    BY <1>2, <1>10, SubFacts DEF subs
  <2>6. ~((j + 1) * SubpartSize < PartLen(D, n)) /\ (j + 1) * SubpartSize = p + SubpartSize
        /\ SubpartSize \in Nat
    <3>1. \A m \in Nat : m < subs <=> m * SubpartSize < PartLen(D, n) BY <1>2, PartFacts DEF subs
    <3>2. j + 1 \in Nat /\ ~(j + 1 < subs) BY <1>10
    <3>3. ~((j + 1) * SubpartSize < PartLen(D, n)) BY <3>1, <3>2
    <3>4. SubpartSize \in Nat /\ (j + 1) * SubpartSize = p + SubpartSize BY <1>10, Sizes
    <3> QED BY <3>3, <3>4
  <2> HIDE DEF p, start, sl
  <2> QED BY <1>9, <2>1, <2>4, <2>5, <2>6 DEF Smaller
\* so the blocks before its last one do not take it in, and all do
<1> DEFINE r == n * BlocksPerPart + (j * BlocksPerSubpart + (c - 1))
<1>14. start = (n * BlocksPerPart) * BlockSectors BY DEF start, PartStart
<1>15. p = (j * BlocksPerSubpart) * BlockSectors
  <2>1. SubpartSize = BlocksPerSubpart * BlockSectors BY GodAssumption DEF SubpartSize
  <2> QED BY <1>10, <2>1, GodAssumption
<1>16. n * BlocksPerPart \in Nat /\ j * BlocksPerSubpart \in Nat /\ c - 1 \in Nat /\ c \in Nat
  BY <1>2, <1>3, <1>10, <1>11, GodAssumption
<1>17. r \in Nat /\ r + 1 = n * BlocksPerPart + e BY <1>12, <1>16
<1>18. (c - 1) * BlockSectors < sl /\ ~(c * BlockSectors < sl)
       /\ (c - 1) * BlockSectors \in Nat /\ c * BlockSectors = (c - 1) * BlockSectors + BlockSectors
  BY <1>11, <1>16, GodAssumption
<1>19. r * BlockSectors = start + p + (c - 1) * BlockSectors
    /\ (r + 1) * BlockSectors = start + p + c * BlockSectors
  BY <1>14, <1>15, <1>16, <1>18, GodAssumption
<1>20. start \in Nat /\ p \in Nat /\ sl \in Nat
  <2>1. SubpartSize \in Nat /\ BlockSectors \in Nat BY Sizes, GodAssumption
  <2> HIDE DEF start, p, sl
  <2>2. start \in Nat BY ONLY <1>14, <1>16, <2>1
  <2>3. p \in Nat BY ONLY <1>15, <1>16, <2>1
  <2>4. sl \in Nat BY ONLY <1>11, <2>1
  <2> QED BY ONLY <2>2, <2>3, <2>4
<1> HIDE DEF r, start, p, sl, c
<1>21. r * BlockSectors < D /\ ~((r + 1) * BlockSectors < D) BY <1>13, <1>18, <1>19, <1>20, GodAssumption
<1>22. r < q /\ ~(r + 1 < q) BY <1>8, <1>17, <1>21
<1>23. q = r + 1 BY <1>8, <1>17, <1>22
<1> QED BY <1>7, <1>17, <1>23 DEF q

-----------------------------------------------------------------------------
(* The inductive invariant                                                   *)

\* What hash_next_part() knows of file i after n of its subparts.
HashedPart(D, i, n) ==
  [sub_hash_lists |-> [j \in 1 .. n |-> SubTable(D, i, j - 1)],
   subpart_sizes |-> [j \in 1 .. n |-> SubLen(D, i, j - 1)]]
WholePart(D, i) == HashedPart(D, i, SubCount(D, i))

HeaderBlock(D) ==
  Header([blocks |-> DivCeil(D, BlockSectors), parts |-> PartCount(D),
          size |-> FileSize(D, PartCount(D) - 1) + (PartCount(D) - 1) * FullPartSize,
          mht_hash |-> Digest(Master(D, 0))])

\* What the driver has before file i, after m subparts of it, and at the end.
FilesBefore(D, i) ==
  [name \in 0 .. PartCount(D) |-> IF name < i THEN WholeFile(D, name) ELSE <<>>]
FilesAt(D, i, m) ==
  [name \in 0 .. PartCount(D) |->
     IF name < i THEN WholeFile(D, name) ELSE IF name = i THEN FileAfter(D, i, m) ELSE <<>>]
FilesDone(D) ==
  [name \in 0 .. PartCount(D) |->
     IF name = PartCount(D) THEN <<HeaderBlock(D)>> ELSE WholeFile(D, name)]

\* The first pass: its cursor, the tables so far, the part in work.
HashOK ==
  /\ data_size \in 1 .. MaxSectors
  /\ next_hash_part \in 0 .. PartCount(data_size)
  /\ hashing_done \in BOOLEAN
  /\ hashing_done <=> next_hash_part = PartCount(data_size)
  /\ raw_mhts = IF hashing_done THEN <<>> ELSE RawMhts(data_size, next_hash_part)
  /\ chained_mhts = IF hashing_done THEN Chained(RawMhts(data_size, PartCount(data_size)))
                                    ELSE <<>>
  /\ hashing_done => master_digest = Digest(Master(data_size, 0))
  /\ last_part_size = IF hashing_done THEN FileSize(data_size, PartCount(data_size) - 1) ELSE 0
  /\ \/ pc = "idle" /\ part = EmptyPart
     \/ /\ pc = "hashing" /\ ~hashing_done
        /\ \E n \in 0 .. SubCount(data_size, next_hash_part) :
             part = HashedPart(data_size, next_hash_part, n)

\* The second pass takes the parts of the first one after the other.
Taken(i) == i < current_part_index \/ (i = current_part_index /\ current_part # NoPart)

PartsOK ==
  precomputed_parts = [i \in 0 .. PartCount(data_size) - 1 |->
       IF i < next_hash_part /\ ~Taken(i) THEN WholePart(data_size, i) ELSE NoPart]

\* What has been handed over, by where the second pass stands.
BeforeFirst ==
  /\ current_part = NoPart /\ current_part_index = 0 /\ ~header_emitted
  /\ files = FilesBefore(data_size, 0)

Within ==
  /\ hashing_done /\ ~header_emitted
  /\ current_part_index \in 0 .. PartCount(data_size) - 1
  /\ current_part = WholePart(data_size, current_part_index)
  /\ current_subpart_index \in 0 .. SubCount(data_size, current_part_index)
  /\ files = FilesAt(data_size, current_part_index, current_subpart_index)

BehindLast ==
  /\ hashing_done /\ ~header_emitted
  /\ current_part = NoPart /\ current_part_index = PartCount(data_size)
  /\ files = FilesBefore(data_size, PartCount(data_size))

AtEnd ==
  /\ hashing_done /\ header_emitted
  /\ current_part = NoPart /\ current_part_index = PartCount(data_size)
  /\ files = FilesDone(data_size)

StreamOK ==
  /\ header_emitted \in BOOLEAN
  /\ current_subpart_index \in 0 .. SubpartsPerPart
  /\ last_entry_name \in 0 .. PartCount(data_size) \cup {NoName}
  /\ failures \in 0 .. MaxFailures
  /\ BeforeFirst \/ Within \/ BehindLast \/ AtEnd

IInv == HashOK /\ PartsOK /\ StreamOK

-----------------------------------------------------------------------------
(* The invariant holds initially and is kept                                 *)

\* Parts as they are hashed.
LEMMA HashedPartFacts ==
  ASSUME NEW D, NEW i, NEW n \in Nat
  PROVE  /\ HasLen(HashedPart(D, i, n).sub_hash_lists, n)
         /\ HasLen(HashedPart(D, i, n).subpart_sizes, n)
         /\ Len(HashedPart(D, i, n).sub_hash_lists) = n
         /\ Len(HashedPart(D, i, n).subpart_sizes) = n
         /\ \A j \in 1 .. n :
              /\ HashedPart(D, i, n).sub_hash_lists[j] = SubTable(D, i, j - 1)
              /\ HashedPart(D, i, n).subpart_sizes[j] = SubLen(D, i, j - 1)
<1> DEFINE s == HashedPart(D, i, n).sub_hash_lists
           t == HashedPart(D, i, n).subpart_sizes
<1>1. s = [j \in 1 .. n |-> SubTable(D, i, j - 1)] BY DEF HashedPart
<1>2. t = [j \in 1 .. n |-> SubLen(D, i, j - 1)] BY DEF HashedPart
<1> HIDE DEF s, t
<1>3. HasLen(s, n) /\ HasLen(t, n) BY <1>1, <1>2 DEF HasLen
<1>4. Len(s) = n /\ Len(t) = n BY <1>3, SequenceLength
<1> QED BY <1>1, <1>2, <1>3, <1>4 DEF s, t

LEMMA HashedPartGrows ==
  ASSUME NEW D, NEW i, NEW n \in Nat
  PROVE  HashedPart(D, i, n + 1) = [sub_hash_lists |->
                Append(HashedPart(D, i, n).sub_hash_lists, SubTable(D, i, n)),
              subpart_sizes |-> Append(HashedPart(D, i, n).subpart_sizes, SubLen(D, i, n))]
<1> DEFINE s == HashedPart(D, i, n).sub_hash_lists
           t == HashedPart(D, i, n).subpart_sizes
           u == HashedPart(D, i, n + 1).sub_hash_lists
           v == HashedPart(D, i, n + 1).subpart_sizes
<1>1. /\ HasLen(s, n) /\ HasLen(t, n)
      /\ \A j \in 1 .. n : s[j] = SubTable(D, i, j - 1) /\ t[j] = SubLen(D, i, j - 1)
  BY HashedPartFacts
<1>2. n + 1 \in Nat OBVIOUS
<1>3. /\ HasLen(u, n + 1) /\ HasLen(v, n + 1)
      /\ \A j \in 1 .. n + 1 : u[j] = SubTable(D, i, j - 1) /\ v[j] = SubLen(D, i, j - 1)
  BY <1>2, HashedPartFacts
<1>4. HashedPart(D, i, n + 1) = [sub_hash_lists |-> u, subpart_sizes |-> v] BY DEF HashedPart
<1> HIDE DEF s, t, u, v
<1>5. Append(s, SubTable(D, i, n)) = u
  <2> DEFINE r == Append(s, SubTable(D, i, n))
  <2>1. IsAppend(r, s, n, SubTable(D, i, n)) BY <1>1, SequenceAppend
  <2> HIDE DEF r
  <2>2. HasLen(r, n + 1) BY <2>1 DEF IsAppend
  <2>3. ASSUME NEW j \in 1 .. n + 1 PROVE r[j] = u[j]
    <3>1. r[j] = IF j <= n THEN s[j] ELSE SubTable(D, i, n) BY <2>1 DEF IsAppend
    <3>2. CASE j <= n BY <1>1, <1>3, <3>1, <3>2
    <3>3. CASE j = n + 1
      <4>1. j - 1 = n BY <3>3
      <4> QED BY <1>3, <3>1, <3>3, <4>1
    <3> QED BY <3>2, <3>3
  <2>4. r = u BY <1>3, <2>2, <2>3, SequenceSame
  <2> QED BY <2>4 DEF r
<1>6. Append(t, SubLen(D, i, n)) = v
  <2> DEFINE r == Append(t, SubLen(D, i, n))
  <2>1. IsAppend(r, t, n, SubLen(D, i, n)) BY <1>1, SequenceAppend
  <2> HIDE DEF r
  <2>2. HasLen(r, n + 1) BY <2>1 DEF IsAppend
  <2>3. ASSUME NEW j \in 1 .. n + 1 PROVE r[j] = v[j]
    <3>1. r[j] = IF j <= n THEN t[j] ELSE SubLen(D, i, n) BY <2>1 DEF IsAppend
    <3>2. CASE j <= n BY <1>1, <1>3, <3>1, <3>2
    <3>3. CASE j = n + 1
      <4>1. j - 1 = n BY <3>3
      <4> QED BY <1>3, <3>1, <3>3, <4>1
    <3> QED BY <3>2, <3>3
  <2>4. r = v BY <1>3, <2>2, <2>3, SequenceSame
  <2> QED BY <2>4 DEF r
<1> QED BY <1>4, <1>5, <1>6 DEF s, t

\* No part of the package is the absent one: its first subpart is not empty.
LEMMA PartIsPart ==
  ASSUME NEW D \in Nat \ {0}, NEW i \in 0 .. PartCount(D) - 1
  PROVE  WholePart(D, i) # NoPart
<1> DEFINE n == SubCount(D, i)
<1>1. n \in 1 .. SubpartsPerPart BY PartFacts
<1>2. n \in Nat /\ 1 \in 1 .. n /\ 0 \in 0 .. n - 1 BY <1>1, GodAssumption
<1>3. SubLen(D, i, 0) \in 1 .. SubpartSize BY <1>2, SubFacts
<1> HIDE DEF n
<1>4. HashedPart(D, i, n).subpart_sizes[1] = SubLen(D, i, 1 - 1) BY <1>2, HashedPartFacts
<1>5. NoPart.subpart_sizes[1] = 0 BY DEF NoPart
<1>6. SubLen(D, i, 1 - 1) # 0 BY <1>3, Sizes
<1> QED BY <1>4, <1>5, <1>6 DEF WholePart, n

\* The state's counts are the layout's.
LEMMA Counts ==
  /\ part_count = PartCount(data_size)
  /\ block_count = DivCeil(data_size, BlockSectors)
  /\ Names = 0 .. PartCount(data_size)
  /\ HeaderName = PartCount(data_size)
  /\ HashOK => /\ data_size \in Nat \ {0}
               /\ PartCount(data_size) \in Nat \ {0}
               /\ \A i \in 0 .. PartCount(data_size) - 1 :
                    OutputManifest[i + 1] = FileSize(data_size, i)
<1>1. part_count = PartCount(data_size) BY DEF part_count, block_count, PartCount
<1>2. HashOK => data_size \in Nat \ {0} BY GodAssumption DEF HashOK
<1>3. HashOK => PartCount(data_size) \in Nat \ {0} BY <1>2, PartRange
<1>4. ASSUME HashOK, NEW i \in 0 .. PartCount(data_size) - 1
      PROVE  OutputManifest[i + 1] = FileSize(data_size, i)
  <2>1. i + 1 \in 1 .. part_count + 1 /\ i + 1 # part_count + 1 /\ (i + 1) - 1 = i BY <1>1, <1>3, <1>4
  <2>2. OutputManifest[i + 1]
      = LET bytes == Smaller(SubpartsPerPart * SubpartSize, data_size - PartStart((i + 1) - 1))
        IN BlockSectors + PlannedSubparts(bytes) * BlockSectors + bytes
    BY <2>1 DEF OutputManifest
  <2> QED BY <2>1, <2>2 DEF FileSize, SubCount, PartLen, PartSize
<1> QED BY <1>1, <1>2, <1>3, <1>4 DEF block_count, Names, HeaderName

LEMMA InitHolds == Init => IInv
<1> SUFFICES ASSUME Init PROVE IInv OBVIOUS
<1>1. data_size \in 1 .. MaxSectors /\ data_size \in Nat \ {0} BY GodAssumption DEF Init
<1>2. PartCount(data_size) \in Nat \ {0} BY <1>1, PartRange
<1>3. RawMhts(data_size, 0) = <<>> BY DEF RawMhts
<1>4. HashOK
  <2>1. next_hash_part = 0 /\ 0 \in 0 .. PartCount(data_size) /\ 0 # PartCount(data_size) BY <1>2 DEF Init
  <2>2. /\ hashing_done = FALSE /\ raw_mhts = <<>> /\ chained_mhts = <<>>
        /\ last_part_size = 0 /\ pc = "idle" /\ part = EmptyPart
    BY DEF Init
  <2> QED BY <1>1, <1>3, <2>1, <2>2 DEF HashOK
<1>5. PartsOK
  <2>1. \A i \in 0 .. PartCount(data_size) - 1 : ~(i < next_hash_part) BY <1>2 DEF Init
  <2>2. precomputed_parts = [i \in 0 .. PartCount(data_size) - 1 |-> NoPart] BY Counts DEF Init
  <2> QED BY <2>1, <2>2 DEF PartsOK
<1>6. StreamOK
  <2>1. files = FilesBefore(data_size, 0)
    <3>1. files = [name \in 0 .. PartCount(data_size) |-> <<>>] BY Counts DEF Init
    <3>2. \A name \in 0 .. PartCount(data_size) : ~(name < 0) BY <1>2
    <3> QED BY <3>1, <3>2 DEF FilesBefore
  <2>2. 0 \in 0 .. SubpartsPerPart /\ 0 \in 0 .. MaxFailures BY GodAssumption
  <2> QED BY <2>1, <2>2 DEF Init, StreamOK, BeforeFirst
<1> QED BY <1>4, <1>5, <1>6 DEF IInv

LEMMA StuttersKeep == IInv /\ UNCHANGED vars => IInv'
<1> SUFFICES ASSUME IInv, UNCHANGED vars PROVE IInv' OBVIOUS
<1> USE DEF vars, hashVars, streamVars
<1>1. HashOK' BY DEF IInv, HashOK
<1>2. PartsOK' BY DEF IInv, PartsOK, Taken
<1>3. StreamOK' BY DEF IInv, StreamOK, BeforeFirst, Within, BehindLast, AtEnd
<1> QED BY <1>1, <1>2, <1>3 DEF IInv

\* While the first pass runs, the second has not begun.
LEMMA StreamWaits ==
  ASSUME IInv, ~hashing_done
  PROVE  BeforeFirst /\ next_hash_part \in 0 .. PartCount(data_size) - 1
<1>1. BeforeFirst BY DEF IInv, StreamOK, Within, BehindLast, AtEnd
<1>2. next_hash_part # PartCount(data_size) /\ next_hash_part \in 0 .. PartCount(data_size)
  BY DEF IInv, HashOK
<1>3. PartCount(data_size) \in Nat BY Counts DEF IInv
<1> QED BY <1>1, <1>2, <1>3

LEMMA HashNextPartKeeps == IInv /\ HashNextPart => IInv'
<1> SUFFICES ASSUME IInv, HashNextPart PROVE IInv' OBVIOUS
<1> USE DEF hashVars, streamVars
<1>1. EmptyPart = HashedPart(data_size, next_hash_part, 0) BY DEF EmptyPart, HashedPart
<1>2. 0 \in 0 .. SubCount(data_size, next_hash_part)
  <2>1. next_hash_part \in 0 .. PartCount(data_size) - 1 /\ data_size \in Nat \ {0}
    BY StreamWaits, Counts DEF HashNextPart, IInv
  <2>2. SubCount(data_size, next_hash_part) \in 1 .. SubpartsPerPart BY <2>1, PartFacts
  <2> QED BY <2>2, GodAssumption
<1>3. HashOK' BY <1>1, <1>2 DEF HashNextPart, IInv, HashOK
<1>4. PartsOK' BY DEF HashNextPart, IInv, PartsOK, Taken
<1>5. StreamOK' BY DEF HashNextPart, IInv, StreamOK, BeforeFirst, Within, BehindLast, AtEnd
<1> QED BY <1>3, <1>4, <1>5 DEF IInv

\* A hashing call in the middle: the subparts it has read, and whether there
\* is another one.
LEMMA HashingAt ==
  ASSUME IInv, pc = "hashing"
  PROVE  /\ ~hashing_done
         /\ \E n \in 0 .. SubCount(data_size, next_hash_part) :
              /\ part = HashedPart(data_size, next_hash_part, n)
              /\ n \in Nat
              /\ SubpartStart = SubStart(next_hash_part, n)
              /\ MoreSubparts <=> n < SubCount(data_size, next_hash_part)
<1>1. ~hashing_done BY DEF IInv, HashOK
<1>2. PICK n \in 0 .. SubCount(data_size, next_hash_part) :
    part = HashedPart(data_size, next_hash_part, n)
  BY DEF IInv, HashOK
<1>3. next_hash_part \in 0 .. PartCount(data_size) - 1 /\ data_size \in Nat \ {0}
  BY <1>1, StreamWaits, Counts DEF IInv
<1>4. n \in Nat BY <1>3, PartFacts
<1>5. Len(part.sub_hash_lists) = n BY <1>2, <1>4, HashedPartFacts
<1>6. SubpartStart = SubStart(next_hash_part, n) BY <1>5 DEF SubpartStart, SubStart
<1>7. MoreSubparts <=> n < SubCount(data_size, next_hash_part)
  <2>1. n < SubCount(data_size, next_hash_part)
      <=> n < SubpartsPerPart /\ SubStart(next_hash_part, n) < data_size
    BY <1>3, <1>4, PartFacts
  <2> QED BY <1>5, <1>6, <2>1 DEF MoreSubparts
<1> QED BY <1>1, <1>2, <1>4, <1>6, <1>7

LEMMA HashSubpartKeeps == IInv /\ HashSubpart => IInv'
<1> SUFFICES ASSUME IInv, HashSubpart PROVE IInv' OBVIOUS
<1> USE DEF hashVars, streamVars
<1> DEFINE i == next_hash_part
<1>1. pc = "hashing" /\ ~hashing_done BY HashingAt DEF HashSubpart
<1>2. PICK n \in 0 .. SubCount(data_size, i) :
    /\ part = HashedPart(data_size, i, n)
    /\ n \in Nat
    /\ SubpartStart = SubStart(i, n)
    /\ MoreSubparts <=> n < SubCount(data_size, i)
  BY <1>1, HashingAt
<1>3. n < SubCount(data_size, i) BY <1>2 DEF HashSubpart
<1>4. i \in 0 .. PartCount(data_size) - 1 /\ data_size \in Nat \ {0} BY <1>1, StreamWaits, Counts DEF IInv
<1>5. SubCount(data_size, i) \in Nat BY <1>4, PartFacts, GodAssumption
<1>6. Smaller(SubpartSize, data_size - SubpartStart) = SubLen(data_size, i, n) BY <1>2 DEF SubLen
<1>7. LET blocks == Blocks(SubpartStart, SubLen(data_size, i, n))
      IN Table([k \in DOMAIN blocks |-> Digest(blocks[k])]) = SubTable(data_size, i, n)
  <2>1. Blocks(SubpartStart, SubLen(data_size, i, n))
      = [k \in 1 .. BlockCount(data_size, i, n) |-> DataBlock(data_size, i, n, k)]
    BY <1>2, BlocksOfSubpart
  <2> QED BY <2>1 DEF SubTable
<1>8. part' = [sub_hash_lists |-> Append(part.sub_hash_lists, SubTable(data_size, i, n)),
    subpart_sizes |-> Append(part.subpart_sizes, SubLen(data_size, i, n))]
  BY <1>6, <1>7 DEF HashSubpart
<1>9. part' = HashedPart(data_size, i, n + 1) BY <1>2, <1>8, HashedPartGrows
<1>10. n + 1 \in 0 .. SubCount(data_size, i) BY <1>2, <1>3, <1>5
<1>11. HashOK' BY <1>1, <1>9, <1>10 DEF HashSubpart, IInv, HashOK
<1>12. PartsOK' BY DEF HashSubpart, IInv, PartsOK, Taken
<1>13. StreamOK' BY DEF HashSubpart, IInv, StreamOK, BeforeFirst, Within, BehindLast, AtEnd
<1> QED BY <1>11, <1>12, <1>13 DEF IInv

LEMMA HashingFailsKeeps == IInv /\ HashingFails => IInv'
<1> SUFFICES ASSUME IInv, HashingFails PROVE IInv' OBVIOUS
<1> USE DEF hashVars, streamVars
<1>1. HashOK' BY DEF HashingFails, IInv, HashOK
<1>2. PartsOK' BY DEF HashingFails, IInv, PartsOK, Taken
<1>3. failures' \in 0 .. MaxFailures BY GodAssumption DEF HashingFails, IInv, StreamOK
<1>4. StreamOK' BY <1>3 DEF HashingFails, IInv, StreamOK, BeforeFirst, Within, BehindLast, AtEnd
<1> QED BY <1>1, <1>2, <1>4 DEF IInv

\* What hash_next_part() keeps of a part that is through.
LEMMA PartHashed ==
  ASSUME IInv, pc = "hashing", ~MoreSubparts
  PROVE  /\ part = WholePart(data_size, next_hash_part)
         /\ MhtEntries = RawMht(data_size, next_hash_part)
         /\ ActualSize = FileSize(data_size, next_hash_part)
<1> DEFINE i == next_hash_part
           n == SubCount(data_size, i)
<1>1. i \in 0 .. PartCount(data_size) - 1 /\ data_size \in Nat \ {0}
  BY HashingAt, StreamWaits, Counts DEF IInv
<1>2. n \in 1 .. SubpartsPerPart /\ n \in Nat BY <1>1, PartFacts, GodAssumption
<1>3. PICK m \in 0 .. n : /\ part = HashedPart(data_size, i, m)
                          /\ m \in Nat
                          /\ MoreSubparts <=> m < n
  BY HashingAt
<1>4. m = n BY <1>2, <1>3
<1>5. part = WholePart(data_size, i) BY <1>3, <1>4 DEF WholePart
<1> DEFINE lists == part.sub_hash_lists
           sizes == part.subpart_sizes
<1>6. /\ HasLen(lists, n) /\ HasLen(sizes, n) /\ Len(lists) = n
      /\ \A j \in 1 .. n : /\ lists[j] = SubTable(data_size, i, j - 1)
                           /\ sizes[j] = SubLen(data_size, i, j - 1)
  BY <1>2, <1>5, HashedPartFacts DEF WholePart
<1>7. MhtEntries = [k \in DOMAIN lists |-> Digest(lists[k])] BY DEF MhtEntries
<1>8. ActualSize = BlockSectors + n * BlockSectors + Total(sizes) BY <1>6 DEF ActualSize
<1> HIDE DEF lists, sizes
<1>9. MhtEntries = RawMht(data_size, i)
  <2>1. DOMAIN lists = 1 .. n BY <1>6, SequenceLength
  <2> QED BY <1>6, <1>7, <2>1 DEF RawMht
<1>10. Total(sizes) = PartLen(data_size, i)
  <2> DEFINE T == [k \in 0 .. n |-> Streamed(data_size, i, k)]
  <2>1. /\ Streamed(data_size, i, 0) = 0
        /\ Streamed(data_size, i, n) = PartLen(data_size, i)
        /\ \A k \in 0 .. n : Streamed(data_size, i, k) \in 0 .. PartLen(data_size, i)
        /\ \A j \in 0 .. n - 1 :
             Streamed(data_size, i, j + 1) = Streamed(data_size, i, j) + SubLen(data_size, i, j)
    BY <1>1, StreamedGrows
  <2>2. PartLen(data_size, i) \in Nat BY <1>1, PartFacts, Sizes
  <2>3. T \in [0 .. n -> Nat] /\ T[0] = 0 /\ T[n] = PartLen(data_size, i) BY <1>2, <2>1, <2>2
  <2>4. ASSUME NEW k \in 1 .. n
        PROVE  T[k] = T[k - 1] + sizes[k] /\ sizes[k] \in Nat
    <3>1. k - 1 \in 0 .. n - 1 /\ (k - 1) + 1 = k /\ k \in 0 .. n /\ k - 1 \in 0 .. n BY <1>2
    <3>2. Streamed(data_size, i, (k - 1) + 1)
        = Streamed(data_size, i, k - 1) + SubLen(data_size, i, k - 1)
      BY <2>1, <3>1
    <3>3. SubLen(data_size, i, k - 1) \in 1 .. SubpartSize BY <1>1, <3>1, SubFacts
    <3>4. T[k] = Streamed(data_size, i, k) /\ T[k - 1] = Streamed(data_size, i, k - 1) BY <3>1
    <3>5. sizes[k] = SubLen(data_size, i, k - 1) BY <1>6
    <3>6. SubLen(data_size, i, k - 1) \in Nat BY <3>3, Sizes
    <3> QED BY <3>1, <3>2, <3>4, <3>5, <3>6
  <2> HIDE DEF T
  <2>5. IsSum(T, sizes, n) BY <2>3, <2>4 DEF IsSum
  <2>6. \A k \in 1 .. n : sizes[k] \in Nat BY <2>4
  <2> HIDE DEF n
  <2>7. Total(sizes) = T[n] BY ONLY <1>2, <1>6, <2>5, <2>6, TotalBy
  <2> QED BY <2>3, <2>7
<1> QED BY <1>5, <1>8, <1>9, <1>10 DEF FileSize

\* The raw master tables, one more.
LEMMA RawMhtsGrow ==
  ASSUME NEW D, NEW n \in Nat
  PROVE  Append(RawMhts(D, n), RawMht(D, n)) = RawMhts(D, n + 1)
<1> DEFINE s == RawMhts(D, n)
           r == Append(s, RawMht(D, n))
           u == RawMhts(D, n + 1)
<1>1. HasLen(s, n) /\ \A j \in 1 .. n : s[j] = RawMht(D, j - 1) BY DEF HasLen, RawMhts
<1>2. HasLen(u, n + 1) /\ \A j \in 1 .. n + 1 : u[j] = RawMht(D, j - 1) BY DEF HasLen, RawMhts
<1> HIDE DEF s, u
<1>3. IsAppend(r, s, n, RawMht(D, n)) BY <1>1, SequenceAppend
<1> HIDE DEF r
<1>4. HasLen(r, n + 1) BY <1>3 DEF IsAppend
<1>5. ASSUME NEW j \in 1 .. n + 1 PROVE r[j] = u[j]
  <2>1. r[j] = IF j <= n THEN s[j] ELSE RawMht(D, n) BY <1>3 DEF IsAppend
  <2>2. CASE j <= n BY <1>1, <1>2, <2>1, <2>2
  <2>3. CASE j = n + 1
    <3>1. j - 1 = n BY <2>3
    <3> QED BY <1>2, <2>1, <2>3, <3>1
  <2> QED BY <2>2, <2>3
<1>6. r = u BY <1>2, <1>4, <1>5, SequenceSame
<1> QED BY <1>6 DEF r, s, u

LEMMA FinishPartKeeps == IInv /\ FinishPart => IInv'
<1> SUFFICES ASSUME IInv, FinishPart PROVE IInv' OBVIOUS
<1> USE DEF hashVars, streamVars
<1> DEFINE D == data_size
           i == next_hash_part
           n == PartCount(D)
<1>1. ~hashing_done /\ BeforeFirst /\ i \in 0 .. n - 1 BY HashingAt, StreamWaits DEF FinishPart
<1>2. D \in Nat \ {0} /\ n \in Nat \ {0} /\ part_count = n BY Counts DEF IInv
<1>3. /\ part = WholePart(D, i)
      /\ MhtEntries = RawMht(D, i)
      /\ ActualSize = FileSize(D, i)
  BY PartHashed DEF FinishPart
<1>4. raw_mhts = RawMhts(D, i) /\ chained_mhts = <<>> /\ last_part_size = 0 BY <1>1 DEF IInv, HashOK
<1>5. Append(raw_mhts, MhtEntries) = RawMhts(D, i + 1)
  <2>1. i \in Nat BY <1>1, <1>2
  <2>2. Append(RawMhts(D, i), RawMht(D, i)) = RawMhts(D, i + 1) BY <2>1, RawMhtsGrow
  <2> QED BY ONLY <1>3, <1>4, <2>2
<1>6. i + 1 \in 0 .. n /\ (i = n - 1 <=> i + 1 = n) /\ i \in Nat BY <1>1, <1>2
<1>7. /\ data_size' = D /\ next_hash_part' = i + 1 /\ part' = EmptyPart /\ pc' = "idle"
      /\ precomputed_parts' = [precomputed_parts EXCEPT ![i] = part]
      /\ hashing_done' = (i = n - 1)
  BY <1>2 DEF FinishPart
<1>8. raw_mhts' = IF i = n - 1 THEN <<>> ELSE RawMhts(D, i + 1) BY <1>2, <1>5 DEF FinishPart, RawMhtsLeft
<1>9. last_part_size' = IF i = n - 1 THEN FileSize(D, n - 1) ELSE 0 BY <1>2, <1>3, <1>4 DEF FinishPart
<1>10. chained_mhts' = IF i = n - 1 THEN Chained(RawMhts(D, n)) ELSE <<>>
  BY <1>2, <1>4, <1>5, <1>6 DEF FinishPart
<1>11. i = n - 1 => master_digest' = Digest(Master(D, 0))
  <2> SUFFICES ASSUME i = n - 1 PROVE master_digest' = Digest(Master(D, 0)) OBVIOUS
  <2>1. master_digest' = Digest(chained_mhts'[1]) BY <1>2 DEF FinishPart
  <2>2. Master(D, 0) = Chained(RawMhts(D, n))[1] BY DEF Master
  <2> QED BY <1>10, <2>1, <2>2
<1> HIDE DEF D, i, n
<1>12. HashOK'
  <2>1. D \in 1 .. MaxSectors BY DEF IInv, HashOK, D
  <2>2. PartCount(data_size)' = n /\ data_size' = D BY <1>7 DEF n, D
  <2>3. hashing_done' \in BOOLEAN /\ (hashing_done' <=> i + 1 = n) BY <1>6, <1>7
  <2> QED BY <1>6, <1>7, <1>8, <1>9, <1>10, <1>11, <2>1, <2>2, <2>3 DEF HashOK
<1>13. PartsOK'
  <2>1. /\ current_part' = NoPart /\ current_part_index' = 0
        /\ current_part = NoPart /\ current_part_index = 0
    BY <1>1 DEF BeforeFirst, FinishPart
  <2>2. \A k \in 0 .. n - 1 : k \in Nat /\ ~Taken(k) /\ ~Taken(k)' BY <1>2, <2>1 DEF Taken
  <2>3. precomputed_parts = [k \in 0 .. n - 1 |-> IF k < i THEN WholePart(D, k) ELSE NoPart]
    BY <2>2 DEF IInv, PartsOK, n, D, i
  <2>4. precomputed_parts'
      = [k \in 0 .. n - 1 |-> IF k < i + 1 THEN WholePart(D, k) ELSE NoPart]
    <3> DEFINE before == [k \in 0 .. n - 1 |-> IF k < i THEN WholePart(D, k) ELSE NoPart]
    <3>1. precomputed_parts' = [before EXCEPT ![i] = WholePart(D, i)] BY <1>3, <1>7, <2>3
    <3>2. i \in 0 .. n - 1 /\ n \in Nat BY <1>1, <1>2 DEF i, n
    <3>3. [before EXCEPT ![i] = WholePart(D, i)]
        = [k \in 0 .. n - 1 |-> IF k < i + 1 THEN WholePart(D, k) ELSE NoPart]
      <4>1. [before EXCEPT ![i] = WholePart(D, i)]
          = [k \in 0 .. n - 1 |-> IF k = i THEN WholePart(D, i) ELSE before[k]]
        OBVIOUS
      <4>2. ASSUME NEW k \in 0 .. n - 1
            PROVE  (IF k = i THEN WholePart(D, i) ELSE before[k])
                     = (IF k < i + 1 THEN WholePart(D, k) ELSE NoPart)
        <5>1. k \in Int /\ i \in Int BY <3>2
        <5>2. before[k] = IF k < i THEN WholePart(D, k) ELSE NoPart OBVIOUS
        <5> HIDE DEF before
        <5>3. CASE k = i BY <5>1, <5>3
        <5>4. CASE k # i
          <6>1. k < i + 1 <=> k < i BY <5>1, <5>4
          <6> QED BY <5>2, <5>4, <6>1
        <5> QED BY <5>3, <5>4
      <4> HIDE DEF before
      <4> QED BY <4>1, <4>2
    <3> QED BY <3>1, <3>3
  <2>5. next_hash_part' = i + 1 /\ data_size' = D /\ PartCount(data_size)' = n BY <1>7 DEF n, D
  <2> QED BY <2>2, <2>4, <2>5 DEF PartsOK
<1>14. StreamOK' BY <1>1 DEF FinishPart, IInv, StreamOK, BeforeFirst
<1> QED BY <1>12, <1>13, <1>14 DEF IInv

\* What the driver has, from one call to the next.
LEMMA FilesOpened ==
  ASSUME NEW D \in Nat \ {0}, NEW i \in 0 .. PartCount(D) - 1
  PROVE  [FilesBefore(D, i) EXCEPT ![i] = @ \o <<Master(D, i)>>] = FilesAt(D, i, 0)
<1>1. PartCount(D) \in Nat /\ i \in Nat /\ i \in 0 .. PartCount(D) BY PartRange
<1>2. FilesBefore(D, i)[i] = <<>> BY <1>1 DEF FilesBefore
<1>3. <<>> \o <<Master(D, i)>> = <<Master(D, i)>> OBVIOUS
<1>4. FileAfter(D, i, 0) = <<Master(D, i)>>
  <2>1. FileLen(D, i, 0) = 1 BY DEF FileLen
  <2>2. FileBlock(D, i, 1) = Master(D, i) BY DEF FileBlock
  <2> QED BY <2>1, <2>2 DEF FileAfter
<1>5. [FilesBefore(D, i) EXCEPT ![i] = @ \o <<Master(D, i)>>]
    = [name \in 0 .. PartCount(D) |->
         IF name = i THEN <<Master(D, i)>> ELSE FilesBefore(D, i)[name]]
  BY <1>1, <1>2, <1>3 DEF FilesBefore
<1>6. ASSUME NEW name \in 0 .. PartCount(D)
      PROVE  (IF name = i THEN <<Master(D, i)>> ELSE FilesBefore(D, i)[name])
               = FilesAt(D, i, 0)[name]
  <2>1. FilesAt(D, i, 0)[name] = IF name < i THEN WholeFile(D, name)
      ELSE IF name = i THEN <<Master(D, i)>> ELSE <<>>
    BY <1>4 DEF FilesAt
  <2>2. FilesBefore(D, i)[name] = IF name < i THEN WholeFile(D, name) ELSE <<>> BY DEF FilesBefore
  <2> QED BY <1>1, <2>1, <2>2
<1>7. FilesAt(D, i, 0) = [name \in 0 .. PartCount(D) |-> FilesAt(D, i, 0)[name]] BY DEF FilesAt
<1> QED BY <1>5, <1>6, <1>7

LEMMA FilesGrow ==
  ASSUME NEW D \in Nat \ {0}, NEW i \in 0 .. PartCount(D) - 1,
         NEW m \in 0 .. SubCount(D, i) - 1
  PROVE  [FilesAt(D, i, m) EXCEPT ![i] = @ \o Addition(D, i, m)] = FilesAt(D, i, m + 1)
<1>1. PartCount(D) \in Nat /\ i \in Nat /\ i \in 0 .. PartCount(D) BY PartRange
<1>2. FilesAt(D, i, m)[i] = FileAfter(D, i, m) BY <1>1 DEF FilesAt
<1>3. FileAfter(D, i, m) \o Addition(D, i, m) = FileAfter(D, i, m + 1) BY FileGrows
<1>4. [FilesAt(D, i, m) EXCEPT ![i] = @ \o Addition(D, i, m)]
    = [name \in 0 .. PartCount(D) |->
         IF name = i THEN FileAfter(D, i, m + 1) ELSE FilesAt(D, i, m)[name]]
  BY <1>1, <1>2, <1>3 DEF FilesAt
<1>5. ASSUME NEW name \in 0 .. PartCount(D)
      PROVE  (IF name = i THEN FileAfter(D, i, m + 1) ELSE FilesAt(D, i, m)[name])
               = FilesAt(D, i, m + 1)[name]
  <2>1. \A k : FilesAt(D, i, k)[name] = IF name < i THEN WholeFile(D, name)
      ELSE IF name = i THEN FileAfter(D, i, k) ELSE <<>>
    BY DEF FilesAt
  <2> QED BY <1>1, <2>1
<1>6. FilesAt(D, i, m + 1) = [name \in 0 .. PartCount(D) |-> FilesAt(D, i, m + 1)[name]] BY DEF FilesAt
<1> QED BY <1>4, <1>5, <1>6

LEMMA FilesClosed ==
  ASSUME NEW D \in Nat \ {0}, NEW i \in 0 .. PartCount(D) - 1
  PROVE  FilesAt(D, i, SubCount(D, i)) = FilesBefore(D, i + 1)
<1>1. PartCount(D) \in Nat /\ i \in Nat BY PartRange
<1> DEFINE n == SubCount(D, i)
<1>2. WholeFile(D, i) = FileAfter(D, i, n) BY DEF WholeFile
<1> HIDE DEF n
<1>3. ASSUME NEW name \in 0 .. PartCount(D)
      PROVE  FilesAt(D, i, n)[name] = FilesBefore(D, i + 1)[name]
  <2>1. FilesAt(D, i, n)[name] = IF name < i THEN WholeFile(D, name)
      ELSE IF name = i THEN FileAfter(D, i, n) ELSE <<>>
    BY DEF FilesAt
  <2>2. FilesBefore(D, i + 1)[name] = IF name < i + 1 THEN WholeFile(D, name) ELSE <<>> BY DEF FilesBefore
  <2>3. CASE name = i BY <1>1, <1>2, <2>1, <2>2, <2>3
  <2>4. CASE name < i BY <1>1, <2>1, <2>2, <2>4
  <2>5. CASE name > i BY <1>1, <2>1, <2>2, <2>5
  <2> QED BY <1>1, <2>3, <2>4, <2>5
<1>4. FilesAt(D, i, n) = [name \in 0 .. PartCount(D) |-> FilesAt(D, i, n)[name]] BY DEF FilesAt
<1>5. FilesBefore(D, i + 1)
    = [name \in 0 .. PartCount(D) |-> FilesBefore(D, i + 1)[name]]
  BY DEF FilesBefore
<1>6. FilesAt(D, i, n) = FilesBefore(D, i + 1) BY <1>3, <1>4, <1>5
<1> QED BY <1>6 DEF n

LEMMA FilesFinished ==
  ASSUME NEW D \in Nat \ {0}
  PROVE  [FilesBefore(D, PartCount(D)) EXCEPT ![PartCount(D)] = @ \o <<HeaderBlock(D)>>]
           = FilesDone(D)
<1> DEFINE n == PartCount(D)
<1>1. n \in Nat /\ n \in 0 .. n BY PartRange
<1>2. FilesBefore(D, n)[n] = <<>> BY <1>1 DEF FilesBefore
<1>3. [FilesBefore(D, n) EXCEPT ![n] = @ \o <<HeaderBlock(D)>>]
    = [name \in 0 .. n |-> IF name = n THEN <<HeaderBlock(D)>> ELSE FilesBefore(D, n)[name]]
  <2>1. <<>> \o <<HeaderBlock(D)>> = <<HeaderBlock(D)>> OBVIOUS
  <2> QED BY <1>1, <1>2, <2>1 DEF FilesBefore
<1>4. ASSUME NEW name \in 0 .. n
      PROVE  (IF name = n THEN <<HeaderBlock(D)>> ELSE FilesBefore(D, n)[name])
               = FilesDone(D)[name]
  <2>1. FilesDone(D)[name] = IF name = n THEN <<HeaderBlock(D)>> ELSE WholeFile(D, name) BY DEF FilesDone
  <2>2. FilesBefore(D, n)[name] = IF name < n THEN WholeFile(D, name) ELSE <<>> BY DEF FilesBefore
  <2>3. name # n => name < n BY <1>1
  <2> QED BY <2>1, <2>2, <2>3
<1>5. FilesDone(D) = [name \in 0 .. n |-> FilesDone(D)[name]] BY DEF FilesDone
<1> QED BY <1>3, <1>4, <1>5

\* A streaming call between parts goes on with part index, everything before
\* it is complete and nothing behind it has begun.
LEMMA BetweenAt ==
  ASSUME IInv, NEW index, BetweenParts(index)
  PROVE  /\ hashing_done /\ ~header_emitted /\ pc = "idle"
         /\ next_hash_part = PartCount(data_size)
         /\ index \in 0 .. PartCount(data_size)
         /\ files = FilesBefore(data_size, index)
         /\ \A k \in 0 .. PartCount(data_size) - 1 : Taken(k) <=> k < index
<1> DEFINE n == PartCount(data_size)
<1>1. hashing_done /\ ~header_emitted /\ pc = "idle" /\ next_hash_part = n
  BY DEF BetweenParts, IInv, HashOK
<1>2. data_size \in Nat \ {0} /\ n \in Nat \ {0} BY Counts DEF IInv
<1>3. BeforeFirst \/ Within \/ BehindLast BY <1>1 DEF IInv, StreamOK, AtEnd
<1>4. CASE BeforeFirst
  <2>1. index = 0 /\ current_part = NoPart /\ current_part_index = 0 BY <1>4 DEF BeforeFirst, BetweenParts
  <2>2. files = FilesBefore(data_size, index) BY <1>4, <2>1 DEF BeforeFirst
  <2>3. \A k \in 0 .. n - 1 : Taken(k) <=> k < index BY <1>2, <2>1 DEF Taken
  <2> QED BY <1>1, <1>2, <2>1, <2>2, <2>3
<1>5. CASE Within
  <2> DEFINE i == current_part_index
             m == SubCount(data_size, i)
  <2>1. /\ i \in 0 .. n - 1 /\ current_part = WholePart(data_size, i)
        /\ current_subpart_index \in 0 .. m
        /\ files = FilesAt(data_size, i, current_subpart_index)
    BY <1>5 DEF Within
  <2>2. current_part # NoPart BY <1>2, <2>1, PartIsPart
  <2>3. m \in Nat BY <1>2, <2>1, PartFacts, GodAssumption
  <2>4. Len(current_part.sub_hash_lists) = m BY <2>1, <2>3, HashedPartFacts DEF WholePart
  <2>5. index = i + 1 /\ current_subpart_index = m BY <2>1, <2>2, <2>3, <2>4 DEF BetweenParts
  <2>6. files = FilesBefore(data_size, index) BY <1>2, <2>1, <2>5, FilesClosed
  <2>7. \A k \in 0 .. n - 1 : Taken(k) <=> k < index BY <1>2, <2>1, <2>2, <2>5 DEF Taken
  <2> QED BY <1>1, <1>2, <2>1, <2>5, <2>6, <2>7
<1>6. CASE BehindLast
  <2>1. index = n /\ current_part = NoPart /\ current_part_index = n BY <1>6 DEF BehindLast, BetweenParts
  <2>2. files = FilesBefore(data_size, index) BY <1>6, <2>1 DEF BehindLast
  <2>3. \A k \in 0 .. n - 1 : Taken(k) <=> k < index BY <1>2, <2>1 DEF Taken
  <2> QED BY <1>1, <1>2, <2>1, <2>2, <2>3
<1> QED BY <1>3, <1>4, <1>5, <1>6

\* A streaming call inside a part goes on with its next subpart.
LEMMA InsideAt ==
  ASSUME IInv, InsidePart
  PROVE  /\ Within
         /\ current_subpart_index \in 0 .. SubCount(data_size, current_part_index) - 1
         /\ current_part_index \in 0 .. PartCount(data_size) - 1
         /\ LET k == current_subpart_index + 1
                start == PartStart(current_part_index) + current_subpart_index * SubpartSize
            IN <<current_part.sub_hash_lists[k]>> \o Blocks(start, current_part.subpart_sizes[k])
                 = Addition(data_size, current_part_index, current_subpart_index)
<1> DEFINE i == current_part_index
           j == current_subpart_index
           m == SubCount(data_size, i)
<1>1. Within BY DEF InsidePart, IInv, StreamOK, BeforeFirst, BehindLast, AtEnd
<1>2. /\ i \in 0 .. PartCount(data_size) - 1 /\ current_part = WholePart(data_size, i)
      /\ j \in 0 .. m
  BY <1>1 DEF Within
<1>3. data_size \in Nat \ {0} /\ m \in Nat BY <1>2, Counts, PartFacts, GodAssumption DEF IInv
<1>4. /\ Len(current_part.sub_hash_lists) = m
      /\ \A k \in 1 .. m : /\ current_part.sub_hash_lists[k] = SubTable(data_size, i, k - 1)
                           /\ current_part.subpart_sizes[k] = SubLen(data_size, i, k - 1)
  BY <1>2, <1>3, HashedPartFacts DEF WholePart
<1>5. j \in 0 .. m - 1 BY <1>2, <1>3, <1>4 DEF InsidePart
<1>6. /\ current_part.sub_hash_lists[j + 1] = SubTable(data_size, i, j)
      /\ current_part.subpart_sizes[j + 1] = SubLen(data_size, i, j)
  <2>1. j + 1 \in 1 .. m /\ (j + 1) - 1 = j BY <1>3, <1>5
  <2> QED BY <1>4, <2>1
<1> QED BY <1>1, <1>2, <1>5, <1>6 DEF Addition, SubStart

LEMMA StreamMasterTableKeeps ==
  ASSUME NEW index, IInv, StreamMasterTable(index)
  PROVE  IInv'
<1> USE DEF hashVars, streamVars
<1> DEFINE D == data_size
           n == PartCount(D)
<1>1. BetweenParts(index) /\ index < n /\ D \in Nat \ {0} /\ n \in Nat \ {0}
  BY Counts DEF StreamMasterTable, IInv
<1>2. /\ hashing_done /\ ~header_emitted /\ next_hash_part = n
      /\ index \in 0 .. n
      /\ files = FilesBefore(D, index)
      /\ \A k \in 0 .. n - 1 : Taken(k) <=> k < index
  BY <1>1, BetweenAt
<1>3. index \in 0 .. n - 1 /\ index \in Nat BY <1>1, <1>2
<1>4. precomputed_parts
    = [k \in 0 .. n - 1 |-> IF k < index THEN NoPart ELSE WholePart(D, k)]
  BY <1>1, <1>2 DEF IInv, PartsOK
<1>5. /\ data_size' = D /\ hashing_done' = hashing_done /\ next_hash_part' = n
      /\ header_emitted' = header_emitted /\ failures' = failures
      /\ current_part_index' = index /\ current_subpart_index' = 0
      /\ last_entry_name' = index
      /\ current_part' = WholePart(D, index)
      /\ precomputed_parts' = [precomputed_parts EXCEPT ![index] = NoPart]
  BY <1>2, <1>3, <1>4 DEF StreamMasterTable, AppendToFile
<1>6. files' = FilesAt(D, index, 0)
  <2>1. chained_mhts[index + 1] = Master(D, index) BY <1>2 DEF IInv, HashOK, Master
  <2>2. files' = [files EXCEPT ![index] = @ \o <<Master(D, index)>>]
    BY <2>1 DEF StreamMasterTable, AppendToFile
  <2> QED BY <1>1, <1>2, <1>3, <2>2, FilesOpened
<1>7. WholePart(D, index) # NoPart BY <1>1, <1>3, PartIsPart
<1> HIDE DEF D, n
<1>8. HashOK' BY DEF StreamMasterTable, IInv, HashOK
<1>9. PartsOK'
  <2>1. \A k \in 0 .. n - 1 : Taken(k)' <=> k < index + 1 BY <1>1, <1>3, <1>5, <1>7 DEF Taken
  <2> DEFINE before == [k \in 0 .. n - 1 |-> IF k < index THEN NoPart ELSE WholePart(D, k)]
  <2>2. precomputed_parts' = [before EXCEPT ![index] = NoPart] BY <1>4, <1>5
  <2>3. \A k \in 0 .. n - 1 : k # index => (k < index <=> k < index + 1) BY <1>1, <1>3
  <2>4. precomputed_parts'
      = [k \in 0 .. n - 1 |-> IF k < index + 1 THEN NoPart ELSE WholePart(D, k)]
    <3>1. precomputed_parts' = [k \in 0 .. n - 1 |-> IF k = index THEN NoPart ELSE before[k]] BY <2>2
    <3>2. index < index + 1 BY <1>3
    <3>3. ASSUME NEW k \in 0 .. n - 1
          PROVE  (IF k = index THEN NoPart ELSE before[k])
                   = (IF k < index + 1 THEN NoPart ELSE WholePart(D, k))
      BY <2>3, <3>2
    <3> HIDE DEF before
    <3> QED BY <3>1, <3>3
  <2>5. PartCount(data_size)' = n /\ data_size' = D BY <1>5 DEF n, D
  <2>6. \A k \in 0 .. n - 1 : k < next_hash_part' BY <1>1, <1>5
  <2> QED BY <2>1, <2>4, <2>5, <2>6 DEF PartsOK
<1>10. StreamOK'
  <2>1. PartCount(data_size)' = n /\ data_size' = D BY <1>5 DEF n, D
  <2>2. 0 \in 0 .. SubCount(D, index) /\ 0 \in 0 .. SubpartsPerPart
    <3>1. SubCount(D, index) \in 1 .. SubpartsPerPart BY <1>1, <1>3, PartFacts DEF n
    <3> QED BY <3>1, GodAssumption
  <2>3. Within' BY <1>2, <1>3, <1>5, <1>6, <2>1, <2>2 DEF Within
  <2>4. failures \in 0 .. MaxFailures /\ header_emitted \in BOOLEAN BY DEF IInv, StreamOK
  <2>5. last_entry_name' \in 0 .. n \cup {NoName} BY <1>2, <1>5
  <2> QED BY <1>2, <1>5, <2>1, <2>2, <2>3, <2>4, <2>5 DEF StreamOK
<1> QED BY <1>8, <1>9, <1>10 DEF IInv

LEMMA StreamSubpartKeeps ==
  ASSUME IInv, StreamSubpart
  PROVE  IInv'
<1> USE DEF hashVars, streamVars
<1> DEFINE D == data_size
           i == current_part_index
           j == current_subpart_index
<1>1. /\ Within
      /\ j \in 0 .. SubCount(D, i) - 1
      /\ i \in 0 .. PartCount(D) - 1
      /\ <<current_part.sub_hash_lists[j + 1]>>
           \o Blocks(PartStart(i) + j * SubpartSize, current_part.subpart_sizes[j + 1])
           = Addition(D, i, j)
  BY InsideAt DEF StreamSubpart
<1>2. D \in Nat \ {0} BY Counts DEF IInv
<1>3. SubCount(D, i) \in 1 .. SubpartsPerPart /\ SubpartsPerPart \in Nat
  BY <1>1, <1>2, PartFacts, GodAssumption
<1>4. files = FilesAt(D, i, j) BY <1>1 DEF Within
<1>5. files' = FilesAt(D, i, j + 1)
  <2>1. files' = [files EXCEPT ![i] = @ \o Addition(D, i, j)] BY <1>1 DEF StreamSubpart, AppendToFile
  <2> QED BY <1>1, <1>2, <1>4, <2>1, FilesGrow
<1>6. j + 1 \in 0 .. SubCount(D, i) /\ j + 1 \in 0 .. SubpartsPerPart BY <1>1, <1>3
<1>7. /\ data_size' = D /\ current_part_index' = i /\ current_subpart_index' = j + 1
      /\ current_part' = current_part /\ hashing_done' = hashing_done
      /\ header_emitted' = header_emitted /\ failures' = failures
      /\ last_entry_name' = i
  BY DEF StreamSubpart, AppendToFile
<1>8. HashOK' BY DEF StreamSubpart, IInv, HashOK
<1>9. PartsOK' BY DEF StreamSubpart, IInv, PartsOK, Taken
<1>10. Within' BY <1>1, <1>5, <1>6, <1>7 DEF Within
<1>11. StreamOK'
  <2>1. failures \in 0 .. MaxFailures /\ header_emitted \in BOOLEAN BY DEF IInv, StreamOK
  <2>2. PartCount(D) \in Nat BY <1>2, PartRange
  <2>3. i \in 0 .. PartCount(D) \cup {NoName} BY <1>1, <2>2
  <2> QED BY <1>6, <1>7, <1>10, <2>1, <2>3 DEF StreamOK
<1> QED BY <1>8, <1>9, <1>11 DEF IInv

LEMMA StreamingFailsKeeps == IInv /\ StreamingFails => IInv'
<1> SUFFICES ASSUME IInv, StreamingFails PROVE IInv' OBVIOUS
<1> USE DEF hashVars, streamVars
<1>1. HashOK' BY DEF StreamingFails, IInv, HashOK
<1>2. PartsOK' BY DEF StreamingFails, IInv, PartsOK, Taken
<1>3. failures' \in 0 .. MaxFailures BY GodAssumption DEF StreamingFails, IInv, StreamOK
<1>4. StreamOK' BY <1>3 DEF StreamingFails, IInv, StreamOK, BeforeFirst, Within, BehindLast, AtEnd
<1> QED BY <1>1, <1>2, <1>4 DEF IInv

LEMMA StreamHeaderKeeps ==
  ASSUME NEW index, IInv, StreamHeader(index)
  PROVE  IInv'
<1> USE DEF hashVars, streamVars
<1> DEFINE D == data_size
           n == PartCount(D)
<1>1. /\ BetweenParts(index) /\ index >= n /\ D \in Nat \ {0} /\ n \in Nat \ {0}
      /\ part_count = n /\ HeaderName = n /\ block_count = DivCeil(D, BlockSectors)
  BY Counts DEF StreamHeader, IInv
<1>2. /\ hashing_done /\ ~header_emitted /\ next_hash_part = n
      /\ index \in 0 .. n
      /\ files = FilesBefore(D, index)
      /\ \A k \in 0 .. n - 1 : Taken(k) <=> k < index
  BY <1>1, BetweenAt
<1>3. index = n BY <1>1, <1>2
<1>4. master_digest = Digest(Master(D, 0)) /\ last_part_size = FileSize(D, n - 1) BY <1>2 DEF IInv, HashOK
<1>5. files' = FilesDone(D)
  <2>1. files' = [files EXCEPT ![n] = @ \o <<HeaderBlock(D)>>]
    BY <1>1, <1>4 DEF StreamHeader, AppendToFile, HeaderBlock
  <2> QED BY <1>1, <1>2, <1>3, <2>1, FilesFinished
<1>6. /\ data_size' = D /\ hashing_done' = hashing_done /\ header_emitted'
      /\ current_part' = NoPart /\ current_part_index' = n
      /\ current_subpart_index' = current_subpart_index /\ failures' = failures
      /\ last_entry_name' = n
  BY <1>1, <1>3 DEF StreamHeader, AppendToFile
<1>7. HashOK' BY DEF StreamHeader, IInv, HashOK
<1>8. \A k \in 0 .. n - 1 : Taken(k)' <=> Taken(k) BY <1>1, <1>2, <1>3, <1>6 DEF Taken
<1>9. PartsOK' BY <1>8 DEF StreamHeader, IInv, PartsOK
<1>10. AtEnd' BY <1>2, <1>5, <1>6 DEF AtEnd
<1>11. StreamOK'
  <2>1. failures \in 0 .. MaxFailures /\ current_subpart_index \in 0 .. SubpartsPerPart
    BY DEF IInv, StreamOK
  <2>2. header_emitted' \in BOOLEAN BY DEF StreamHeader
  <2> QED BY <1>1, <1>6, <1>10, <2>1, <2>2 DEF StreamOK
<1> QED BY <1>7, <1>9, <1>11 DEF IInv

LEMMA HeaderFailsKeeps ==
  ASSUME NEW index, IInv, HeaderFails(index)
  PROVE  IInv'
<1> USE DEF hashVars, streamVars
<1> DEFINE D == data_size
           n == PartCount(D)
<1>1. BetweenParts(index) /\ index >= n /\ D \in Nat \ {0} /\ n \in Nat \ {0}
  BY Counts DEF HeaderFails, IInv
<1>2. /\ hashing_done /\ ~header_emitted /\ next_hash_part = n
      /\ index \in 0 .. n
      /\ files = FilesBefore(D, index)
      /\ \A k \in 0 .. n - 1 : Taken(k) <=> k < index
  BY <1>1, BetweenAt
<1>3. index = n BY <1>1, <1>2
<1>4. /\ data_size' = D /\ hashing_done' = hashing_done
      /\ header_emitted' = header_emitted
      /\ current_part' = NoPart /\ current_part_index' = n
      /\ current_subpart_index' = current_subpart_index
      /\ last_entry_name' = last_entry_name /\ files' = files
  BY <1>1, <1>3 DEF HeaderFails
<1>5. HashOK' BY DEF HeaderFails, IInv, HashOK
<1>6. \A k \in 0 .. n - 1 : Taken(k)' <=> Taken(k) BY <1>1, <1>2, <1>3, <1>4 DEF Taken
<1>7. PartsOK' BY <1>6 DEF HeaderFails, IInv, PartsOK
<1>8. BehindLast' BY <1>2, <1>3, <1>4 DEF BehindLast
<1>9. failures' \in 0 .. MaxFailures BY GodAssumption DEF HeaderFails, IInv, StreamOK
<1>10. StreamOK' BY <1>4, <1>8, <1>9 DEF IInv, StreamOK
<1> QED BY <1>5, <1>7, <1>10 DEF IInv

\* However the two passes interleave with calls that throw, the session holds
\* what the layout of the image says: tables and sizes of the parts hashed,
\* the chain once hashing is through, and the files up to the cursor.
THEOREM Invariant == Spec => []IInv
<1>1. IInv /\ [Next]_vars => IInv'
  <2> SUFFICES ASSUME IInv, [Next]_vars PROVE IInv' OBVIOUS
  <2>1. CASE HashNextPart BY <2>1, HashNextPartKeeps
  <2>2. CASE HashSubpart BY <2>2, HashSubpartKeeps
  <2>3. CASE FinishPart BY <2>3, FinishPartKeeps
  <2>4. CASE StreamSubpart BY <2>4, StreamSubpartKeeps
  <2>5. CASE \E index \in 0 .. part_count : StreamMasterTable(index) \/ StreamHeader(index)
    BY <2>5, StreamMasterTableKeeps, StreamHeaderKeeps
  <2>6. CASE HashingFails BY <2>6, HashingFailsKeeps
  <2>7. CASE StreamingFails BY <2>7, StreamingFailsKeeps
  <2>8. CASE \E index \in 0 .. part_count : HeaderFails(index) BY <2>8, HeaderFailsKeeps
  <2>9. CASE UNCHANGED vars BY <2>9, StuttersKeep
  <2> QED BY <2>1, <2>2, <2>3, <2>4, <2>5, <2>6, <2>7, <2>8, <2>9 DEF Next, Call, Failure, Ended
<1> QED BY InitHolds, <1>1, PTL DEF Spec

-----------------------------------------------------------------------------
(* What the invariant says of the package                                    *)

\* Each file is untouched, or its blocks up to a subpart; when it has begun
\* the file before it is whole.
FilesShape(D) ==
  /\ DOMAIN files = 0 .. PartCount(D)
  /\ \A i \in 0 .. PartCount(D) - 1 :
       /\ files[i] = <<>> \/ \E m \in 0 .. SubCount(D, i) : files[i] = FileAfter(D, i, m)
       /\ i > 0 /\ files[i] # <<>> => files[i - 1] = WholeFile(D, i - 1)
  /\ \/ files[PartCount(D)] = <<>>
     \/ /\ files[PartCount(D)] = <<HeaderBlock(D)>>
        /\ \A i \in 0 .. PartCount(D) - 1 : files[i] = WholeFile(D, i)

LEMMA WholeIsAfter ==
  ASSUME NEW D \in Nat \ {0}, NEW i \in 0 .. PartCount(D) - 1
  PROVE  \E m \in 0 .. SubCount(D, i) : WholeFile(D, i) = FileAfter(D, i, m)
<1>1. SubCount(D, i) \in 0 .. SubCount(D, i) BY PartFacts, GodAssumption
<1> QED BY <1>1 DEF WholeFile

LEMMA ShapeAt ==
  ASSUME NEW D \in Nat \ {0}, NEW i \in 0 .. PartCount(D) - 1, NEW m \in 0 .. SubCount(D, i),
         files = FilesAt(D, i, m)
  PROVE  FilesShape(D)
<1> DEFINE n == PartCount(D)
<1>1. n \in Nat /\ i \in Nat /\ n \in 0 .. n /\ i < n BY PartRange
<1>2. DOMAIN files = 0 .. n BY DEF FilesAt
<1>3. \A name \in 0 .. n :
    files[name] = IF name < i THEN WholeFile(D, name)
                  ELSE IF name = i THEN FileAfter(D, i, m) ELSE <<>>
  BY DEF FilesAt
<1>4. ASSUME NEW k \in 0 .. n - 1
      PROVE  /\ files[k] = <<>> \/ \E l \in 0 .. SubCount(D, k) : files[k] = FileAfter(D, k, l)
             /\ k > 0 /\ files[k] # <<>> => files[k - 1] = WholeFile(D, k - 1)
  <2>1. k \in Nat /\ k \in 0 .. n /\ (k > 0 => k - 1 \in 0 .. n) BY <1>1
  <2>2. CASE k < i
    <3>1. files[k] = WholeFile(D, k) /\ (k > 0 => files[k - 1] = WholeFile(D, k - 1))
      BY <1>1, <1>3, <2>1, <2>2
    <3> QED BY <3>1, WholeIsAfter
  <2>3. CASE k = i
    <3>1. files[k] = FileAfter(D, i, m) BY <1>3, <2>1, <2>3
    <3>2. k > 0 => files[k - 1] = WholeFile(D, k - 1) BY <1>1, <1>3, <2>1, <2>3
    <3> QED BY <2>3, <3>1, <3>2
  <2>4. CASE k > i BY <1>1, <1>3, <2>1, <2>4
  <2> QED BY <1>1, <2>1, <2>2, <2>3, <2>4
<1>5. files[n] = <<>> BY <1>1, <1>3
<1> QED BY <1>2, <1>4, <1>5 DEF FilesShape

LEMMA ShapeBefore ==
  ASSUME NEW D \in Nat \ {0}, NEW i \in {0, PartCount(D)}, files = FilesBefore(D, i)
  PROVE  FilesShape(D)
<1> DEFINE n == PartCount(D)
<1>1. n \in Nat \ {0} /\ n \in 0 .. n BY PartRange
<1>2. DOMAIN files = 0 .. n BY DEF FilesBefore
<1>3. \A name \in 0 .. n : files[name] = IF name < i THEN WholeFile(D, name) ELSE <<>> BY DEF FilesBefore
<1>4. ASSUME NEW k \in 0 .. n - 1
      PROVE  /\ files[k] = <<>> \/ \E l \in 0 .. SubCount(D, k) : files[k] = FileAfter(D, k, l)
             /\ k > 0 /\ files[k] # <<>> => files[k - 1] = WholeFile(D, k - 1)
  <2>1. k \in Nat /\ k \in 0 .. n /\ (k > 0 => k - 1 \in 0 .. n) BY <1>1
  <2>2. CASE i = 0 BY <1>3, <2>1, <2>2
  <2>3. CASE i = n
    <3>1. files[k] = WholeFile(D, k) /\ (k > 0 => files[k - 1] = WholeFile(D, k - 1))
      BY <1>1, <1>3, <2>1, <2>3
    <3> QED BY <3>1, WholeIsAfter
  <2> QED BY <2>2, <2>3
<1>5. files[n] = <<>> BY <1>1, <1>3
<1> QED BY <1>2, <1>4, <1>5 DEF FilesShape

LEMMA Shape ==
  ASSUME IInv
  PROVE  FilesShape(data_size) /\ (header_emitted <=> files[PartCount(data_size)] # <<>>)
<1> DEFINE D == data_size
           n == PartCount(D)
<1>1. D \in Nat \ {0} /\ n \in Nat \ {0} /\ n \in 0 .. n BY Counts DEF IInv
<1>2. CASE BeforeFirst
  <2>1. files[n] = <<>> BY <1>1, <1>2 DEF BeforeFirst, FilesBefore
  <2>2. FilesShape(D) BY <1>1, <1>2, ShapeBefore DEF BeforeFirst
  <2> QED BY <1>2, <2>1, <2>2 DEF BeforeFirst
<1>3. CASE Within
  <2>1. /\ current_part_index \in 0 .. n - 1
        /\ current_subpart_index \in 0 .. SubCount(D, current_part_index)
        /\ files = FilesAt(D, current_part_index, current_subpart_index)
    BY <1>3 DEF Within
  <2>2. files[n] = <<>> BY <1>1, <2>1 DEF FilesAt
  <2>3. FilesShape(D) BY <1>1, <2>1, ShapeAt
  <2> QED BY <1>3, <2>2, <2>3 DEF Within
<1>4. CASE BehindLast
  <2>1. files[n] = <<>> BY <1>1, <1>4 DEF BehindLast, FilesBefore
  <2>2. FilesShape(D) BY <1>1, <1>4, ShapeBefore DEF BehindLast
  <2> QED BY <1>4, <2>1, <2>2 DEF BehindLast
<1>5. CASE AtEnd
  <2>1. files = FilesDone(D) /\ header_emitted BY <1>5 DEF AtEnd
  <2>2. \A name \in 0 .. n :
      files[name] = IF name = n THEN <<HeaderBlock(D)>> ELSE WholeFile(D, name)
    BY <2>1 DEF FilesDone
  <2>3. \A i \in 0 .. n - 1 : files[i] = WholeFile(D, i) BY <1>1, <2>2
  <2>4. files[n] = <<HeaderBlock(D)>> BY <1>1, <2>2
  <2>5. DOMAIN files = 0 .. n BY <2>1 DEF FilesDone
  <2>6. ASSUME NEW i \in 0 .. n - 1
        PROVE  /\ \E m \in 0 .. SubCount(D, i) : files[i] = FileAfter(D, i, m)
               /\ i > 0 => files[i - 1] = WholeFile(D, i - 1)
    <3>1. i > 0 => i - 1 \in 0 .. n - 1 BY <1>1
    <3> QED BY <1>1, <2>3, <3>1, WholeIsAfter
  <2>7. FilesShape(D) BY <2>3, <2>4, <2>5, <2>6 DEF FilesShape
  <2>8. files[n] # <<>> BY <2>4
  <2> QED BY <2>1, <2>7, <2>8
<1> QED BY <1>2, <1>3, <1>4, <1>5 DEF IInv, StreamOK

\* The tables and data blocks of a file that are there.
LEMMA PlaceWithin ==
  ASSUME NEW D \in Nat \ {0}, NEW i \in 0 .. PartCount(D) - 1,
         NEW m \in 0 .. SubCount(D, i), NEW j \in Nat
  PROVE  /\ TablePlace(j) <= FileLen(D, i, m) => j < m
         /\ \A k \in 1 .. BlocksPerSubpart :
              TablePlace(j) + k <= FileLen(D, i, m) => k <= BlockCount(D, i, j)
<1>1. SubCount(D, i) \in Nat /\ m \in Nat /\ Width \in Nat \ {0} /\ Width = BlocksPerSubpart + 1
      /\ BlocksPerSubpart \in Nat \ {0} /\ TablePlace(j) \in Nat \ {0, 1}
  <2>1. SubCount(D, i) \in Nat BY PartFacts, GodAssumption
  <2>2. Width \in Nat \ {0} /\ TablePlace(j) \in Nat \ {0, 1} BY FileBlocks
  <2>3. Width = BlocksPerSubpart + 1 /\ BlocksPerSubpart \in Nat \ {0} BY GodAssumption DEF Width
  <2> QED BY <2>1, <2>2, <2>3
<1>2. ASSUME m <= j
      PROVE  FileLen(D, i, m) < TablePlace(j) /\ FileLen(D, i, m) \in Nat
  <2>1. CASE m = 0 BY <1>1, <2>1 DEF FileLen
  <2>2. CASE m # 0
    <3>1. m - 1 \in 0 .. SubCount(D, i) - 1 /\ m - 1 \in Nat BY <1>1, <2>2
    <3>2. BlockCount(D, i, m - 1) \in 1 .. BlocksPerSubpart BY <3>1, SubFacts
    <3>3. FileLen(D, i, m) = 2 + (m - 1) * Width + BlockCount(D, i, m - 1) BY <2>2 DEF FileLen, TablePlace
    <3>4. m * Width = (m - 1) * Width + Width /\ (m - 1) * Width \in Nat BY <1>1, <3>1
    <3>5. m * Width <= j * Width /\ j * Width \in Nat BY <1>1, <1>2, MultMonotonic
    <3>6. TablePlace(j) = 2 + j * Width BY DEF TablePlace
    <3> QED BY <1>1, <3>2, <3>3, <3>4, <3>5, <3>6
  <2> QED BY <2>1, <2>2
<1>3. TablePlace(j) <= FileLen(D, i, m) => j < m BY <1>1, <1>2
<1>4. ASSUME NEW k \in 1 .. BlocksPerSubpart, TablePlace(j) + k <= FileLen(D, i, m)
      PROVE  k <= BlockCount(D, i, j)
  <2>1. FileLen(D, i, m) \in Nat BY FileLens
  <2>2. j < m BY <1>1, <1>3, <1>4, <2>1
  <2>3. j \in 0 .. SubCount(D, i) - 1 BY <1>1, <2>2
  <2>4. CASE j = m - 1
    <3>1. FileLen(D, i, m) = TablePlace(j) + BlockCount(D, i, j) BY <1>1, <2>2, <2>4 DEF FileLen
    <3>2. BlockCount(D, i, j) \in 1 .. BlocksPerSubpart BY <2>3, SubFacts
    <3> QED BY <1>1, <1>4, <3>1, <3>2
  <2>5. CASE j # m - 1
    <3>1. j + 1 < SubCount(D, i) BY <1>1, <2>2, <2>5
    <3>2. BlockCount(D, i, j) = BlocksPerSubpart BY <2>3, <3>1, SubFacts
    <3> QED BY <1>1, <3>2
  <2> QED BY <2>4, <2>5
<1> QED BY <1>3, <1>4

\* Within a file, the master table lists the tables and they list the data.
LEMMA FileVerifies ==
  ASSUME NEW D \in Nat \ {0}, NEW i \in 0 .. PartCount(D) - 1,
         NEW m \in 0 .. SubCount(D, i), NEW file, file = FileAfter(D, i, m), NEW j \in Nat
  PROVE  /\ Lists(file, 1, j + 1, TablePlace(j))
         /\ \A k \in 1 .. BlocksPerSubpart : Lists(file, TablePlace(j), k, TablePlace(j) + k)
<1> DEFINE len == FileLen(D, i, m)
<1>1. /\ DOMAIN file = 1 .. len
      /\ \A b \in 1 .. len : file[b] = FileBlock(D, i, b)
  BY DEF FileAfter
<1>2. /\ TablePlace(j) \in Nat \ {0, 1}
      /\ FileBlock(D, i, 1) = Master(D, i)
      /\ FileBlock(D, i, TablePlace(j)) = SubTable(D, i, j)
      /\ \A k \in 1 .. BlocksPerSubpart : FileBlock(D, i, TablePlace(j) + k) = DataBlock(D, i, j, k)
  BY FileBlocks
<1>3. len \in Nat BY FileLens
<1>4. /\ TablePlace(j) <= len => j < m
      /\ \A k \in 1 .. BlocksPerSubpart : TablePlace(j) + k <= len => k <= BlockCount(D, i, j)
  BY PlaceWithin
<1>5. SubCount(D, i) \in Nat /\ m \in Nat BY PartFacts, GodAssumption
<1> HIDE DEF len
<1>6. ASSUME 1 \in DOMAIN file, TablePlace(j) \in DOMAIN file
      PROVE  file[1][2][j + 1] = Digest(file[TablePlace(j)])
  <2>1. j < m /\ file[1] = Master(D, i) /\ file[TablePlace(j)] = SubTable(D, i, j)
    BY <1>1, <1>2, <1>3, <1>4, <1>6
  <2>2. j + 1 \in 1 .. SubCount(D, i) /\ (j + 1) - 1 = j BY <1>5, <2>1
  <2>3. Master(D, i)[2][j + 1] = Digest(SubTable(D, i, (j + 1) - 1)) BY <2>2, MasterLinks
  <2> QED BY <2>1, <2>2, <2>3
<1>7. ASSUME NEW k \in 1 .. BlocksPerSubpart,
             TablePlace(j) \in DOMAIN file, TablePlace(j) + k \in DOMAIN file
      PROVE  file[TablePlace(j)][2][k] = Digest(file[TablePlace(j) + k])
  <2>1. TablePlace(j) + k <= len /\ TablePlace(j) <= len BY <1>1, <1>3, <1>7
  <2>2. k \in Nat \ {0} /\ k <= BlockCount(D, i, j) /\ j < m BY <1>4, <2>1, GodAssumption
  <2>3. j \in 0 .. SubCount(D, i) - 1 BY <1>5, <2>2
  <2>4. BlockCount(D, i, j) \in Nat BY <2>3, SubFacts, GodAssumption
  <2>5. k \in 1 .. BlockCount(D, i, j) BY <2>2, <2>4
  <2>6. SubTable(D, i, j)[2] = [l \in 1 .. BlockCount(D, i, j) |-> Digest(DataBlock(D, i, j, l))]
    BY Kinds DEF SubTable
  <2>7. SubTable(D, i, j)[2][k] = Digest(DataBlock(D, i, j, k)) BY <2>5, <2>6
  <2>8. file[TablePlace(j)] = SubTable(D, i, j) /\ file[TablePlace(j) + k] = DataBlock(D, i, j, k)
    BY <1>1, <1>2, <1>7
  <2> QED BY <2>7, <2>8
<1> QED BY <1>6, <1>7 DEF Lists

LEMMA ChainVerifies == IInv => HashChainVerifies
<1> SUFFICES ASSUME IInv PROVE HashChainVerifies OBVIOUS
<1> DEFINE D == data_size
           n == PartCount(D)
<1>1. D \in Nat \ {0} /\ n \in Nat \ {0} /\ part_count = n /\ HeaderName = n BY Counts DEF IInv
<1>2. FilesShape(D) BY Shape
<1> HIDE DEF D, n
<1>3. ASSUME NEW i \in 0 .. n - 1, NEW j \in 0 .. SubpartsPerPart - 1
      PROVE  /\ Lists(files[i], 1, j + 1, TablePlace(j))
             /\ \A k \in 1 .. BlocksPerSubpart :
                  Lists(files[i], TablePlace(j), k, TablePlace(j) + k)
  <2>1. CASE files[i] = <<>>
    <3>1. DOMAIN files[i] = {} BY <2>1
    <3> QED BY <3>1 DEF Lists
  <2>2. CASE \E m \in 0 .. SubCount(D, i) : files[i] = FileAfter(D, i, m)
    <3>1. j \in Nat BY GodAssumption
    <3> QED BY <1>1, <2>2, <3>1, FileVerifies DEF n
  <2> QED BY <1>2, <2>1, <2>2 DEF FilesShape, n
<1>4. ASSUME NEW i \in 0 .. n - 1, i > 0, files[i] # <<>>
      PROVE  files[i - 1][1][2][SubpartsPerPart + 1] = Digest(files[i][1])
  <2>1. i - 1 \in 0 .. n - 1 /\ (i - 1) + 1 < n /\ (i - 1) + 1 = i BY <1>1, <1>4
  <2>2. files[i - 1] = WholeFile(D, i - 1)
        /\ \E m \in 0 .. SubCount(D, i) : files[i] = FileAfter(D, i, m)
    BY <1>2, <1>4 DEF FilesShape, n
  <2>3. \E m \in 0 .. SubCount(D, i - 1) : files[i - 1] = FileAfter(D, i - 1, m)
    BY <1>1, <2>1, <2>2, WholeIsAfter DEF n
  <2>4. ASSUME NEW k \in 0 .. n - 1, NEW m \in 0 .. SubCount(D, k)
        PROVE  FileAfter(D, k, m)[1] = Master(D, k)
    <3>1. FileLen(D, k, m) \in Nat \ {0} BY <1>1, FileLens DEF n
    <3>2. FileBlock(D, k, 1) = Master(D, k) BY DEF FileBlock
    <3> QED BY <3>1, <3>2 DEF FileAfter
  <2>5. files[i - 1][1] = Master(D, i - 1) /\ files[i][1] = Master(D, i) BY <2>1, <2>2, <2>3, <2>4
  <2>6. Master(D, i - 1)[2][SubpartsPerPart + 1] = Digest(Master(D, (i - 1) + 1))
    BY <1>1, <2>1, MasterLinks DEF n
  <2> QED BY <2>1, <2>5, <2>6
<1>5. ASSUME NEW b \in DOMAIN files[n]
      PROVE  files[n][b][2].mht_hash = Digest(files[0][1])
  <2>1. files[n] = <<HeaderBlock(D)>> /\ \A i \in 0 .. n - 1 : files[i] = WholeFile(D, i)
    BY <1>2, <1>5 DEF FilesShape, n
  <2>2. 0 \in 0 .. n - 1 /\ b = 1 BY <1>1, <2>1
  <2>3. files[0] = WholeFile(D, 0) BY <2>1, <2>2
  <2>4. WholeFile(D, 0)[1] = Master(D, 0)
    <3>1. PICK m \in 0 .. SubCount(D, 0) : WholeFile(D, 0) = FileAfter(D, 0, m)
      BY <1>1, <2>2, WholeIsAfter DEF n
    <3>2. FileLen(D, 0, m) \in Nat \ {0} BY <1>1, <2>2, FileLens DEF n
    <3>3. FileBlock(D, 0, 1) = Master(D, 0) BY DEF FileBlock
    <3> QED BY <3>1, <3>2, <3>3 DEF FileAfter
  <2>5. files[n][b] = HeaderBlock(D) BY <2>1, <2>2
  <2>6. HeaderBlock(D)[2].mht_hash = Digest(Master(D, 0)) BY DEF HeaderBlock, Header
  <2> QED BY <2>3, <2>4, <2>5, <2>6
<1> QED BY <1>1, <1>3, <1>4, <1>5 DEF HashChainVerifies, TablePlace, Width

LEMMA HeaderDescribes == IInv => HeaderDescribesFiles
<1> SUFFICES ASSUME IInv, NEW b \in DOMAIN files[HeaderName]
    PROVE  LET fields == files[HeaderName][b][2]
           IN /\ \A i \in 0 .. part_count - 1 : (files[i] # <<>>) <=> i < fields.parts
              /\ fields.size = Total([i \in 1 .. part_count |-> SizeOf(files[i - 1])])
              /\ fields.blocks = Total([i \in 1 .. part_count |-> DataBlocksIn(files[i - 1])])
  BY DEF HeaderDescribesFiles
<1> DEFINE D == data_size
           n == PartCount(D)
           fields == files[n][b][2]
<1>1. D \in Nat \ {0} /\ n \in Nat \ {0} /\ part_count = n /\ HeaderName = n BY Counts DEF IInv
<1>2. files[n] = <<HeaderBlock(D)>> /\ \A i \in 0 .. n - 1 : files[i] = WholeFile(D, i)
  <2>1. DOMAIN files[n] # {} BY <1>1
  <2>2. DOMAIN <<>> = {} OBVIOUS
  <2> QED BY <2>1, <2>2, Shape DEF FilesShape
<1>3. b = 1 BY <1>1, <1>2
<1>4. files[n][b] = HeaderBlock(D) BY <1>2, <1>3
<1>5. /\ fields.parts = n
      /\ fields.size = FileSize(D, n - 1) + (n - 1) * FullPartSize
      /\ fields.blocks = DivCeil(D, BlockSectors)
  BY <1>4 DEF HeaderBlock, Header
<1> HIDE DEF fields
<1>6. ASSUME NEW i \in 0 .. n - 1
      PROVE  (files[i] # <<>>) <=> i < fields.parts
  <2>1. i < fields.parts BY <1>1, <1>5
  <2>2. PICK m \in 0 .. SubCount(D, i) : WholeFile(D, i) = FileAfter(D, i, m) BY <1>1, WholeIsAfter
  <2>3. FileLen(D, i, m) \in Nat \ {0} BY <1>1, FileLens
  <2>4. 1 \in DOMAIN files[i] BY <1>2, <2>2, <2>3 DEF FileAfter
  <2> QED BY <2>1, <2>4
<1>7. fields.size = Total([i \in 1 .. n |-> SizeOf(files[i - 1])])
  <2> DEFINE g == [i \in 1 .. n |-> SizeOf(files[i - 1])]
  <2>1. HasLen(g, n) BY <1>1 DEF HasLen
  <2>2. ASSUME NEW i \in 1 .. n PROVE g[i] = SizeOf(WholeFile(D, i - 1))
    <3>1. i - 1 \in 0 .. n - 1 BY <1>1
    <3> QED BY <1>2, <3>1
  <2> HIDE DEF g
  <2>3. Total(g) = FileSize(D, n - 1) + (n - 1) * FullPartSize BY <1>1, <2>1, <2>2, SizeOfAll
  <2> QED BY <1>5, <2>3 DEF g
<1>8. fields.blocks = Total([i \in 1 .. n |-> DataBlocksIn(files[i - 1])])
  <2> DEFINE g == [i \in 1 .. n |-> DataBlocksIn(files[i - 1])]
  <2>1. HasLen(g, n) BY <1>1 DEF HasLen
  <2>2. ASSUME NEW i \in 1 .. n PROVE g[i] = DataBlocksIn(WholeFile(D, i - 1))
    <3>1. i - 1 \in 0 .. n - 1 BY <1>1
    <3> QED BY <1>2, <3>1
  <2> HIDE DEF g
  <2>3. Total(g) = DivCeil(D, BlockSectors) BY <1>1, <2>1, <2>2, DataOfAll
  <2> QED BY <1>5, <2>3 DEF g
<1> QED BY <1>1, <1>6, <1>7, <1>8 DEF fields

LEMMA TypesHold == IInv => TypeOK
<1> SUFFICES ASSUME IInv PROVE TypeOK OBVIOUS
<1> DEFINE D == data_size
           n == PartCount(D)
<1>1. D \in Nat \ {0} /\ n \in Nat \ {0} /\ part_count = n /\ Names = 0 .. n BY Counts DEF IInv
<1>2. \A m \in Nat : HasLen(RawMhts(D, m), m) /\ Len(RawMhts(D, m)) = m
  <2> SUFFICES ASSUME NEW m \in Nat
      PROVE  HasLen(RawMhts(D, m), m) /\ Len(RawMhts(D, m)) = m
    OBVIOUS
  <2>1. HasLen(RawMhts(D, m), m) BY DEF RawMhts, HasLen
  <2> QED BY <2>1, SequenceLength
<1>3. Len(chained_mhts) = IF hashing_done THEN part_count ELSE 0
  <2>1. CASE hashing_done
    <3>1. chained_mhts = Chained(RawMhts(D, n)) BY <2>1 DEF IInv, HashOK
    <3>2. HasLen(Chained(RawMhts(D, n)), n) BY <1>1, <1>2, ChainLinks
    <3> QED BY <1>1, <2>1, <3>1, <3>2, SequenceLength
  <2>2. CASE ~hashing_done BY <2>2 DEF IInv, HashOK
  <2> QED BY <2>1, <2>2
<1>4. Len(raw_mhts) = IF hashing_done THEN 0 ELSE next_hash_part
  <2>1. next_hash_part \in Nat BY <1>1 DEF IInv, HashOK
  <2>2. CASE hashing_done BY <2>2 DEF IInv, HashOK
  <2>3. CASE ~hashing_done BY <1>2, <2>1, <2>3 DEF IInv, HashOK
  <2> QED BY <2>2, <2>3
<1>5. IsPart(NoPart) /\ IsPart(EmptyPart) BY DEF IsPart, NoPart, EmptyPart
<1>6. \A i, m : m \in Nat => IsPart(HashedPart(D, i, m)) BY HashedPartFacts DEF IsPart
<1>7. \A i \in 0 .. n - 1 : IsPart(WholePart(D, i))
  <2> SUFFICES ASSUME NEW i \in 0 .. n - 1 PROVE IsPart(WholePart(D, i)) OBVIOUS
  <2>1. SubCount(D, i) \in Nat BY <1>1, PartFacts, GodAssumption
  <2> QED BY <1>6, <2>1 DEF WholePart
<1>8. \A i \in 0 .. part_count - 1 : IsPart(precomputed_parts[i]) BY <1>1, <1>5, <1>7 DEF IInv, PartsOK
<1>9. last_part_size \in 0 .. FullPartSize
  <2>1. n - 1 \in 0 .. n - 1 BY <1>1
  <2>2. FileSize(D, n - 1) \in 0 .. FullPartSize /\ FullPartSize \in Nat BY <1>1, <2>1, FileSizes
  <2> QED BY <2>2 DEF IInv, HashOK
<1>10. IsPart(part) /\ Len(part.sub_hash_lists) <= SubpartsPerPart
  <2>1. CASE part = EmptyPart BY <1>5, <2>1, GodAssumption DEF EmptyPart
  <2>2. CASE pc = "hashing"
    <3>1. next_hash_part \in 0 .. n - 1 BY <2>2, HashingAt, StreamWaits
    <3>2. SubCount(D, next_hash_part) \in 1 .. SubpartsPerPart BY <1>1, <3>1, PartFacts
    <3>3. PICK m \in 0 .. SubCount(D, next_hash_part) :
        part = HashedPart(D, next_hash_part, m)
      BY <2>2, HashingAt
    <3>4. m \in Nat /\ m <= SubpartsPerPart BY <3>2, <3>3, GodAssumption
    <3>5. Len(part.sub_hash_lists) = m BY <3>3, <3>4, HashedPartFacts
    <3> QED BY <1>6, <3>3, <3>4, <3>5
  <2> QED BY <2>1, <2>2 DEF IInv, HashOK
<1>11. current_part_index \in 0 .. part_count /\ IsPart(current_part)
  <2>1. CASE BeforeFirst BY <1>1, <1>5, <2>1 DEF BeforeFirst
  <2>2. CASE Within BY <1>1, <1>7, <2>2 DEF Within
  <2>3. CASE BehindLast BY <1>1, <1>5, <2>3 DEF BehindLast
  <2>4. CASE AtEnd BY <1>1, <1>5, <2>4 DEF AtEnd
  <2> QED BY <2>1, <2>2, <2>3, <2>4 DEF IInv, StreamOK
<1>12. DOMAIN files = Names BY <1>1, Shape DEF FilesShape
<1>13. /\ data_size \in 1 .. MaxSectors
       /\ next_hash_part \in 0 .. part_count
       /\ hashing_done <=> next_hash_part = part_count
       /\ pc \in {"idle", "hashing"}
  BY <1>1 DEF IInv, HashOK
<1>14. /\ current_subpart_index \in 0 .. SubpartsPerPart
       /\ header_emitted \in BOOLEAN
       /\ last_entry_name \in Names \cup {NoName}
       /\ failures \in 0 .. MaxFailures
  BY <1>1 DEF IInv, StreamOK
<1> QED BY <1>3, <1>4, <1>8, <1>9, <1>10, <1>11, <1>12, <1>13, <1>14 DEF TypeOK

\* In every state the tables handed over verify: each data block is listed by
\* its hash table, each table by the master table of its file, each master
\* table by the one before it and the first by the header; and the header
\* states the number, the data blocks and the size of the files as written.
THEOREM PackageIsSound == Spec => []PackageSound
<1>1. IInv => PackageSound BY TypesHold, ChainVerifies, HeaderDescribes DEF PackageSound
<1> QED BY <1>1, Invariant, PTL

-----------------------------------------------------------------------------
(* The session hands over what it promised                                   *)

\* The manifest, and what the driver has of each file in it.
Manifest(D) ==
  [p \in 1 .. PartCount(D) + 1 |->
     IF p = PartCount(D) + 1 THEN HeaderSize ELSE FileSize(D, p - 1)]
Held(D, store) == [p \in 1 .. PartCount(D) + 1 |-> SizeOf(store[p - 1])]

LEMMA ManifestFacts ==
  ASSUME NEW D \in Nat \ {0}
  PROVE  /\ Manifest(D) \in Seq(Nat)
         /\ DOMAIN Manifest(D) = 1 .. PartCount(D) + 1
         /\ \A i \in 0 .. PartCount(D) - 1 : Manifest(D)[i + 1] = FileSize(D, i)
         /\ Manifest(D)[PartCount(D) + 1] = HeaderSize
         /\ \A p \in 1 .. PartCount(D) + 1 : Manifest(D)[p] \in Nat
<1> DEFINE n == PartCount(D)
           M == Manifest(D)
<1>1. n \in Nat \ {0} /\ n + 1 \in Nat /\ n + 1 \in 1 .. n + 1 BY PartRange
<1>2. \A i \in 0 .. n - 1 : M[i + 1] = FileSize(D, i)
  <2> SUFFICES ASSUME NEW i \in 0 .. n - 1 PROVE M[i + 1] = FileSize(D, i) OBVIOUS
  <2>1. i + 1 \in 1 .. n + 1 /\ i + 1 # n + 1 /\ (i + 1) - 1 = i BY <1>1
  <2> QED BY <2>1 DEF Manifest
<1>3. M[n + 1] = HeaderSize BY <1>1 DEF Manifest
<1>4. \A p \in 1 .. n + 1 : M[p] \in Nat
  <2> SUFFICES ASSUME NEW p \in 1 .. n + 1 PROVE M[p] \in Nat OBVIOUS
  <2>1. CASE p = n + 1 BY <1>3, <2>1, GodAssumption
  <2>2. CASE p # n + 1
    <3>1. p - 1 \in 0 .. n - 1 BY <1>1, <2>2
    <3>2. M[p] = FileSize(D, p - 1) BY <2>2 DEF Manifest
    <3> QED BY <3>1, <3>2, WholeFileFacts
  <2> QED BY <2>1, <2>2
<1>5. DOMAIN M = 1 .. n + 1 /\ HasLen(M, n + 1) BY <1>1 DEF Manifest, HasLen
<1> HIDE DEF M
<1>6. M \in Seq(Nat) BY <1>4, <1>5, <1>1 DEF HasLen
<1> QED BY <1>2, <1>3, <1>4, <1>5, <1>6 DEF M

LEMMA EmptySize == SizeOf(<<>>) = 0
<1>1. HasLen(<<>>, 0) BY DEF HasLen
<1>2. SizeOf(<<>>) = Total(<<>>) BY <1>1, SizeOfSequence
<1> DEFINE T == [k \in 0 .. 0 |-> 0]
<1>3. IsSum(T, <<>>, 0) /\ T[0] = 0 BY DEF IsSum
<1> HIDE DEF T
<1>4. Total(<<>>) = T[0] BY <1>1, <1>3, TotalBy
<1> QED BY <1>2, <1>3, <1>4

LEMMA HeaderBlockSize ==
  ASSUME NEW D
  PROVE  SizeOf(<<HeaderBlock(D)>>) = HeaderSize
<1> DEFINE s == <<HeaderBlock(D)>>
           g == [k \in 1 .. 1 |-> HeaderSize]
<1>1. HasLen(s, 1) /\ s[1] = HeaderBlock(D) BY SequenceSingle
<1>2. Length(HeaderBlock(D)) = HeaderSize BY Kinds DEF HeaderBlock
<1>3. HasLen(g, 1) /\ g[1] = HeaderSize BY DEF HasLen
<1>4. Total(g) = 1 * HeaderSize BY GodAssumption, TotalOfEqual
<1> HIDE DEF s, g
<1>5. \A b \in 1 .. 1 : g[b] = Length(s[b]) BY <1>1, <1>2, <1>3
<1>6. SizeOf(s) = Total(g) BY <1>1, <1>3, <1>5, SizeOfSequence
<1> QED BY <1>4, <1>6, GodAssumption DEF s

\* A file grows up to the size promised for it.
LEMMA AfterSizes ==
  ASSUME NEW D \in Nat \ {0}, NEW i \in 0 .. PartCount(D) - 1, NEW m \in 0 .. SubCount(D, i)
  PROVE  /\ SizeOf(FileAfter(D, i, m)) \in 0 .. FileSize(D, i)
         /\ m < SubCount(D, i) => SizeOf(FileAfter(D, i, m)) <= SizeOf(FileAfter(D, i, m + 1))
<1> DEFINE n == SubCount(D, i)
           S(k) == SizeOf(FileAfter(D, i, k))
<1>1. \A k \in 0 .. n : S(k) = BlockSectors + k * BlockSectors + Streamed(D, i, k)
  BY FileTotals, MasterLinks
<1>2. n \in Nat /\ m \in Nat /\ m <= n /\ m \in 0 .. n BY PartFacts, GodAssumption
<1>3. /\ \A k \in 0 .. n : Streamed(D, i, k) \in 0 .. PartLen(D, i)
      /\ \A k \in 0 .. n - 1 : Streamed(D, i, k + 1) = Streamed(D, i, k) + SubLen(D, i, k)
  BY StreamedGrows
<1>4. PartLen(D, i) \in Nat BY PartFacts, Sizes
<1>5. FileSize(D, i) = BlockSectors + n * BlockSectors + PartLen(D, i) BY DEF FileSize
<1>6. m * BlockSectors <= n * BlockSectors /\ m * BlockSectors \in Nat /\ n * BlockSectors \in Nat
  BY <1>2, GodAssumption, MultMonotonic
<1>7. S(m) \in 0 .. FileSize(D, i)
  <2>1. S(m) = BlockSectors + m * BlockSectors + Streamed(D, i, m) BY <1>1, <1>2
  <2>2. Streamed(D, i, m) \in 0 .. PartLen(D, i) BY <1>2, <1>3
  <2> HIDE DEF S, n
  <2> QED BY <1>4, <1>5, <1>6, <2>1, <2>2, GodAssumption
<1>8. ASSUME m < n
      PROVE  S(m) <= S(m + 1)
  <2>1. S(m) = BlockSectors + m * BlockSectors + Streamed(D, i, m) BY <1>1, <1>2
  <2>2. m + 1 \in 0 .. n /\ m \in 0 .. n - 1 BY <1>2, <1>8
  <2>3. S(m + 1) = BlockSectors + (m + 1) * BlockSectors + Streamed(D, i, m + 1) BY <1>1, <2>2
  <2>4. Streamed(D, i, m + 1) = Streamed(D, i, m) + SubLen(D, i, m) BY <1>3, <2>2
  <2>5. SubLen(D, i, m) \in 1 .. SubpartSize BY <2>2, SubFacts
  <2>6. (m + 1) * BlockSectors = m * BlockSectors + BlockSectors BY <1>2, GodAssumption
  <2>7. Streamed(D, i, m) \in 0 .. PartLen(D, i) BY <1>2, <1>3
  <2> HIDE DEF S
  <2> QED BY <1>4, <1>6, <2>1, <2>3, <2>4, <2>5, <2>6, <2>7, GodAssumption, Sizes
<1> QED BY <1>7, <1>8

\* What the driver has, by where the second pass stands.
LEMMA HeldFacts ==
  ASSUME NEW D \in Nat \ {0}
  PROVE  /\ \A i \in 0 .. PartCount(D), p \in 1 .. PartCount(D) + 1 :
              Held(D, FilesBefore(D, i))[p] = IF p < i + 1 THEN Manifest(D)[p] ELSE 0
         /\ \A i \in 0 .. PartCount(D) - 1, p \in 1 .. PartCount(D) + 1 :
              \A m \in 0 .. SubCount(D, i) : Held(D, FilesAt(D, i, m))[p]
                  = IF p < i + 1 THEN Manifest(D)[p]
                    ELSE IF p = i + 1 THEN SizeOf(FileAfter(D, i, m)) ELSE 0
         /\ \A p \in 1 .. PartCount(D) + 1 : Held(D, FilesDone(D))[p] = Manifest(D)[p]
<1> DEFINE n == PartCount(D)
<1>1. n \in Nat \ {0} BY PartRange
<1>2. ASSUME NEW p \in 1 .. n + 1
      PROVE  /\ p - 1 \in 0 .. n /\ p \in Nat
             /\ \A store : Held(D, store)[p] = SizeOf(store[p - 1])
             /\ p # n + 1 => Manifest(D)[p] = SizeOf(WholeFile(D, p - 1))
             /\ p = n + 1 => Manifest(D)[p] = HeaderSize
  <2>1. p - 1 \in 0 .. n /\ p \in Nat BY <1>1
  <2>2. p # n + 1 => p - 1 \in 0 .. n - 1 /\ (p - 1) + 1 = p BY <1>1
  <2>3. p # n + 1 => Manifest(D)[p] = SizeOf(WholeFile(D, p - 1)) BY <2>2, ManifestFacts, WholeFileFacts
  <2> QED BY <2>1, <2>3, ManifestFacts DEF Held
<1>3. ASSUME NEW i \in 0 .. n, NEW p \in 1 .. n + 1
      PROVE  Held(D, FilesBefore(D, i))[p] = IF p < i + 1 THEN Manifest(D)[p] ELSE 0
  <2>1. Held(D, FilesBefore(D, i))[p] = SizeOf(FilesBefore(D, i)[p - 1]) BY <1>2
  <2>2. FilesBefore(D, i)[p - 1] = IF p - 1 < i THEN WholeFile(D, p - 1) ELSE <<>> BY <1>2 DEF FilesBefore
  <2>3. (p - 1 < i <=> p < i + 1) /\ (p < i + 1 => p # n + 1) BY <1>1
  <2>4. CASE p < i + 1 BY <1>2, <2>1, <2>2, <2>3, <2>4
  <2>5. CASE ~(p < i + 1) BY <2>1, <2>2, <2>3, <2>5, EmptySize
  <2> QED BY <2>4, <2>5
<1>4. ASSUME NEW i \in 0 .. n - 1, NEW p \in 1 .. n + 1, NEW m \in 0 .. SubCount(D, i)
      PROVE  Held(D, FilesAt(D, i, m))[p] = IF p < i + 1 THEN Manifest(D)[p]
                 ELSE IF p = i + 1 THEN SizeOf(FileAfter(D, i, m)) ELSE 0
  <2>1. Held(D, FilesAt(D, i, m))[p] = SizeOf(FilesAt(D, i, m)[p - 1]) BY <1>2
  <2>2. FilesAt(D, i, m)[p - 1] = IF p - 1 < i THEN WholeFile(D, p - 1)
        ELSE IF p - 1 = i THEN FileAfter(D, i, m) ELSE <<>>
    BY <1>2 DEF FilesAt
  <2>3. (p - 1 < i <=> p < i + 1) /\ (p < i + 1 => p # n + 1) /\ (p - 1 = i <=> p = i + 1) BY <1>1
  <2>4. CASE p < i + 1 BY <1>2, <2>1, <2>2, <2>3, <2>4
  <2>5. CASE ~(p < i + 1) BY <2>1, <2>2, <2>3, <2>5, EmptySize
  <2> QED BY <2>4, <2>5
<1>5. ASSUME NEW p \in 1 .. n + 1
      PROVE  Held(D, FilesDone(D))[p] = Manifest(D)[p]
  <2>1. Held(D, FilesDone(D))[p] = SizeOf(FilesDone(D)[p - 1]) BY <1>2
  <2>2. FilesDone(D)[p - 1] = IF p - 1 = n THEN <<HeaderBlock(D)>> ELSE WholeFile(D, p - 1)
    BY <1>2 DEF FilesDone
  <2>3. p - 1 = n <=> p = n + 1 BY <1>1
  <2> QED BY <1>2, <2>1, <2>2, <2>3, HeaderBlockSize
<1> QED BY <1>3, <1>4, <1>5

\* Bytes added to one file, the ones before it complete, the ones behind it
\* empty: a Deliver step of PartStream.
LEMMA DeliverStep ==
  ASSUME NEW D \in Nat \ {0}, NEW p \in 1 .. PartCount(D) + 1, NEW before, NEW after,
         \A q \in 1 .. PartCount(D) + 1 : Held(D, before)[q] = IF q < p THEN Manifest(D)[q]
                                ELSE IF q = p THEN Held(D, before)[p] ELSE 0,
         \A q \in 1 .. PartCount(D) + 1 : Held(D, after)[q] = IF q < p THEN Manifest(D)[q]
                               ELSE IF q = p THEN Held(D, after)[p] ELSE 0,
         Held(D, before)[p] \in Nat, Held(D, after)[p] \in Nat,
         Held(D, before)[p] <= Held(D, after)[p], Held(D, after)[p] <= Manifest(D)[p]
  PROVE  /\ \A q \in 1 .. PartCount(D) + 1 : q < p => Held(D, before)[q] = Manifest(D)[q]
         /\ \A q \in 1 .. PartCount(D) + 1 : q > p => Held(D, before)[q] = 0
         /\ \E size \in Held(D, before)[p] .. Manifest(D)[p] :
              Held(D, after) = [Held(D, before) EXCEPT ![p] = size]
<1> DEFINE n == PartCount(D)
           W == Held(D, before)
           V == Held(D, after)
<1>1. n \in Nat /\ p \in Nat BY PartRange
<1>2. W = [q \in 1 .. n + 1 |-> W[q]] /\ V = [q \in 1 .. n + 1 |-> V[q]] BY DEF Held
<1>3. Manifest(D)[p] \in Nat BY ManifestFacts
<1> HIDE DEF n, W, V
<1>4. ASSUME NEW q \in 1 .. n + 1, q # p
      PROVE  V[q] = W[q]
  BY <1>4 DEF W, V, n
<1>5. V = [W EXCEPT ![p] = V[p]]
  <2>1. [W EXCEPT ![p] = V[p]] = [q \in 1 .. n + 1 |-> IF q = p THEN V[p] ELSE W[q]] BY <1>2
  <2>2. \A q \in 1 .. n + 1 : (IF q = p THEN V[p] ELSE W[q]) = V[q] BY <1>4
  <2> QED BY <1>2, <2>1, <2>2
<1>6. V[p] \in W[p] .. Manifest(D)[p] BY <1>3 DEF W, V
<1>7. \A q \in 1 .. n + 1 : (q < p => W[q] = Manifest(D)[q]) /\ (q > p => W[q] = 0) BY <1>1 DEF W, n
<1> QED BY <1>5, <1>6, <1>7 DEF W, V, n

\* The variables of PartStream in terms of the layout.
LEMMA Mapped ==
  IInv => /\ Promised = IF hashing_done THEN Manifest(data_size) ELSE <<>>
          /\ HandedOver = IF hashing_done THEN Held(data_size, files) ELSE <<>>
          /\ Phase = IF header_emitted THEN "done"
                     ELSE IF hashing_done THEN "streaming" ELSE "planning"
<1> SUFFICES ASSUME IInv
    PROVE  /\ Promised = IF hashing_done THEN Manifest(data_size) ELSE <<>>
           /\ HandedOver = IF hashing_done THEN Held(data_size, files) ELSE <<>>
  BY DEF Phase, IsDone
<1> DEFINE n == PartCount(data_size)
<1>1. data_size \in Nat \ {0} /\ n \in Nat \ {0} /\ part_count = n
      /\ \A i \in 0 .. n - 1 : OutputManifest[i + 1] = FileSize(data_size, i)
  BY Counts DEF IInv
<1>2. OutputManifest = Manifest(data_size)
  <2>1. OutputManifest = [p \in 1 .. n + 1 |-> OutputManifest[p]] BY <1>1 DEF OutputManifest
  <2>2. Manifest(data_size) = [p \in 1 .. n + 1 |-> Manifest(data_size)[p]] BY DEF Manifest
  <2>3. ASSUME NEW p \in 1 .. n + 1 PROVE OutputManifest[p] = Manifest(data_size)[p]
    <3>1. CASE p = n + 1
      <4>1. p = part_count + 1 /\ p \in 1 .. part_count + 1 BY <1>1, <3>1
      <4>2. OutputManifest[p] = HeaderSize BY <4>1 DEF OutputManifest
      <4> QED BY <1>1, <3>1, <4>2, ManifestFacts
    <3>2. CASE p # n + 1
      <4>1. p - 1 \in 0 .. n - 1 /\ (p - 1) + 1 = p BY <1>1, <3>2
      <4>2. OutputManifest[(p - 1) + 1] = FileSize(data_size, p - 1) BY <1>1, <4>1
      <4>3. Manifest(data_size)[(p - 1) + 1] = FileSize(data_size, p - 1) BY <1>1, <4>1, ManifestFacts
      <4> QED BY <4>1, <4>2, <4>3
    <3> QED BY <3>1, <3>2
  <2> QED BY <2>1, <2>2, <2>3
<1>3. Promised = IF hashing_done THEN Manifest(data_size) ELSE <<>> BY <1>2 DEF Promised
<1>4. CASE hashing_done
  <2>1. DOMAIN Promised = 1 .. n + 1 BY <1>1, <1>3, <1>4, ManifestFacts
  <2> QED BY <1>3, <1>4, <2>1 DEF HandedOver, Held
<1>5. CASE ~hashing_done
  <2>1. Promised = <<>> BY <1>3, <1>5
  <2> QED BY <1>3, <1>5, <2>1 DEF HandedOver
<1> QED BY <1>3, <1>4, <1>5

LEMMA MappedNext ==
  IInv' => /\ Promised' = IF hashing_done' THEN Manifest(data_size') ELSE <<>>
           /\ HandedOver' = IF hashing_done' THEN Held(data_size', files') ELSE <<>>
           /\ Phase' = IF header_emitted' THEN "done"
                       ELSE IF hashing_done' THEN "streaming" ELSE "planning"
<1>1. (IInv => /\ Promised = IF hashing_done THEN Manifest(data_size) ELSE <<>>
               /\ HandedOver = IF hashing_done THEN Held(data_size, files) ELSE <<>>
               /\ Phase = IF header_emitted THEN "done"
                          ELSE IF hashing_done THEN "streaming" ELSE "planning")'
  BY Mapped, PTL
<1> QED BY <1>1

LEMMA StepsAreStutters ==
  ASSUME IInv, IInv', UNCHANGED <<data_size, files, hashing_done, header_emitted>>
  PROVE  UNCHANGED Stream!vars
BY Mapped, MappedNext DEF Stream!vars

LEMMA PlanningStutters ==
  ASSUME IInv, IInv', ~hashing_done, ~hashing_done', UNCHANGED header_emitted
  PROVE  UNCHANGED Stream!vars
BY Mapped, MappedNext DEF Stream!vars

LEMMA FinishPartStep ==
  ASSUME IInv, IInv', FinishPart
  PROVE  Stream!Publish \/ UNCHANGED Stream!vars
<1> DEFINE D == data_size
           n == PartCount(D)
<1>1. ~hashing_done /\ BeforeFirst BY HashingAt, StreamWaits DEF FinishPart
<1>2. D \in Nat \ {0} /\ n \in Nat \ {0} BY Counts DEF IInv
<1>3. /\ data_size' = D /\ files' = files /\ header_emitted' = header_emitted
      /\ ~header_emitted /\ files = FilesBefore(D, 0)
  BY <1>1 DEF FinishPart, streamVars, BeforeFirst
<1>4. CASE ~hashing_done' BY <1>1, <1>3, <1>4, PlanningStutters
<1>5. CASE hashing_done'
  <2>1. Promised' = Manifest(D) /\ HandedOver' = Held(D, files) /\ Phase' = "streaming"
        /\ Phase = "planning"
    BY <1>1, <1>3, <1>5, Mapped, MappedNext
  <2>2. Promised' \in Seq(Nat) /\ DOMAIN Promised' = 1 .. n + 1 BY <1>2, <2>1, ManifestFacts
  <2>3. HandedOver' = [p \in 1 .. n + 1 |-> 0]
    <3>1. Held(D, files) = [p \in 1 .. n + 1 |-> Held(D, files)[p]] BY DEF Held
    <3>2. ASSUME NEW p \in 1 .. n + 1 PROVE Held(D, files)[p] = 0
      <4>1. 0 \in 0 .. n /\ ~(p < 0 + 1) BY <1>2
      <4> QED BY <1>2, <1>3, <4>1, HeldFacts
    <3> QED BY <2>1, <3>1, <3>2
  <2> QED BY <2>1, <2>2, <2>3 DEF Stream!Publish
<1> QED BY <1>4, <1>5

LEMMA StreamMasterTableStep ==
  ASSUME NEW index, IInv, IInv', StreamMasterTable(index)
  PROVE  \E p \in DOMAIN Promised : Stream!Deliver(p)
<1> USE DEF hashVars, streamVars
<1> DEFINE D == data_size
           n == PartCount(D)
           p == index + 1
<1>1. BetweenParts(index) /\ index < n /\ D \in Nat \ {0} /\ n \in Nat \ {0}
  BY Counts DEF StreamMasterTable, IInv
<1>2. /\ hashing_done /\ ~header_emitted
      /\ index \in 0 .. n /\ files = FilesBefore(D, index)
  BY <1>1, BetweenAt
<1>3. index \in 0 .. n - 1 /\ p \in 1 .. n + 1 /\ index \in Nat BY <1>1, <1>2
<1>4. /\ data_size' = D /\ hashing_done' = hashing_done /\ header_emitted' = header_emitted
  BY DEF StreamMasterTable
<1>5. files' = FilesAt(D, index, 0)
  <2>1. chained_mhts[index + 1] = Master(D, index) BY <1>2 DEF IInv, HashOK, Master
  <2>2. files' = [files EXCEPT ![index] = @ \o <<Master(D, index)>>]
    BY <2>1 DEF StreamMasterTable, AppendToFile
  <2> QED BY <1>1, <1>2, <1>3, <2>2, FilesOpened
<1>6. /\ Promised = Manifest(D) /\ Promised' = Manifest(D)
      /\ HandedOver = Held(D, files) /\ HandedOver' = Held(D, files')
      /\ Phase = "streaming" /\ Phase' = "streaming"
  BY <1>2, <1>4, Mapped, MappedNext
<1>7. DOMAIN Manifest(D) = 1 .. n + 1 /\ Manifest(D)[p] = FileSize(D, index) BY <1>1, <1>3, ManifestFacts
<1>8. 0 \in 0 .. SubCount(D, index) /\ FileSize(D, index) \in Nat
  BY <1>1, <1>3, PartFacts, WholeFileFacts, GodAssumption
<1>9. SizeOf(FileAfter(D, index, 0)) \in 0 .. FileSize(D, index) BY <1>1, <1>3, <1>8, AfterSizes
<1>10. \A q \in 1 .. n + 1 : Held(D, files)[q] = IF q < p THEN Manifest(D)[q] ELSE 0
  BY <1>1, <1>2, HeldFacts
<1>11. \A q \in 1 .. n + 1 :
    Held(D, files')[q] = IF q < p THEN Manifest(D)[q]
                         ELSE IF q = p THEN SizeOf(FileAfter(D, index, 0)) ELSE 0
  BY <1>1, <1>3, <1>5, <1>8, HeldFacts
<1> HIDE DEF n, D, p
<1>12. Held(D, files)[p] = 0 /\ Held(D, files')[p] = SizeOf(FileAfter(D, index, 0))
       /\ ~(p < p)
  <2>1. ~(p < p) BY <1>3 DEF p
  <2> QED BY <1>3, <1>10, <1>11, <2>1
<1>13. /\ \A q \in 1 .. n + 1 : q < p => Held(D, files)[q] = Manifest(D)[q]
       /\ \A q \in 1 .. n + 1 : q > p => Held(D, files)[q] = 0
       /\ \E size \in Held(D, files)[p] .. Manifest(D)[p] :
            Held(D, files') = [Held(D, files) EXCEPT ![p] = size]
  <2>1. Held(D, files)[p] \in Nat /\ Held(D, files')[p] \in Nat
        /\ Held(D, files)[p] <= Held(D, files')[p] /\ Held(D, files')[p] <= Manifest(D)[p]
    BY <1>7, <1>8, <1>9, <1>12
  <2>2. \A q \in 1 .. n + 1 : Held(D, files)[q] = IF q < p THEN Manifest(D)[q]
      ELSE IF q = p THEN Held(D, files)[p] ELSE 0
    BY <1>10, <1>12
  <2>3. \A q \in 1 .. n + 1 : Held(D, files')[q] = IF q < p THEN Manifest(D)[q]
      ELSE IF q = p THEN Held(D, files')[p] ELSE 0
    BY <1>11, <1>12
  <2> QED BY ONLY <1>1, <1>3, <2>1, <2>2, <2>3, DeliverStep DEF n
<1>14. p \in DOMAIN Promised BY <1>3, <1>6, <1>7
<1>15. Stream!Deliver(p) BY <1>6, <1>7, <1>13 DEF Stream!Deliver
<1> QED BY <1>14, <1>15

LEMMA StreamSubpartStep ==
  ASSUME IInv, IInv', StreamSubpart
  PROVE  \E p \in DOMAIN Promised : Stream!Deliver(p)
<1> USE DEF hashVars, streamVars
<1> DEFINE D == data_size
           n == PartCount(D)
           i == current_part_index
           j == current_subpart_index
           p == i + 1
<1>1. /\ Within
      /\ j \in 0 .. SubCount(D, i) - 1
      /\ i \in 0 .. n - 1
      /\ <<current_part.sub_hash_lists[j + 1]>>
           \o Blocks(PartStart(i) + j * SubpartSize, current_part.subpart_sizes[j + 1])
           = Addition(D, i, j)
  BY InsideAt DEF StreamSubpart
<1>2. D \in Nat \ {0} /\ n \in Nat \ {0} BY Counts DEF IInv
<1>3. files = FilesAt(D, i, j) /\ hashing_done /\ ~header_emitted BY <1>1 DEF Within
<1>4. files' = FilesAt(D, i, j + 1)
  <2>1. files' = [files EXCEPT ![i] = @ \o Addition(D, i, j)] BY <1>1 DEF StreamSubpart, AppendToFile
  <2> QED BY <1>1, <1>2, <1>3, <2>1, FilesGrow
<1>5. SubCount(D, i) \in Nat /\ p \in 1 .. n + 1 /\ i \in Nat BY <1>1, <1>2, PartFacts, GodAssumption
<1>6. j \in 0 .. SubCount(D, i) /\ j + 1 \in 0 .. SubCount(D, i) /\ j < SubCount(D, i) BY <1>1, <1>5
<1>7. data_size' = D /\ hashing_done' = hashing_done /\ header_emitted' = header_emitted
  BY DEF StreamSubpart
<1>8. /\ Promised = Manifest(D) /\ Promised' = Manifest(D)
      /\ HandedOver = Held(D, files) /\ HandedOver' = Held(D, files')
      /\ Phase = "streaming" /\ Phase' = "streaming"
  BY <1>3, <1>7, Mapped, MappedNext
<1>9. DOMAIN Manifest(D) = 1 .. n + 1 /\ Manifest(D)[p] = FileSize(D, i) /\ FileSize(D, i) \in Nat
  BY <1>1, <1>2, ManifestFacts, WholeFileFacts
<1>10. /\ SizeOf(FileAfter(D, i, j)) \in 0 .. FileSize(D, i)
       /\ SizeOf(FileAfter(D, i, j + 1)) \in 0 .. FileSize(D, i)
       /\ SizeOf(FileAfter(D, i, j)) <= SizeOf(FileAfter(D, i, j + 1))
  BY <1>1, <1>2, <1>6, AfterSizes
<1>11. \A m \in 0 .. SubCount(D, i) : \A q \in 1 .. n + 1 :
    Held(D, FilesAt(D, i, m))[q] = IF q < p THEN Manifest(D)[q]
        ELSE IF q = p THEN SizeOf(FileAfter(D, i, m)) ELSE 0
  BY <1>1, <1>2, HeldFacts
<1>12. \A q \in 1 .. n + 1 :
    /\ Held(D, files)[q] = IF q < p THEN Manifest(D)[q]
                           ELSE IF q = p THEN SizeOf(FileAfter(D, i, j)) ELSE 0
    /\ Held(D, files')[q] = IF q < p THEN Manifest(D)[q]
                            ELSE IF q = p THEN SizeOf(FileAfter(D, i, j + 1)) ELSE 0
  BY <1>3, <1>4, <1>6, <1>11
<1> HIDE DEF n, D, i, j, p
<1>13. Held(D, files)[p] = SizeOf(FileAfter(D, i, j))
    /\ Held(D, files')[p] = SizeOf(FileAfter(D, i, j + 1))
  <2>1. ~(p < p) BY <1>5 DEF p
  <2> QED BY <1>5, <1>12, <2>1
<1>14. /\ \A q \in 1 .. n + 1 : q < p => Held(D, files)[q] = Manifest(D)[q]
       /\ \A q \in 1 .. n + 1 : q > p => Held(D, files)[q] = 0
       /\ \E size \in Held(D, files)[p] .. Manifest(D)[p] :
            Held(D, files') = [Held(D, files) EXCEPT ![p] = size]
  <2>1. Held(D, files)[p] \in Nat /\ Held(D, files')[p] \in Nat
        /\ Held(D, files)[p] <= Held(D, files')[p] /\ Held(D, files')[p] <= Manifest(D)[p]
    BY <1>9, <1>10, <1>13
  <2>2. \A q \in 1 .. n + 1 : Held(D, files)[q] = IF q < p THEN Manifest(D)[q]
      ELSE IF q = p THEN Held(D, files)[p] ELSE 0
    BY <1>12, <1>13
  <2>3. \A q \in 1 .. n + 1 : Held(D, files')[q] = IF q < p THEN Manifest(D)[q]
      ELSE IF q = p THEN Held(D, files')[p] ELSE 0
    BY <1>12, <1>13
  <2> QED BY ONLY <1>2, <1>5, <2>1, <2>2, <2>3, DeliverStep DEF n
<1>15. p \in DOMAIN Promised BY <1>5, <1>8, <1>9
<1>16. Stream!Deliver(p) BY <1>8, <1>9, <1>14 DEF Stream!Deliver
<1> QED BY <1>15, <1>16

LEMMA StreamHeaderStep ==
  ASSUME NEW index, IInv, IInv', StreamHeader(index)
  PROVE  \E p \in DOMAIN Promised : Stream!Deliver(p)
<1> USE DEF hashVars, streamVars
<1> DEFINE D == data_size
           n == PartCount(D)
           p == n + 1
<1>1. BetweenParts(index) /\ index >= n /\ D \in Nat \ {0} /\ n \in Nat \ {0}
  BY Counts DEF StreamHeader, IInv
<1>2. /\ hashing_done /\ ~header_emitted /\ index \in 0 .. n
      /\ files = FilesBefore(D, index)
  BY <1>1, BetweenAt
<1>3. index = n /\ n \in 0 .. n /\ p \in 1 .. n + 1 /\ p \in Nat BY <1>1, <1>2
<1>4. /\ data_size' = D /\ hashing_done' = hashing_done /\ header_emitted' BY DEF StreamHeader
<1>5. files' = FilesDone(D)
  BY <1>1, <1>4, Counts DEF IInv, StreamOK, BeforeFirst, Within, BehindLast, AtEnd
<1>6. /\ Promised = Manifest(D) /\ Promised' = Manifest(D)
      /\ HandedOver = Held(D, files) /\ HandedOver' = Held(D, files')
      /\ Phase = "streaming" /\ Phase' = "done"
  BY <1>2, <1>4, Mapped, MappedNext
<1>7. DOMAIN Manifest(D) = 1 .. n + 1 /\ Manifest(D)[p] = HeaderSize /\ HeaderSize \in Nat
  BY <1>1, ManifestFacts, GodAssumption
<1>8. \A q \in 1 .. n + 1 : Held(D, files)[q] = IF q < p THEN Manifest(D)[q] ELSE 0
  BY <1>1, <1>2, <1>3, HeldFacts
<1>9. \A q \in 1 .. n + 1 : Held(D, files')[q] = Manifest(D)[q] BY <1>1, <1>5, HeldFacts
<1>10. Held(D, files') = Manifest(D)
  <2>1. Held(D, files') = [q \in 1 .. n + 1 |-> Held(D, files')[q]] BY DEF Held
  <2>2. Manifest(D) = [q \in 1 .. n + 1 |-> Manifest(D)[q]] BY DEF Manifest
  <2> QED BY <1>9, <2>1, <2>2
<1>11. \A q \in 1 .. n + 1 : q < p \/ q = p BY <1>1
<1> HIDE DEF n, D, p
<1>12. Held(D, files)[p] = 0 /\ Held(D, files')[p] = HeaderSize
  <2>1. ~(p < p) BY <1>3
  <2> QED BY <1>3, <1>7, <1>8, <1>9, <2>1
<1>13. /\ \A q \in 1 .. n + 1 : q < p => Held(D, files)[q] = Manifest(D)[q]
       /\ \A q \in 1 .. n + 1 : q > p => Held(D, files)[q] = 0
       /\ \E size \in Held(D, files)[p] .. Manifest(D)[p] :
            Held(D, files') = [Held(D, files) EXCEPT ![p] = size]
  <2>1. Held(D, files)[p] \in Nat /\ Held(D, files')[p] \in Nat
        /\ Held(D, files)[p] <= Held(D, files')[p] /\ Held(D, files')[p] <= Manifest(D)[p]
    BY <1>7, <1>12
  <2>2. \A q \in 1 .. n + 1 : Held(D, files)[q] = IF q < p THEN Manifest(D)[q]
      ELSE IF q = p THEN Held(D, files)[p] ELSE 0
    BY <1>8, <1>12
  <2>3. \A q \in 1 .. n + 1 : Held(D, files')[q] = IF q < p THEN Manifest(D)[q]
      ELSE IF q = p THEN Held(D, files')[p] ELSE 0
    BY <1>9, <1>11, <1>12
  <2> QED BY ONLY <1>1, <1>3, <2>1, <2>2, <2>3, DeliverStep DEF n
<1>14. p \in DOMAIN Promised BY <1>3, <1>6, <1>7
<1>15. Stream!Deliver(p) BY <1>6, <1>7, <1>10, <1>13 DEF Stream!Deliver, Stream!Complete
<1> QED BY <1>14, <1>15

\* However many calls throw, every file gets the bytes output_manifest()
\* computed for it from data_size, file after file, and the session is done
\* only when all of them are complete.  (That a driver which keeps calling
\* gets there is left to the model checker.)
THEOREM Refines == Spec => Stream!Spec
<1>1. Init => Stream!Init
  <2> SUFFICES ASSUME Init PROVE Stream!Init OBVIOUS
  <2>1. ~header_emitted /\ ~hashing_done BY DEF Init
  <2> QED BY <2>1, InitHolds, Mapped DEF Stream!Init
<1>2. IInv /\ IInv' /\ [Next]_vars => [Stream!Next]_Stream!vars
  <2> SUFFICES ASSUME IInv, IInv', [Next]_vars PROVE [Stream!Next]_Stream!vars OBVIOUS
  <2> USE DEF hashVars, streamVars
  <2>1. CASE HashNextPart BY <2>1, StepsAreStutters DEF HashNextPart
  <2>2. CASE HashSubpart BY <2>2, StepsAreStutters DEF HashSubpart
  <2>3. CASE FinishPart BY <2>3, FinishPartStep DEF Stream!Next
  <2>4. CASE StreamSubpart BY <2>4, StreamSubpartStep DEF Stream!Next
  <2>5. CASE \E index \in 0 .. part_count : StreamMasterTable(index) \/ StreamHeader(index)
    BY <2>5, StreamMasterTableStep, StreamHeaderStep DEF Stream!Next
  <2>6. CASE HashingFails BY <2>6, StepsAreStutters DEF HashingFails
  <2>7. CASE StreamingFails BY <2>7, StepsAreStutters DEF StreamingFails
  <2>8. CASE \E index \in 0 .. part_count : HeaderFails(index) BY <2>8, StepsAreStutters DEF HeaderFails
  <2>9. CASE UNCHANGED vars BY <2>9, StepsAreStutters DEF vars
  <2> QED BY <2>1, <2>2, <2>3, <2>4, <2>5, <2>6, <2>7, <2>8, <2>9 DEF Next, Call, Failure, Ended
<1> QED BY Invariant, <1>1, <1>2, PTL DEF Spec, Stream!Spec

-----------------------------------------------------------------------------
(* The reader: where it looks for a sector, and what is there.               *)

\* The Data files of a finished package.
DataFilesOf(D) == [i \in 0 .. PartCount(D) - 1 |-> WholeFile(D, i)]

\* remap_sector() undoes the layout: subpart j of file i, block k of it, the
\* place w in the block.
LEMMA RemapAt ==
  ASSUME NEW s \in Nat
  PROVE  \E i \in Nat, j \in 0 .. SubpartsPerPart - 1, k \in 0 .. BlocksPerSubpart - 1,
            w \in 0 .. BlockSectors - 1 :
           /\ s = SubStart(i, j) + k * BlockSectors + w
           /\ RemapSector(s) = [file |-> i, offset |-> (TablePlace(j) + k) * BlockSectors + w]
<1> DEFINE q == s \div BlockSectors
           w == s % BlockSectors
           i == q \div BlocksPerPart
           r == q % BlocksPerPart
           j == r \div BlocksPerSubpart
           k == r % BlocksPerSubpart
<1>1. q \in Nat /\ w \in 0 .. BlockSectors - 1 /\ s = q * BlockSectors + w BY GodAssumption, DivMod
<1>2. RemapSector(s) = [file |-> i, offset |-> (1 + (j + 1) + r) * BlockSectors + w] BY DEF RemapSector
<1> HIDE DEF q, w
<1>3. i \in Nat /\ r \in 0 .. BlocksPerPart - 1 /\ q = i * BlocksPerPart + r BY <1>1, Sizes, DivMod
<1> HIDE DEF i, r
<1>4. r \in Nat BY <1>3, Sizes
<1>5. j \in Nat /\ k \in 0 .. BlocksPerSubpart - 1 /\ r = j * BlocksPerSubpart + k
  BY <1>4, GodAssumption, DivMod
<1> HIDE DEF j, k
<1>6. k \in Nat /\ w \in Nat BY <1>1, <1>5, GodAssumption
<1>7. j \in 0 .. SubpartsPerPart - 1
  <2> SUFFICES ASSUME SubpartsPerPart <= j PROVE FALSE BY <1>5, GodAssumption
  <2>1. SubpartsPerPart * BlocksPerSubpart <= j * BlocksPerSubpart BY <1>5, GodAssumption, MultMonotonic
  <2>2. SubpartsPerPart * BlocksPerSubpart = BlocksPerPart /\ j * BlocksPerSubpart \in Nat
    BY <1>5, GodAssumption DEF BlocksPerPart
  <2> QED BY <1>3, <1>5, <1>6, <2>1, <2>2, Sizes
<1>8. s = SubStart(i, j) + k * BlockSectors + w
  <2>1. q * BlockSectors = i * BlocksPerPart * BlockSectors + r * BlockSectors
    BY <1>3, <1>4, Sizes, GodAssumption
  <2>2. r * BlockSectors = j * (BlockSectors * BlocksPerSubpart) + k * BlockSectors
    BY <1>5, <1>6, GodAssumption
  <2>3. SubStart(i, j) = i * BlocksPerPart * BlockSectors + j * (BlockSectors * BlocksPerSubpart)
    BY DEF SubStart, PartStart, SubpartSize
  <2>4. /\ i * BlocksPerPart * BlockSectors \in Nat /\ k * BlockSectors \in Nat
        /\ j * (BlockSectors * BlocksPerSubpart) \in Nat
    BY <1>3, <1>5, <1>6, Sizes, GodAssumption
  <2> QED BY <1>1, <1>6, <2>1, <2>2, <2>3, <2>4
<1>9. 1 + (j + 1) + r = TablePlace(j) + k
  <2>1. TablePlace(j) = 2 + (j * BlocksPerSubpart + j) BY <1>5, GodAssumption DEF TablePlace, Width
  <2>2. j * BlocksPerSubpart \in Nat BY <1>5, GodAssumption
  <2> QED BY <1>5, <1>6, <2>1, <2>2
<1> QED BY <1>1, <1>2, <1>3, <1>5, <1>7, <1>8, <1>9

\* The place counted from the beginning of the file, and from its data.
LEMMA PlaceInFile ==
  ASSUME NEW j \in Nat, NEW k \in Nat, NEW w \in Nat, NEW i \in Nat
  PROVE  /\ SubStart(i, j) + k * BlockSectors + w
              = PartStart(i) + (j * SubpartSize + k * BlockSectors + w)
         /\ (TablePlace(j) + k) * BlockSectors + w
              = (j + 2) * BlockSectors + (j * SubpartSize + k * BlockSectors + w)
         /\ j * SubpartSize + k * BlockSectors + w \in Nat
         /\ j * SubpartSize \in Nat /\ k * BlockSectors \in Nat
         /\ (k < BlocksPerSubpart /\ w < BlockSectors
               => k * BlockSectors + w < SubpartSize)
         /\ (j < SubpartsPerPart => j * SubpartSize + SubpartSize <= PartSize)
<1> DEFINE p == j * SubpartSize
           q == k * BlockSectors
<1>1. p \in Nat /\ q \in Nat /\ PartStart(i) \in Nat /\ SubpartSize \in Nat /\ BlockSectors \in Nat
  BY Sizes, GodAssumption
<1>2. SubStart(i, j) = PartStart(i) + p BY DEF SubStart
<1>3. (TablePlace(j) + k) * BlockSectors = (j + 2) * BlockSectors + (p + q)
  <2>1. TablePlace(j) + k = (j + 2) + (j * BlocksPerSubpart + k) BY GodAssumption DEF TablePlace, Width
  <2>2. (TablePlace(j) + k) * BlockSectors
      = (j + 2) * BlockSectors + (j * BlocksPerSubpart + k) * BlockSectors
    BY <2>1, GodAssumption
  <2>3. (j * BlocksPerSubpart + k) * BlockSectors = j * (BlockSectors * BlocksPerSubpart) + q
    BY GodAssumption
  <2> QED BY <2>2, <2>3 DEF SubpartSize
<1>4. (j + 2) * BlockSectors \in Nat BY GodAssumption
<1>5. ASSUME k < BlocksPerSubpart, w < BlockSectors
      PROVE  q + w < SubpartSize
  <2>1. (k + 1) * BlockSectors <= BlocksPerSubpart * BlockSectors BY <1>5, GodAssumption, MultMonotonic
  <2>2. (k + 1) * BlockSectors = q + BlockSectors BY GodAssumption
  <2>3. BlocksPerSubpart * BlockSectors = SubpartSize BY GodAssumption DEF SubpartSize
  <2> HIDE DEF q
  <2> QED BY <1>1, <1>5, <2>1, <2>2, <2>3
<1>6. ASSUME j < SubpartsPerPart
      PROVE  p + SubpartSize <= PartSize
  <2>1. (j + 1) * SubpartSize <= SubpartsPerPart * SubpartSize BY <1>1, <1>6, GodAssumption, MultMonotonic
  <2>2. (j + 1) * SubpartSize = p + SubpartSize BY <1>1
  <2> QED BY <2>1, <2>2 DEF PartSize
<1> HIDE DEF p, q
<1> QED BY <1>1, <1>2, <1>3, <1>4, <1>5, <1>6 DEF p, q

\* The blocks of a subpart are within the file.
LEMMA PlaceThere ==
  ASSUME NEW D \in Nat \ {0}, NEW i \in 0 .. PartCount(D) - 1,
         NEW j \in 0 .. SubCount(D, i) - 1
  PROVE  TablePlace(j) + BlockCount(D, i, j) <= FileLen(D, i, SubCount(D, i))
<1> DEFINE subs == SubCount(D, i)
           last == subs - 1
<1>1. subs \in 1 .. SubpartsPerPart /\ subs \in Nat /\ j \in Nat /\ last \in 0 .. subs - 1
      /\ last \in Nat /\ last + 1 = subs
  BY PartFacts, GodAssumption
<1>2. FileLen(D, i, subs) = TablePlace(last) + BlockCount(D, i, last) BY <1>1, FileLens
<1>3. /\ BlockCount(D, i, j) \in 1 .. BlocksPerSubpart
      /\ BlockCount(D, i, last) \in 1 .. BlocksPerSubpart
  BY <1>1, SubFacts
<1>4. TablePlace(j) = 2 + j * Width /\ TablePlace(last) = 2 + last * Width BY DEF TablePlace
<1>5. Width = BlocksPerSubpart + 1 /\ Width \in Nat BY GodAssumption DEF Width
<1>6. j * Width \in Nat /\ last * Width \in Nat BY <1>1, <1>5
<1>7. CASE j = last BY <1>2, <1>7, <1>3, <1>4, <1>6, GodAssumption
<1>8. CASE j # last
  <2>1. j + 1 <= last /\ j + 1 \in Nat BY <1>1, <1>8
  <2>2. (j + 1) * Width <= last * Width BY <1>1, <1>5, <2>1, MultMonotonic
  <2>3. (j + 1) * Width = j * Width + Width BY <1>1, <1>5
  <2> DEFINE here == BlockCount(D, i, j)
             there == BlockCount(D, i, last)
             u == j * Width
             v == last * Width
  <2>4. /\ here \in Nat /\ here <= BlocksPerSubpart /\ there \in Nat /\ BlocksPerSubpart \in Nat
        /\ u \in Nat /\ v \in Nat /\ u + Width <= v /\ Width \in Nat /\ Width > BlocksPerSubpart
    BY <1>3, <1>5, <1>6, <2>2, <2>3, GodAssumption
  <2>5. FileLen(D, i, subs) = 2 + v + there /\ TablePlace(j) = 2 + u BY <1>2, <1>4
  <2> HIDE DEF here, there, u, v
  <2>6. TablePlace(j) + here <= FileLen(D, i, subs) BY <2>4, <2>5
  <2> QED BY <2>6 DEF here
<1> QED BY <1>7, <1>8

\* A sector of the image is found in its place.
LEMMA SectorFound ==
  ASSUME NEW D \in Nat \ {0}, NEW s \in 0 .. D - 1
  PROVE  ReadSector(DataFilesOf(D), s) = s
<1> DEFINE n == PartCount(D)
<1>1. s \in Nat /\ s < D OBVIOUS
<1>2. PICK i \in Nat, j \in 0 .. SubpartsPerPart - 1, k \in 0 .. BlocksPerSubpart - 1,
       w \in 0 .. BlockSectors - 1 :
    /\ s = SubStart(i, j) + k * BlockSectors + w
    /\ RemapSector(s) = [file |-> i, offset |-> (TablePlace(j) + k) * BlockSectors + w]
  BY <1>1, RemapAt
<1>3. j \in Nat /\ k \in Nat /\ w \in Nat /\ j < SubpartsPerPart /\ k < BlocksPerSubpart
      /\ w < BlockSectors
  BY GodAssumption
<1>0. /\ SubStart(i, j) + k * BlockSectors + w
            = PartStart(i) + (j * SubpartSize + k * BlockSectors + w)
      /\ (TablePlace(j) + k) * BlockSectors + w
            = (j + 2) * BlockSectors + (j * SubpartSize + k * BlockSectors + w)
      /\ j * SubpartSize + k * BlockSectors + w \in Nat
      /\ j * SubpartSize \in Nat /\ k * BlockSectors \in Nat
      /\ k * BlockSectors + w < SubpartSize
      /\ j * SubpartSize + SubpartSize <= PartSize
  BY ONLY <1>3, i \in Nat, PlaceInFile
<1> DEFINE x == j * SubpartSize + k * BlockSectors + w
           offset == (TablePlace(j) + k) * BlockSectors + w
           start == PartStart(i)
           len == PartLen(D, i)
           subs == SubCount(D, i)
<1>4. /\ s = start + x /\ offset = (j + 2) * BlockSectors + x /\ x \in Nat
      /\ j * SubpartSize + (k * BlockSectors + w) = x
      /\ j * SubpartSize \in Nat /\ k * BlockSectors \in Nat
      /\ k * BlockSectors + w < SubpartSize
      /\ j * SubpartSize + SubpartSize <= PartSize
  BY <1>2, <1>3, <1>0
<1>5. start \in Nat /\ start < D BY <1>1, <1>4, Sizes
<1>6. n \in Nat \ {0} /\ i < n /\ i \in 0 .. n - 1 BY <1>5, PartRange
<1>7. SubStart(i, j) = start + j * SubpartSize BY DEF SubStart
<1>8. SubStart(i, j) < D BY <1>1, <1>4, <1>3, <1>5, <1>7
<1>9. j < subs /\ j \in 0 .. subs - 1 /\ subs \in Nat BY <1>3, <1>6, <1>8, PartFacts, GodAssumption
<1>10. x < len /\ len \in Nat
  <2>1. len = IF PartSize <= D - start THEN PartSize ELSE D - start BY DEF PartLen, Smaller
  <2>2. x < PartSize BY <1>3, <1>4, Sizes
  <2> HIDE DEF x, start, len
  <2> QED BY <1>1, <1>4, <1>5, <2>1, <2>2, Sizes
<1>11. k < BlockCount(D, i, j)
  <2> DEFINE p == j * SubpartSize
             c == k * BlockSectors
  <2>1. SubLen(D, i, j) = Smaller(SubpartSize, len - p) BY <1>6, <1>9, SubFacts
  <2>2. p + (c + w) = x /\ p \in Nat /\ c \in Nat /\ c + w < SubpartSize BY <1>4
  <2>3. k < BlockCount(D, i, j) <=> c < SubLen(D, i, j) BY <1>3, <1>6, <1>9, SubFacts
  <2> HIDE DEF p, c, x, len
  <2> QED BY <1>3, <1>10, <2>1, <2>2, <2>3, Sizes DEF Smaller
<1>12. offset \div BlockSectors = TablePlace(j) + k /\ offset % BlockSectors = w /\ offset \in Nat
  <2> DEFINE t == TablePlace(j) + k
             b == t * BlockSectors
  <2>1. t \in Nat
    <3>1. TablePlace(j) \in Nat BY <1>3, FileBlocks
    <3> QED BY <1>3, <3>1
  <2>2. b \in Nat BY <2>1, GodAssumption
  <2> HIDE DEF b
  <2>3. b + w \in Nat /\ b <= b + w /\ b + w < b + BlockSectors /\ (b + w) - b = w
    BY <1>3, <2>2, GodAssumption
  <2>4. (b + w) \div BlockSectors = t /\ (b + w) % BlockSectors = (b + w) - b
    BY <2>1, <2>3, GodAssumption, DivUnique DEF b
  <2> QED BY <2>3, <2>4 DEF b
<1>13. SizeOf(WholeFile(D, i)) = FileSize(D, i) BY <1>6, WholeFileFacts
<1>14. ~(offset >= SizeOf(WholeFile(D, i)))
  <2>1. (j + 1) * BlockSectors <= subs * BlockSectors BY <1>3, <1>9, GodAssumption, MultMonotonic
  <2>2. (j + 2) * BlockSectors = BlockSectors + (j + 1) * BlockSectors BY <1>3, GodAssumption
  <2>3. (j + 1) * BlockSectors \in Nat /\ subs * BlockSectors \in Nat BY <1>3, <1>9, GodAssumption
  <2>4. FileSize(D, i) = BlockSectors + subs * BlockSectors + len BY DEF FileSize
  <2> HIDE DEF x, len, subs, offset
  <2> QED BY <1>4, <1>10, <1>13, <2>1, <2>2, <2>3, <2>4, GodAssumption
<1>15. SectorAt(WholeFile(D, i), offset) = s
  <2> DEFINE b == TablePlace(j) + (k + 1)
  <2>1. FileBlock(D, i, b) = DataBlock(D, i, j, k + 1)
    <3> DEFINE next == k + 1
    <3>1. next \in 1 .. BlocksPerSubpart BY <1>3, GodAssumption
    <3> HIDE DEF next
    <3>2. FileBlock(D, i, TablePlace(j) + next) = DataBlock(D, i, j, next) BY <1>3, <3>1, FileBlocks
    <3> QED BY <3>2 DEF next
  <2>2. WholeFile(D, i) = [c \in 1 .. FileLen(D, i, subs) |-> FileBlock(D, i, c)]
    BY DEF WholeFile, FileAfter
  <2>3. b \in 1 .. FileLen(D, i, subs)
    <3>1. TablePlace(j) \in Nat BY <1>3, FileBlocks
    <3>2. TablePlace(j) + BlockCount(D, i, j) <= FileLen(D, i, subs) BY <1>6, <1>9, PlaceThere
    <3>3. BlockCount(D, i, j) \in Nat /\ FileLen(D, i, subs) \in Nat
      <4>1. BlockCount(D, i, j) \in 1 .. BlocksPerSubpart BY <1>6, <1>9, SubFacts
      <4>2. subs \in 0 .. subs BY <1>9
      <4> QED BY <1>6, <4>1, <4>2, FileLens, GodAssumption
    <3> QED BY <1>3, <1>11, <3>1, <3>2, <3>3
  <2>4. WholeFile(D, i)[b] = DataBlock(D, i, j, k + 1) BY <2>1, <2>2, <2>3
  <2>5. (offset \div BlockSectors) + 1 = b
    <3>1. TablePlace(j) \in Nat BY <1>3, FileBlocks
    <3> QED BY <1>3, <1>12, <3>1
  <2>6. /\ DataBlock(D, i, j, k + 1)[1] = "data"
        /\ DataBlock(D, i, j, k + 1)[2] = SubStart(i, j) + ((k + 1) - 1) * BlockSectors
    BY Kinds DEF DataBlock
  <2>7. (k + 1) - 1 = k BY <1>3
  <2> HIDE DEF offset, b
  <2>8. SectorAt(WholeFile(D, i), offset) = SubStart(i, j) + k * BlockSectors + w
    BY <1>12, <2>4, <2>5, <2>6, <2>7 DEF SectorAt
  <2> QED BY <1>2, <2>8
<1>16. i \in DOMAIN DataFilesOf(D) /\ DataFilesOf(D)[i] = WholeFile(D, i) BY <1>6 DEF DataFilesOf
<1> HIDE DEF offset
<1>17. RemapSector(s).file = i /\ RemapSector(s).offset = offset BY <1>2 DEF offset
<1> QED BY <1>14, <1>15, <1>16, <1>17 DEF ReadSector

\* What lies behind the image is behind the end of the last file too.
LEMMA SectorRefused ==
  ASSUME NEW D \in Nat \ {0}, NEW s \in Nat, D <= s
  PROVE  ReadSector(DataFilesOf(D), s) = Refused
<1> DEFINE n == PartCount(D)
<1>1. PICK i \in Nat, j \in 0 .. SubpartsPerPart - 1, k \in 0 .. BlocksPerSubpart - 1,
       w \in 0 .. BlockSectors - 1 :
    /\ s = SubStart(i, j) + k * BlockSectors + w
    /\ RemapSector(s) = [file |-> i, offset |-> (TablePlace(j) + k) * BlockSectors + w]
  BY RemapAt
<1>2. j \in Nat /\ k \in Nat /\ w \in Nat /\ j < SubpartsPerPart /\ k < BlocksPerSubpart
      /\ w < BlockSectors
  BY GodAssumption
<1>0. /\ SubStart(i, j) + k * BlockSectors + w
            = PartStart(i) + (j * SubpartSize + k * BlockSectors + w)
      /\ (TablePlace(j) + k) * BlockSectors + w
            = (j + 2) * BlockSectors + (j * SubpartSize + k * BlockSectors + w)
      /\ j * SubpartSize + k * BlockSectors + w \in Nat
      /\ j * SubpartSize \in Nat /\ k * BlockSectors \in Nat
      /\ k * BlockSectors + w < SubpartSize
      /\ j * SubpartSize + SubpartSize <= PartSize
  BY ONLY <1>2, i \in Nat, PlaceInFile
<1> DEFINE x == j * SubpartSize + k * BlockSectors + w
           p == j * SubpartSize
           offset == (TablePlace(j) + k) * BlockSectors + w
           start == PartStart(i)
           len == PartLen(D, i)
           subs == SubCount(D, i)
<1>3. /\ s = start + x /\ offset = (j + 2) * BlockSectors + x /\ x \in Nat
      /\ p + (k * BlockSectors + w) = x
      /\ p \in Nat /\ k * BlockSectors \in Nat
      /\ k * BlockSectors + w < SubpartSize
      /\ p + SubpartSize <= PartSize
  BY <1>1, <1>2, <1>0
<1>4. RemapSector(s).file = i /\ RemapSector(s).offset = offset BY <1>1
<1>5. DOMAIN DataFilesOf(D) = 0 .. n - 1
      /\ \A f \in 0 .. n - 1 : DataFilesOf(D)[f] = WholeFile(D, f)
  BY DEF DataFilesOf
<1>6. CASE i \notin 0 .. n - 1 BY <1>4, <1>5, <1>6 DEF ReadSector
<1>7. CASE i \in 0 .. n - 1
  <2>1. start \in Nat /\ start < D /\ n \in Nat \ {0} /\ SubpartSize \in Nat
    BY <1>7, PartFacts, PartRange, Sizes
  <2>2. ~(i + 1 < n)
    <3> SUFFICES ASSUME i + 1 < n PROVE FALSE OBVIOUS
    <3>1. PartStart(i + 1) < D /\ PartStart(i + 1) = (i + 1) * PartSize /\ start = i * PartSize
      BY PartRange, Sizes
    <3>2. (i + 1) * PartSize = i * PartSize + PartSize BY Sizes
    <3>3. x < PartSize BY <1>2, <1>3, <2>1, Sizes
    <3>4. start + PartSize < D BY <3>1, <3>2
    <3> HIDE DEF x, start
    <3> QED BY <1>3, <2>1, <3>3, <3>4, Sizes
  <2>3. len <= x /\ len \in Nat
    <3>1. len = IF PartSize <= D - start THEN PartSize ELSE D - start BY DEF PartLen, Smaller
    <3>2. x < PartSize BY <1>2, <1>3, <2>1, Sizes
    <3>3. PartSize <= D - start => D - start = PartSize
      <4>1. ~(PartStart(i + 1) < D) /\ PartStart(i + 1) = (i + 1) * PartSize
            /\ start = i * PartSize
        BY <2>2, PartRange, Sizes
      <4>2. (i + 1) * PartSize = i * PartSize + PartSize BY Sizes
      <4>3. ~(start + PartSize < D) BY <4>1, <4>2
      <4> HIDE DEF start
      <4> QED BY <2>1, <4>3, Sizes
    <3> HIDE DEF x, start, len
    <3> QED BY <1>3, <2>1, <3>1, <3>2, <3>3, Sizes
  <2>4. subs <= j + 1 /\ subs \in Nat
    <3>1. subs \in Nat /\ (j + 1 < subs <=> (j + 1) * SubpartSize < len)
      BY <1>2, <1>7, PartFacts, GodAssumption
    <3>2. (j + 1) * SubpartSize = p + SubpartSize BY <1>2, Sizes
    <3> HIDE DEF p, x, len
    <3> QED BY <1>2, <1>3, <2>1, <2>3, <3>1, <3>2
  <2>5. FileSize(D, i) = BlockSectors + subs * BlockSectors + len BY DEF FileSize
  <2>6. (subs + 1) * BlockSectors <= (j + 2) * BlockSectors BY <1>2, <2>4, GodAssumption, MultMonotonic
  <2>7. (subs + 1) * BlockSectors = BlockSectors + subs * BlockSectors BY <2>4, GodAssumption
  <2>8. (j + 2) * BlockSectors \in Nat /\ subs * BlockSectors \in Nat BY <1>2, <2>4, GodAssumption
  <2>9. SizeOf(WholeFile(D, i)) = FileSize(D, i) BY <1>7, WholeFileFacts
  <2> HIDE DEF x, len, subs, offset
  <2>10. offset >= SizeOf(WholeFile(D, i)) BY <1>3, <2>3, <2>5, <2>6, <2>7, <2>8, <2>9, GodAssumption
  <2> QED BY <1>4, <1>5, <1>7, <2>10 DEF ReadSector
<1> QED BY <1>6, <1>7

\* The last file is what is left of the image.
LEMMA LastFile ==
  ASSUME NEW D \in Nat \ {0}, NEW last, last = PartCount(D) - 1
  PROVE  /\ last \in Nat /\ last \in 0 .. PartCount(D) - 1
         /\ last * PartSize \in Nat
         /\ PartLen(D, last) \in Nat \ {0}
         /\ D = last * PartSize + PartLen(D, last)
<1> DEFINE n == PartCount(D)
           start == PartStart(last)
           len == PartLen(D, last)
<1>1. n \in Nat \ {0} /\ last \in Nat /\ last \in 0 .. n - 1 /\ ~(last + 1 < n) BY PartRange
<1>2. start \in Nat /\ start < D /\ start = last * PartSize /\ PartSize \in Nat \ {0}
      /\ len \in 1 .. PartSize
  BY <1>1, PartFacts, Sizes
<1>3. ~(PartStart(last + 1) < D) /\ PartStart(last + 1) = (last + 1) * PartSize BY <1>1, PartRange, Sizes
<1>4. (last + 1) * PartSize = start + PartSize BY <1>1, <1>2
<1>5. len = IF PartSize <= D - start THEN PartSize ELSE D - start BY DEF PartLen, Smaller
<1> HIDE DEF len, start
<1>6. D = start + len BY <1>2, <1>3, <1>4, <1>5
<1> QED BY <1>1, <1>2, <1>6 DEF len, start

\* What open() and total_sectors() make of the size of the last file.
CountedSectors(size, n) ==
  LET total_blocks_last == size \div BlockSectors
      hash_table_blocks == (total_blocks_last - 1) \div (BlocksPerSubpart + 1)
      data_blocks_last == total_blocks_last - 1 - hash_table_blocks
  IN (data_blocks_last + BlocksPerPart * (n - 1)) * BlockSectors

LEMMA CountFacts ==
  ASSUME NEW D \in Nat \ {0}
  PROVE  /\ FileSize(D, PartCount(D) - 1) >= BlockSectors
         /\ CountedSectors(FileSize(D, PartCount(D) - 1), PartCount(D)) \in D .. D + BlockSectors
<1> DEFINE n == PartCount(D)
           last == n - 1
           len == PartLen(D, last)
           c == SubCount(D, last)
           l == len \div BlockSectors
           h == (c + l) \div Width
           t == last * PartSize
<1>1. /\ last \in Nat /\ last \in 0 .. n - 1 /\ t \in Nat /\ len \in Nat \ {0} /\ D = t + len BY LastFile
<1>2. n \in Nat \ {0} BY PartRange
<1>3. /\ c \in Nat \ {0} /\ \A j \in Nat : j < c <=> j * SubpartSize < len
  BY <1>1, PartFacts, GodAssumption
<1>4. FileSize(D, last) = BlockSectors + c * BlockSectors + len BY DEF FileSize
<1>5. l \in Nat /\ l * BlockSectors <= len /\ len < l * BlockSectors + BlockSectors
  BY <1>1, GodAssumption, DivMod, DivBounds
<1>6. Width = BlocksPerSubpart + 1 /\ Width \in Nat \ {0} /\ BlocksPerSubpart \in Nat \ {0}
      /\ BlockSectors \in Nat \ {0}
  BY GodAssumption DEF Width
<1> HIDE DEF last, len, c, l, t
<1> DEFINE cB == c * BlockSectors
           lB == l * BlockSectors
<1>7. cB \in Nat /\ lB \in Nat /\ (c + l) * BlockSectors = cB + lB
      /\ (1 + c + l) * BlockSectors = BlockSectors + cB + lB
  BY <1>3, <1>5, <1>6
<1>8. FileSize(D, last) \div BlockSectors = 1 + c + l
  <2> DEFINE x == BlockSectors + cB + len
  <2>1. x \in Nat /\ (1 + c + l) * BlockSectors <= x /\ x < (1 + c + l) * BlockSectors + BlockSectors
    BY <1>1, <1>5, <1>6, <1>7
  <2>2. 1 + c + l \in Nat BY <1>3, <1>5
  <2> HIDE DEF x
  <2>3. x \div BlockSectors = 1 + c + l BY <1>6, <2>1, <2>2, DivUnique
  <2> QED BY <1>4, <2>3 DEF x
<1>9. CountedSectors(FileSize(D, last), n) = (((1 + c + l) - 1 - h) + BlocksPerPart * (n - 1)) * BlockSectors
  <2>1. (1 + c + l) - 1 = c + l BY <1>3, <1>5
  <2> QED BY <1>6, <1>8, <2>1 DEF CountedSectors
<1>10. (h = c \/ h = c - 1) /\ (h = c => len = lB)
  <2> DEFINE d == c - 1
             p == d * BlocksPerSubpart
             q == c * BlocksPerSubpart
  <2>1. d \in Nat /\ d < c /\ c \in Nat BY <1>3
  <2>2. p \in Nat /\ q \in Nat /\ q = p + BlocksPerSubpart BY <1>6, <2>1
  <2>3. d * SubpartSize = p * BlockSectors /\ c * SubpartSize = q * BlockSectors
    BY <1>3, <1>6, <2>1 DEF SubpartSize
  <2>4. d * SubpartSize < len /\ ~(c * SubpartSize < len) BY <1>3, <2>1
  <2>5. p * BlockSectors < len /\ len <= q * BlockSectors
        /\ p * BlockSectors \in Nat /\ q * BlockSectors \in Nat
    BY <1>1, <1>6, <2>2, <2>3, <2>4
  <2> HIDE DEF p, q, d
  <2>6. p <= l
    <3> SUFFICES ASSUME l + 1 <= p PROVE FALSE BY <1>5, <2>2
    <3>1. (l + 1) * BlockSectors <= p * BlockSectors /\ (l + 1) * BlockSectors = lB + BlockSectors
      BY <1>5, <1>6, <2>2, MultMonotonic
    <3> HIDE DEF lB
    <3> QED BY <1>1, <1>5, <1>6, <1>7, <2>5, <3>1 DEF lB
  <2>7. l <= q
    <3> SUFFICES ASSUME q + 1 <= l PROVE FALSE BY <1>5, <2>2
    <3>1. (q + 1) * BlockSectors <= lB /\ (q + 1) * BlockSectors = q * BlockSectors + BlockSectors
      BY <1>5, <1>6, <2>2, MultMonotonic
    <3> QED BY <1>1, <1>5, <1>6, <1>7, <2>5, <3>1
  <2>8. c * Width = q + c /\ d * Width = p + d /\ d = c - 1 BY <1>6, <2>1 DEF p, q, d
  <2>9. CASE l = q
    <3>1. c * Width <= c + l /\ c + l < c * Width + Width /\ c + l \in Nat
      BY <1>5, <1>6, <2>1, <2>2, <2>8, <2>9
    <3>2. h = c BY <1>6, <2>1, <3>1, DivUnique
    <3>3. len = lB BY <1>1, <1>5, <1>7, <2>5, <2>9
    <3> QED BY <3>2, <3>3
  <2>10. CASE l # q
    <3>1. d * Width <= c + l /\ c + l < d * Width + Width /\ c + l \in Nat
      BY <1>5, <1>6, <2>1, <2>2, <2>6, <2>7, <2>8, <2>10
    <3>2. h = d BY <1>6, <2>1, <3>1, DivUnique
    <3> QED BY <2>1, <2>8, <3>2
  <2> QED BY <2>9, <2>10
<1>11. BlocksPerPart * (n - 1) * BlockSectors = t /\ BlocksPerPart * (n - 1) \in Nat
  BY <1>1, <1>6, Sizes DEF last, t
<1> HIDE DEF h
<1>12. ASSUME NEW e \in {0, 1}, h = c - e
    PROVE  CountedSectors(FileSize(D, last), n) = (IF e = 1 THEN BlockSectors ELSE 0) + lB + t
  <2>1. (1 + c + l) - 1 - h = e + l BY <1>3, <1>5, <1>12
  <2> DEFINE b == BlocksPerPart * (n - 1)
  <2>2. b \in Nat /\ b * BlockSectors = t BY <1>11
  <2> HIDE DEF b
  <2>3. ((e + l) + b) * BlockSectors = e * BlockSectors + lB + t BY <1>5, <1>6, <2>2
  <2>4. CountedSectors(FileSize(D, last), n) = ((e + l) + b) * BlockSectors BY <1>9, <2>1 DEF b
  <2>5. e * BlockSectors = IF e = 1 THEN BlockSectors ELSE 0 BY <1>6
  <2> QED BY <2>3, <2>4, <2>5
<1>13. FileSize(D, last) >= BlockSectors BY <1>1, <1>4, <1>6, <1>7
<1> DEFINE total == CountedSectors(FileSize(D, last), n)
<1>14. h = c => total = 0 + lB + t BY <1>12, <1>3
<1>15. h = c - 1 => total = BlockSectors + lB + t BY <1>12, <1>3
<1> HIDE DEF total, lB
<1>16. total \in D .. D + BlockSectors
  <2>1. lB <= len /\ len < lB + BlockSectors BY <1>5 DEF lB
  <2> QED BY <1>1, <1>3, <1>6, <1>7, <1>10, <1>14, <1>15, <2>1
<1> QED BY <1>13, <1>16 DEF total, last

\* A read within the image returns the bytes asked for.
LEMMA BytesFound ==
  ASSUME NEW D \in Nat \ {0}, NEW offset \in Nat, NEW len \in Nat \ {0},
         offset + len <= D * SectorBytes
  PROVE  ReadBytes(DataFilesOf(D), offset, len) = [k \in 1 .. len |-> offset + k - 1]
<1> DEFINE store == DataFilesOf(D)
           first == offset \div SectorBytes
           last == (offset + len - 1) \div SectorBytes
           n == last - first + 1
           held == [s \in first .. last |-> ReadSector(store, s)]
           places == [k \in 1 .. n |-> k - 1]
           g == [k \in 1 .. n |-> Copied(held[first + (k - 1)], first + (k - 1), offset, len)]
           iter == CHOOSE f : f = [s \in SUBSET DOMAIN places |->
                     IF s = {} THEN <<>> ELSE f[s \ {Max(s)}]
                            \o Copied(held[first + places[Max(s)]], first + places[Max(s)],
                                      offset, len)]
<1>1. SectorBytes \in Nat \ {0} BY SectorAssumption
<1>2. /\ first \in Nat /\ last \in Nat /\ first <= last
      /\ last * SectorBytes \in Nat /\ last * SectorBytes < offset + len
  BY <1>1, ReadSectors
<1>3. last < D
  <2> SUFFICES ASSUME D <= last PROVE FALSE BY <1>2
  <2>1. D * SectorBytes <= last * SectorBytes BY <1>1, <1>2, MultMonotonic
  <2> QED BY <1>1, <1>2, <2>1
<1>4. ~ \E s \in first .. last : held[s] = Refused
  <2> SUFFICES ASSUME NEW s \in first .. last PROVE held[s] # Refused OBVIOUS
  <2>1. s \in 0 .. D - 1 BY <1>2, <1>3
  <2>2. held[s] = s BY <2>1, SectorFound
  <2> QED BY <2>1, <2>2 DEF Refused
<1>5. ReadBytes(store, offset, len) = iter[DOMAIN places] BY <1>4 DEF ReadBytes, FoldLeft, MapThenFoldSet
<1>6. DOMAIN places = 1 .. n OBVIOUS
<1>7. n \in Nat BY <1>2
<1>8. ASSUME NEW k \in 1 .. n
      PROVE  /\ first + (k - 1) = first + k - 1 /\ first + (k - 1) \in Nat
             /\ held[first + (k - 1)] = first + (k - 1)
  <2>1. first + (k - 1) \in first .. last /\ first + (k - 1) \in 0 .. D - 1 BY <1>2, <1>3
  <2>2. held[first + (k - 1)] = first + (k - 1) BY <2>1, SectorFound
  <2> QED BY <1>2, <2>1, <2>2
<1>9. AreCopied(g, first, n, SectorBytes, offset, len)
  <2> SUFFICES ASSUME NEW k \in 1 .. n
      PROVE  g[k] = Interval(CopyStart(first + k - 1, SectorBytes, offset),
                             CopyEnd(first + k - 1, SectorBytes, offset, len))
    BY DEF AreCopied
  <2> DEFINE s == first + k - 1
             start == s * SectorBytes
             a == CopyStart(s, SectorBytes, offset)
             b == CopyEnd(s, SectorBytes, offset, len)
  <2>1. s \in Nat /\ g[k] = Copied(s, s, offset, len) BY <1>8
  <2>2. start \in Nat BY <1>1, <2>1
  <2>3. a = Larger(offset, start) /\ b = Smaller(offset + len, start + SectorBytes)
    BY DEF CopyStart, CopyEnd, Larger, Smaller
  <2>4. a \in Int /\ b \in Int BY <1>1, <2>2, <2>3 DEF Larger, Smaller
  <2>5. Copied(s, s, offset, len)
      = [m \in 1 .. (b - start) - (a - start) |-> start + (a - start) + m - 1]
    BY <2>3 DEF Copied
  <2> HIDE DEF a, b, start
  <2>6. (b - start) - (a - start) = b - a BY <2>2, <2>4
  <2>7. start + (a - start) = a BY <2>2, <2>4
  <2>8. Copied(s, s, offset, len) = [m \in 1 .. b - a |-> a + m - 1] BY <2>5, <2>6, <2>7
  <2> QED BY <2>1, <2>8 DEF Interval, a, b
<1>10. ASSUME NEW s \in SUBSET (1 .. n), s # {}
    PROVE  g[Max(s)] = Copied(held[first + places[Max(s)]], first + places[Max(s)], offset, len)
  <2>1. Max(s) \in 1 .. n BY <1>7, <1>10, MaxOfUpTo
  <2> QED BY <2>1
<1> HIDE DEF g
<1>11. \E F : IsConcatFold(F, g, n) BY <1>7, ConcatFoldExists
<1> HIDE DEF places, held, n
<1>12. PICK F : IsConcatFold(F, g, n) BY <1>11
<1>13. F = [s \in SUBSET DOMAIN places |->
    IF s = {} THEN <<>> ELSE F[s \ {Max(s)}]
           \o Copied(held[first + places[Max(s)]], first + places[Max(s)], offset, len)]
  BY <1>6, <1>10, <1>12 DEF IsConcatFold
<1>14. iter = [s \in SUBSET DOMAIN places |->
    IF s = {} THEN <<>> ELSE iter[s \ {Max(s)}]
           \o Copied(held[first + places[Max(s)]], first + places[Max(s)], offset, len)]
  BY <1>13
<1> HIDE DEF iter
<1>15. IsConcatFold(iter, g, n) BY <1>6, <1>10, <1>14 DEF IsConcatFold
<1>16. iter[1 .. n] = Interval(offset, offset + len)
  <2>1. CoversRange(first, n, SectorBytes, offset, len) BY DEF n, CoversRange
  <2> HIDE DEF first, last
  <2> QED BY ONLY <1>1, <1>9, <1>15, <2>1, offset \in Nat, len \in Nat \ {0}, ReadConcats
<1>17. Interval(offset, offset + len) = [k \in 1 .. len |-> offset + k - 1]
  <2>1. (offset + len) - offset = len OBVIOUS
  <2> QED BY <2>1 DEF Interval
<1> QED BY <1>5, <1>6, <1>16, <1>17

\* One that runs on behind it is refused.
LEMMA BytesRefused ==
  ASSUME NEW D \in Nat \ {0}, NEW offset \in Nat, NEW len \in Nat \ {0},
         ~(offset + len <= D * SectorBytes)
  PROVE  ReadBytes(DataFilesOf(D), offset, len) = <<Refused>>
<1> DEFINE first == offset \div SectorBytes
           last == (offset + len - 1) \div SectorBytes
           held == [s \in first .. last |-> ReadSector(DataFilesOf(D), s)]
<1>1. SectorBytes \in Nat \ {0} BY SectorAssumption
<1>2. /\ first \in Nat /\ last \in Nat /\ first <= last
      /\ last * SectorBytes \in Nat /\ offset + len <= last * SectorBytes + SectorBytes
  BY <1>1, ReadSectors
<1>3. D <= last
  <2> SUFFICES ASSUME last + 1 <= D PROVE FALSE BY <1>2
  <2>1. (last + 1) * SectorBytes <= D * SectorBytes BY <1>1, <1>2, MultMonotonic
  <2>2. (last + 1) * SectorBytes = last * SectorBytes + SectorBytes BY <1>1, <1>2
  <2>3. D * SectorBytes \in Nat BY <1>1
  <2> HIDE DEF last
  <2> QED BY <1>1, <1>2, <2>1, <2>2, <2>3
<1>4. ReadSector(DataFilesOf(D), last) = Refused BY <1>2, <1>3, SectorRefused
<1>5. last \in first .. last /\ held[last] = Refused BY <1>2, <1>4
<1> QED BY <1>5 DEF ReadBytes

\* A finished package reads back as the image it was made of, and the reader
\* never takes a hash table or another file's bytes for a sector: the image's
\* bytes at any offset and in any length, and no sector behind it, however
\* many the reader counts (GodSource).
THEOREM ReaderFinds == Spec => []ReaderFindsEverySector
<1>1. IInv => ReaderFindsEverySector
  <2> SUFFICES ASSUME IInv, IsDone PROVE ReaderFindsEverySector BY DEF ReaderFindsEverySector
  <2> DEFINE D == data_size
             n == PartCount(D)
  <2>1. D \in Nat \ {0} /\ n \in Nat \ {0} /\ part_count = n BY Counts DEF IInv
  <2>2. files = FilesDone(D) BY DEF IInv, StreamOK, BeforeFirst, Within, BehindLast, AtEnd, IsDone
  <2>3. \A i \in 0 .. n - 1 : files[i] = WholeFile(D, i)
    <3> SUFFICES ASSUME NEW i \in 0 .. n - 1 PROVE files[i] = WholeFile(D, i) OBVIOUS
    <3>1. i \in 0 .. n /\ i # n BY <2>1
    <3> QED BY <2>2, <3>1 DEF FilesDone
  <2>4. DataFiles = DataFilesOf(D) BY <2>1, <2>3 DEF DataFiles, DataFilesOf
  <2>5. SizeOf(files[part_count - 1]) = FileSize(D, n - 1)
    <3>1. n - 1 \in 0 .. n - 1 BY <2>1
    <3> QED BY <2>1, <2>3, <3>1, WholeFileFacts
  <2>6. Opens BY <2>1, <2>5, CountFacts DEF Opens
  <2>7. TotalSectors = CountedSectors(FileSize(D, n - 1), n)
    BY <2>1, <2>5 DEF TotalSectors, CountedSectors
  <2>8. TotalSectors \in D .. D + BlockSectors BY <2>1, <2>7, CountFacts
  <2> HIDE DEF n
  <2>9. ASSUME NEW s \in D .. TotalSectors - 1
        PROVE  ReadSector(DataFiles, s) = Refused
    <3>1. s \in Nat /\ D <= s BY <2>1, <2>8
    <3> QED BY <2>1, <2>4, <3>1, SectorRefused
  <2>10. ASSUME NEW read \in Reads
      PROVE  ReadBytes(DataFiles, read[1], read[2]) = IF read[1] + read[2] <= D * SectorBytes
               THEN [k \in 1 .. read[2] |-> read[1] + k - 1] ELSE <<Refused>>
    <3>1. read[1] \in Nat /\ read[2] \in Nat \ {0}
      <4>1. read[1] \in 0 .. D * SectorBytes /\ read[2] \in {1, 2, 3 * SectorBytes} BY DEF Reads
      <4>2. D * SectorBytes \in Nat /\ 3 * SectorBytes \in Nat \ {0} BY <2>1, SectorAssumption
      <4> QED BY <4>1, <4>2
    <3>2. CASE read[1] + read[2] <= D * SectorBytes BY <2>1, <2>4, <3>1, <3>2, BytesFound
    <3>3. CASE ~(read[1] + read[2] <= D * SectorBytes) BY <2>1, <2>4, <3>1, <3>3, BytesRefused
    <3> QED BY <3>2, <3>3
  <2> QED BY <2>6, <2>8, <2>9, <2>10 DEF ReaderFindsEverySector
<1> QED BY <1>1, Invariant, PTL
=============================================================================
