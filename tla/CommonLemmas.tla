---------------------------- MODULE CommonLemmas ----------------------------
(***************************************************************************)
(* Facts that several proofs need and that the library of the proof system *)
(* does not have. First least and greatest elements: that the Min and Max  *)
(* of FiniteSetsExt (a CHOOSE each) exist and bound their set. The least-  *)
(* element principle of the naturals comes from the well-foundedness of <; *)
(* since it speaks of a set, not of a predicate, it is also how the proofs *)
(* do induction over the naturals: the set of the numbers for which the    *)
(* claim fails has no least element. Then division by a size, sums and the *)
(* folds that compute them, sequences of known length and what joining and *)
(* cutting makes of them, folds as runs (the k-th state of a run is the    *)
(* fold of the first k elements), counts and ranks, and what a queue holds *)
(* that takes in the children of each member it serves.                    *)
(***************************************************************************)
EXTENDS Integers, SequencesExt, FiniteSetsExt, FiniteSetTheorems, FunctionTheorems,
        WellFoundedInduction, SequenceTheorems, TLAPS

\* Every set of naturals that is not empty has a least element.
LEMMA NatLeast ==
  ASSUME NEW S \in SUBSET Nat, S # {}
  PROVE  \E m \in S : \A x \in S : m <= x
<1>1. PICK m \in S : \A x \in S : ~(<<x, m>> \in OpToRel(<, Nat)) BY NatLessThanWellFounded, WFMin
<1>2. \A x \in S : <<x, m>> \in Nat \X Nat OBVIOUS
<1>3. \A x \in S : ~(x < m) BY <1>1, <1>2 DEF OpToRel
<1> QED BY <1>3

\* The minimum of a set of integers that is bounded below.
LEMMA IntMin ==
  ASSUME NEW S \in SUBSET Int, NEW a \in Int, \A x \in S : a <= x, S # {}
  PROVE  Min(S) \in S /\ \A x \in S : Min(S) <= x
<1> DEFINE T == {n \in Nat : a + n \in S}
<1>1. T \in SUBSET Nat /\ T # {}
  <2>1. PICK x \in S : x \in Int /\ a <= x OBVIOUS
  <2>2. x - a \in Nat /\ a + (x - a) = x BY <2>1
  <2> QED BY <2>2
<1>2. PICK m \in T : \A x \in T : m <= x BY <1>1, NatLeast
<1> DEFINE n == a + m
<1>3. n \in S BY <1>2
<1>4. \A x \in S : n <= x
  <2> SUFFICES ASSUME NEW x \in S PROVE n <= x OBVIOUS
  <2>1. x \in Int /\ x - a \in Nat /\ a + (x - a) = x OBVIOUS
  <2>2. x - a \in T BY <2>1
  <2>3. m <= x - a /\ m \in Nat BY <1>2, <2>2
  <2> QED BY <2>1, <2>3
<1> HIDE DEF n
<1> QED BY <1>3, <1>4 DEF Min

\* The maximum of a set of integers that is bounded above.
LEMMA IntMax ==
  ASSUME NEW S \in SUBSET Int, NEW b \in Int, \A x \in S : x <= b, S # {}
  PROVE  Max(S) \in S /\ \A x \in S : x <= Max(S)
<1> DEFINE T == {n \in Nat : b - n \in S}
<1>1. T \in SUBSET Nat /\ T # {}
  <2>1. PICK x \in S : x \in Int /\ x <= b OBVIOUS
  <2>2. b - x \in Nat /\ b - (b - x) = x BY <2>1
  <2> QED BY <2>2
<1>2. PICK m \in T : \A x \in T : m <= x BY <1>1, NatLeast
<1> DEFINE n == b - m
<1>3. n \in S BY <1>2
<1>4. \A x \in S : n >= x
  <2> SUFFICES ASSUME NEW x \in S PROVE n >= x OBVIOUS
  <2>1. x \in Int /\ b - x \in Nat /\ b - (b - x) = x OBVIOUS
  <2>2. b - x \in T BY <2>1
  <2>3. m <= b - x /\ m \in Nat BY <1>2, <2>2
  <2> QED BY <2>1, <2>3
<1> HIDE DEF n
<1>5. Max(S) \in S /\ \A x \in S : Max(S) >= x BY <1>3, <1>4 DEF Max
<1> QED BY <1>5

\* Induction over the naturals, for a set.
LEMMA NatInduct ==
  ASSUME NEW S, 0 \in S, \A n \in Nat : n \in S => n + 1 \in S
  PROVE  Nat \subseteq S
<1> SUFFICES ASSUME ~(Nat \subseteq S) PROVE FALSE OBVIOUS
<1>1. PICK m \in Nat \ S : \A x \in Nat \ S : m <= x
  <2>1. Nat \ S \in SUBSET Nat /\ Nat \ S # {} OBVIOUS
  <2> QED BY <2>1, NatLeast
<1>2. m - 1 \in Nat /\ m = (m - 1) + 1
  <2>1. m # 0 OBVIOUS
  <2> QED BY <2>1
<1>3. m - 1 \in S BY <1>1, <1>2
<1> QED BY <1>2, <1>3

\* The lesser and the greater of two integers.
LEMMA MinPair ==
  ASSUME NEW a \in Int, NEW b \in Int
  PROVE  Min({a, b}) = IF a <= b THEN a ELSE b
<1> DEFINE m == IF a <= b THEN a ELSE b
           S == {a, b}
<1>1. S \in SUBSET Int /\ S # {} /\ m \in S /\ m \in Int /\ \A x \in S : m <= x OBVIOUS
<1> HIDE DEF m, S
<1>2. Min(S) \in S /\ \A x \in S : Min(S) <= x BY <1>1, IntMin
<1>3. Min(S) <= m /\ m <= Min(S) /\ Min(S) \in Int BY <1>1, <1>2
<1>4. Min(S) = m BY <1>1, <1>3
<1> QED BY <1>4 DEF m, S

LEMMA MaxPair ==
  ASSUME NEW a \in Int, NEW b \in Int
  PROVE  Max({a, b}) = IF b <= a THEN a ELSE b
<1> DEFINE m == IF b <= a THEN a ELSE b
           S == {a, b}
<1>1. S \in SUBSET Int /\ S # {} /\ m \in S /\ m \in Int /\ \A x \in S : x <= m OBVIOUS
<1> HIDE DEF m, S
<1>2. Max(S) \in S /\ \A x \in S : x <= Max(S) BY <1>1, IntMax
<1>3. Max(S) <= m /\ m <= Max(S) /\ Max(S) \in Int BY <1>1, <1>2
<1>4. Max(S) = m BY <1>1, <1>3
<1> QED BY <1>4 DEF m, S

\* A finite set of integers is bounded.
LEMMA FiniteBounded ==
  ASSUME NEW S \in SUBSET Int, IsFiniteSet(S)
  PROVE  \E b \in Int : \A x \in S : x <= b
<1> DEFINE n == Cardinality(S)
<1>1. n \in Nat /\ ExistsBijection(1 .. n, S) BY FS_CardinalityType
<1> HIDE DEF n
<1>2. PICK f \in Surjection(1 .. n, S) : TRUE BY <1>1 DEF ExistsBijection, Bijection
<1>3. f \in [1 .. n -> S] /\ \A x \in S : \E i \in 1 .. n : f[i] = x
  <2> DEFINE D == 1 .. n
  <2> HIDE DEF D
  <2>1. f \in Surjection(D, S) BY DEF D
  <2>2. f \in [D -> S] /\ \A x \in S : \E i \in D : f[i] = x BY <2>1, Fun_SurjectionProperties
  <2> QED BY <2>2 DEF D
<1>a. \A i \in 1 .. n : f[i] \in Int BY <1>3
<1> DEFINE T == {k \in Nat : k <= n => \E b \in Int : \A i \in 1 .. k : f[i] <= b}
<1>4. 0 \in T
  <2>1. \A i \in 1 .. 0 : f[i] <= 0 OBVIOUS
  <2> QED BY <2>1
<1>5. ASSUME NEW k \in Nat, k \in T
      PROVE  k + 1 \in T
  <2> SUFFICES ASSUME k + 1 <= n
      PROVE  \E b \in Int : \A i \in 1 .. k + 1 : f[i] <= b
    OBVIOUS
  <2>1. k <= n BY <1>1
  <2>2. PICK b \in Int : \A i \in 1 .. k : f[i] <= b BY <1>5, <2>1
  <2>3. f[k + 1] \in Int BY <1>1, <1>a
  <2>4. PICK c \in Int : b <= c /\ f[k + 1] <= c
    <3>1. CASE b <= f[k + 1] BY <2>3, <3>1
    <3>2. CASE f[k + 1] <= b BY <3>2
    <3> QED BY <2>3, <3>1, <3>2
  <2>5. \A i \in 1 .. k + 1 : f[i] <= c
    <3> SUFFICES ASSUME NEW i \in 1 .. k + 1 PROVE f[i] <= c OBVIOUS
    <3>1. f[i] \in Int BY <1>1, <1>a
    <3>2. CASE i \in 1 .. k
      <4>1. f[i] <= b BY <2>2, <3>2
      <4> QED BY <2>4, <3>1, <4>1
    <3>3. CASE i = k + 1 BY <2>4, <3>3
    <3> QED BY <3>2, <3>3
  <2> QED BY <2>5
<1> HIDE DEF T
<1>6. n \in T BY <1>1, <1>4, <1>5, NatInduct
<1>7. PICK b \in Int : \A i \in 1 .. n : f[i] <= b BY <1>1, <1>6 DEF T
<1> QED BY <1>3, <1>7

\* A finite set of integers that is not empty has a greatest element.
LEMMA FiniteMax ==
  ASSUME NEW S \in SUBSET Int, IsFiniteSet(S), S # {}
  PROVE  Max(S) \in S /\ \A x \in S : x <= Max(S)
BY FiniteBounded, IntMax

-----------------------------------------------------------------------------
(* Division by a size                                                        *)

\* Quotient and remainder.
LEMMA DivMod ==
  ASSUME NEW x \in Nat, NEW d \in Nat \ {0}
  PROVE  /\ x \div d \in Nat
         /\ x % d \in 0 .. d - 1
         /\ x = (x \div d) * d + (x % d)
  OBVIOUS

\* A quotient is the number of whole sizes below a position.
LEMMA DivBounds ==
  ASSUME NEW x \in Nat, NEW d \in Nat \ {0}
  PROVE  (x \div d) * d <= x /\ x < (x \div d) * d + d
<1> DEFINE q == x \div d
           p == q * d
<1>1. x = p + (x % d) /\ x % d \in 0 .. d - 1 BY DivMod
<1>2. p \in Nat BY DivMod
<1> HIDE DEF p
<1> QED BY <1>1, <1>2 DEF p

\* Multiplication is monotonic.
LEMMA MultMonotonic ==
  ASSUME NEW a \in Nat, NEW b \in Nat, NEW d \in Nat, a <= b
  PROVE  a * d <= b * d
<1>1. b - a \in Nat /\ b = a + (b - a) OBVIOUS
<1>2. b * d = a * d + (b - a) * d BY <1>1
<1>3. (b - a) * d \in Nat /\ a * d \in Nat BY <1>1
<1> QED BY <1>2, <1>3

\* Division is monotonic.
LEMMA DivMonotonic ==
  ASSUME NEW x \in Nat, NEW y \in Nat, NEW d \in Nat \ {0}, x <= y
  PROVE  x \div d <= y \div d
<1> DEFINE a == x \div d
           b == y \div d
<1>1. a \in Nat /\ b \in Nat BY DivMod
<1>2. a * d <= x /\ y < b * d + d BY DivBounds
<1> HIDE DEF a, b
<1> SUFFICES ASSUME b + 1 <= a PROVE FALSE BY <1>1 DEF a, b
<1>3. (b + 1) * d <= a * d BY <1>1, MultMonotonic
<1>4. (b + 1) * d = b * d + d /\ b * d \in Nat /\ a * d \in Nat BY <1>1
<1> QED BY <1>2, <1>3, <1>4

\* The quotient is the only block a position lies in.
LEMMA DivUnique ==
  ASSUME NEW x \in Nat, NEW d \in Nat \ {0}, NEW q \in Nat, q * d <= x, x < q * d + d
  PROVE  x \div d = q /\ x % d = x - q * d
<1> DEFINE a == x \div d
<1>1. a \in Nat BY DivMod
<1>2. a * d <= x /\ x < a * d + d BY DivBounds
<1>3. x % d = x - a * d
  <2>1. x = a * d + (x % d) /\ x % d \in Int /\ a * d \in Int BY DivMod, <1>1
  <2> QED BY <2>1
<1> HIDE DEF a
<1>4. a * d \in Nat /\ q * d \in Nat /\ (a + 1) * d = a * d + d /\ (q + 1) * d = q * d + d BY <1>1
<1>5. ~(q + 1 <= a)
  <2> SUFFICES ASSUME q + 1 <= a PROVE FALSE OBVIOUS
  <2>1. (q + 1) * d <= a * d BY <1>1, MultMonotonic
  <2> QED BY <2>1, <1>2, <1>4
<1>6. ~(a + 1 <= q)
  <2> SUFFICES ASSUME a + 1 <= q PROVE FALSE OBVIOUS
  <2>1. (a + 1) * d <= q * d BY <1>1, MultMonotonic
  <2> QED BY <2>1, <1>2, <1>4
<1>7. a = q BY <1>1, <1>5, <1>6
<1> QED BY <1>3, <1>7 DEF a

\* Two halves in one word come apart again.
LEMMA HalvesApart ==
  ASSUME NEW H \in Nat \ {0}, NEW p \in 0 .. H - 1, NEW q \in 0 .. H - 1
  PROVE  (p + H * q) % H = p /\ ((p + H * q) \div H) % H = q
<1> DEFINE x == p + H * q
<1>1. x \in Nat /\ q * H <= x /\ x < q * H + H /\ x - q * H = p /\ q \in Nat OBVIOUS
<1> HIDE DEF x
<1>2. x \div H = q /\ x % H = x - q * H BY ONLY <1>1, H \in Nat \ {0}, DivUnique
<1>3. q % H = q OBVIOUS
<1> QED BY <1>1, <1>2, <1>3 DEF x

\* A multiple leaves no remainder.
LEMMA ProductRemainder ==
  ASSUME NEW d \in Nat \ {0}, NEW n \in Nat
  PROVE  (d * n) % d = 0
<1>1. n * d \in Nat /\ n * d <= n * d /\ n * d < n * d + d /\ d * n = n * d OBVIOUS
<1>2. (n * d) % d = n * d - n * d BY ONLY <1>1, d \in Nat \ {0}, n \in Nat, DivUnique
<1> QED BY <1>1, <1>2

\* A section is empty exactly if it holds nothing.
LEMMA ScaledLength ==
  ASSUME NEW size \in Nat \ {0}, NEW n \in Nat
  PROVE  size * n \in Nat /\ (size * n = 0 => n = 0)
<1>1. size * n \in Nat OBVIOUS
<1>2. ASSUME n # 0 PROVE size * n # 0
  <2>1. 1 <= n /\ 1 \in Nat BY <1>2
  <2>2. 1 * size <= n * size BY <2>1, MultMonotonic
  <2>3. 1 * size = size /\ n * size = size * n OBVIOUS
  <2> QED BY <2>2, <2>3
<1> QED BY <1>1, <1>2

-----------------------------------------------------------------------------
(* Sums of the first numbers of a function, and the fold that computes one:  *)
(* MapThenFoldSet of the community modules takes the greatest element out of *)
(* a set until none is left.                                                 *)

IsSum(S, g, n) ==
  /\ S \in [0 .. n -> Nat]
  /\ S[0] = 0
  /\ \A k \in 1 .. n : S[k] = S[k - 1] + g[k]

\* There is but one such sum.
LEMMA SumUnique ==
  ASSUME NEW n \in Nat, NEW g, NEW S, NEW T, IsSum(S, g, n), IsSum(T, g, n)
  PROVE  S[n] = T[n]
<1> DEFINE E == {k \in Nat : k <= n => S[k] = T[k]}
<1>1. 0 \in E BY DEF IsSum
<1>2. ASSUME NEW k \in Nat, k \in E
      PROVE  k + 1 \in E
  <2>1. CASE k + 1 <= n
    <3>1. k + 1 \in 1 .. n /\ (k + 1) - 1 = k BY <2>1
    <3>2. S[k + 1] = S[k] + g[k + 1] /\ T[k + 1] = T[k] + g[k + 1] BY <3>1 DEF IsSum
    <3> QED BY <1>2, <2>1, <3>2
  <2>2. CASE ~(k + 1 <= n) BY <2>2
  <2> QED BY <2>1, <2>2
<1> HIDE DEF E
<1>3. Nat \subseteq E BY <1>1, <1>2, NatInduct
<1> QED BY <1>3 DEF E

\* A set of numbers up to m + 1 that holds m + 1 has it as its greatest.
LEMMA MaxOfUpTo ==
  ASSUME NEW m \in Nat, NEW s \in SUBSET (1 .. m), s # {}
  PROVE  Max(s) \in s /\ Max(s) \in 1 .. m /\ s \ {Max(s)} \in SUBSET (1 .. m - 1)
<1>1. s \in SUBSET Int /\ m \in Int /\ \A x \in s : x <= m OBVIOUS
<1>2. Max(s) \in s /\ \A x \in s : x <= Max(s) BY <1>1, IntMax
<1>3. Max(s) \in 1 .. m BY <1>2
<1>4. ASSUME NEW x \in s \ {Max(s)} PROVE x \in 1 .. m - 1
  <2>1. x \in 1 .. m /\ x <= Max(s) /\ x # Max(s) BY <1>2
  <2> QED BY <1>3, <2>1
<1> QED BY <1>2, <1>3, <1>4

\* The fold is defined: a function that takes the greatest element out exists.
LEMMA FoldExists ==
  ASSUME NEW n \in Nat, NEW g
  PROVE  \E F : F = [s \in SUBSET (1 .. n) |->
                       IF s = {} THEN 0 ELSE F[s \ {Max(s)}] + g[Max(s)]]
<1> DEFINE Fold(F, m) == F = [s \in SUBSET (1 .. m) |->
                                IF s = {} THEN 0 ELSE F[s \ {Max(s)}] + g[Max(s)]]
           E == {m \in Nat : \E F : Fold(F, m)}
<1>1. 0 \in E
  <2> DEFINE F == [s \in SUBSET (1 .. 0) |-> 0]
  <2>1. F = [s \in SUBSET (1 .. 0) |-> IF s = {} THEN 0 ELSE F[s \ {Max(s)}] + g[Max(s)]] OBVIOUS
  <2> QED BY <2>1
<1>2. ASSUME NEW m \in Nat, m \in E
      PROVE  m + 1 \in E
  <2>1. PICK F : Fold(F, m) BY <1>2
  <2> DEFINE G == [s \in SUBSET (1 .. m + 1) |->
                     IF s = {} THEN 0 ELSE F[s \ {Max(s)}] + g[Max(s)]]
  <2>2. ASSUME NEW s \in SUBSET (1 .. m + 1), s # {}
        PROVE  F[s \ {Max(s)}] = G[s \ {Max(s)}]
    <3>1. m + 1 \in Nat /\ (m + 1) - 1 = m OBVIOUS
    <3>2. s \ {Max(s)} \in SUBSET (1 .. m) BY <2>2, <3>1, MaxOfUpTo
    <3>3. \A t \in SUBSET (1 .. m) : t \in SUBSET (1 .. m + 1) OBVIOUS
    <3>4. \A t \in SUBSET (1 .. m) : G[t] = F[t] BY <2>1, <3>3
    <3> QED BY <3>2, <3>4
  <2>3. G = [s \in SUBSET (1 .. m + 1) |-> IF s = {} THEN 0 ELSE G[s \ {Max(s)}] + g[Max(s)]]
    <3>1. \A s \in SUBSET (1 .. m + 1) : (IF s = {} THEN 0 ELSE F[s \ {Max(s)}] + g[Max(s)])
        = (IF s = {} THEN 0 ELSE G[s \ {Max(s)}] + g[Max(s)])
      BY <2>2
    <3> QED BY <3>1
  <2>4. Fold(G, m + 1) BY <2>3
  <2> HIDE DEF G, Fold
  <2>5. m + 1 \in Nat OBVIOUS
  <2> QED BY <2>4, <2>5
<1> HIDE DEF E
<1>3. Nat \subseteq E BY <1>1, <1>2, NatInduct
<1> QED BY <1>3 DEF E

\* Over the numbers 1 to k it gives the sum of the first k.
LEMMA FoldIsSum ==
  ASSUME NEW n \in Nat, NEW g, \A k \in 1 .. n : g[k] \in Nat, NEW F,
         F = [s \in SUBSET (1 .. n) |-> IF s = {} THEN 0 ELSE F[s \ {Max(s)}] + g[Max(s)]]
  PROVE  IsSum([k \in 0 .. n |-> F[1 .. k]], g, n)
<1> DEFINE S == [k \in 0 .. n |-> F[1 .. k]]
<1>1. S[0] = 0
  <2>1. 1 .. 0 = {} OBVIOUS
  <2> QED BY <2>1
<1>2. ASSUME NEW k \in 1 .. n
      PROVE  S[k] = S[k - 1] + g[k]
  <2> DEFINE s == 1 .. k
  <2>1. s # {} /\ s \in SUBSET (1 .. n) /\ s \in SUBSET Int /\ k \in s /\ \A x \in s : x <= k OBVIOUS
  <2>2. Max(s) = k
    <3>1. Max(s) \in s /\ \A x \in s : x <= Max(s) BY <2>1, IntMax
    <3> QED BY <2>1, <3>1
  <2>3. s \ {k} = 1 .. k - 1 OBVIOUS
  <2> HIDE DEF s
  <2>4. F[s] = F[s \ {k}] + g[k] BY <2>1, <2>2
  <2>5. k - 1 \in 0 .. n /\ k \in 0 .. n OBVIOUS
  <2> QED BY <2>3, <2>4, <2>5 DEF s
<1> DEFINE E == {k \in Nat : k <= n => S[k] \in Nat}
<1> HIDE DEF S
<1>3. Nat \subseteq E
  <2>1. 0 \in E BY <1>1
  <2>2. ASSUME NEW k \in Nat, k \in E
        PROVE  k + 1 \in E
    <3>1. CASE k + 1 <= n
      <4>1. k + 1 \in 1 .. n /\ (k + 1) - 1 = k BY <3>1
      <4>2. S[k + 1] = S[k] + g[k + 1] /\ g[k + 1] \in Nat BY <1>2, <4>1
      <4> QED BY <2>2, <3>1, <4>2
    <3>2. CASE ~(k + 1 <= n) BY <3>2
    <3> QED BY <3>1, <3>2
  <2> HIDE DEF E
  <2> QED BY <2>1, <2>2, NatInduct
<1>4. \A k \in 0 .. n : S[k] \in Nat BY <1>3
<1>5. S \in [0 .. n -> Nat] BY <1>4 DEF S
<1>6. IsSum(S, g, n) BY <1>1, <1>2, <1>5 DEF IsSum
<1> QED BY <1>6 DEF S

\* The fold as it stands in MapThenFoldSet gives the sum of all n.
LEMMA FoldSums ==
  ASSUME NEW n \in Nat, NEW g, \A k \in 1 .. n : g[k] \in Nat, NEW F,
         F = CHOOSE f : f = [s \in SUBSET (1 .. n) |->
                               IF s = {} THEN 0 ELSE f[s \ {Max(s)}] + g[Max(s)]]
  PROVE  \E S : IsSum(S, g, n) /\ F[1 .. n] = S[n]
<1> DEFINE S == [k \in 0 .. n |-> F[1 .. k]]
<1>1. F = [s \in SUBSET (1 .. n) |->
    IF s = {} THEN 0 ELSE F[s \ {Max(s)}] + g[Max(s)]]
  BY FoldExists
<1>2. IsSum(S, g, n)
  <2>1. IsSum([k \in 0 .. n |-> F[1 .. k]], g, n)
    BY ONLY <1>1, FoldIsSum, n \in Nat, \A k \in 1 .. n : g[k] \in Nat
  <2> QED BY <2>1
<1>3. S[n] = F[1 .. n] OBVIOUS
<1> QED BY <1>2, <1>3

-----------------------------------------------------------------------------
(* Sequences given by their length and elements                              *)

HasLen(s, n) == n \in Nat /\ s = [i \in 1 .. n |-> s[i]]

\* Its length.
LEMMA SequenceLength ==
  ASSUME NEW s, NEW n, HasLen(s, n)
  PROVE  /\ Len(s) = n
         /\ DOMAIN s = 1 .. n
         /\ s \in Seq({s[i] : i \in 1 .. n})
<1> DEFINE S == {s[i] : i \in 1 .. n}
<1>1. s \in [1 .. n -> S] /\ n \in Nat BY DEF HasLen
<1> HIDE DEF S
<1>2. s \in Seq(S) BY <1>1, SeqDef
<1>3. DOMAIN s = 1 .. Len(s) /\ DOMAIN s = 1 .. n /\ Len(s) \in Nat BY <1>1, <1>2, LenProperties
<1>4. Len(s) = n BY <1>1, <1>3
<1> QED BY <1>2, <1>3, <1>4 DEF S

\* Two are equal when their lengths and elements are.
LEMMA SequenceSame ==
  ASSUME NEW s, NEW t, NEW n, HasLen(s, n), HasLen(t, n), \A i \in 1 .. n : s[i] = t[i]
  PROVE  s = t
BY DEF HasLen

\* One behind the other.
IsConcat(r, s, m, t, n) ==
  /\ HasLen(r, m + n)
  /\ \A i \in 1 .. m + n : r[i] = IF i <= m THEN s[i] ELSE t[i - m]

LEMMA SequenceConcat ==
  ASSUME NEW s, NEW m, NEW t, NEW n, HasLen(s, m), HasLen(t, n)
  PROVE  IsConcat(s \o t, s, m, t, n)
<1> DEFINE S == {s[i] : i \in 1 .. m} \cup {t[i] : i \in 1 .. n}
           r == s \o t
<1>1. s \in [1 .. m -> S] /\ t \in [1 .. n -> S] /\ m \in Nat /\ n \in Nat BY DEF HasLen
<1>2. Len(s) = m /\ Len(t) = n BY SequenceLength
<1> HIDE DEF S
<1>3. s \in Seq(S) /\ t \in Seq(S) BY <1>1, SeqDef
<1>4. /\ r \in Seq(S)
      /\ Len(r) = m + n
      /\ \A i \in 1 .. m + n : r[i] = IF i <= m THEN s[i] ELSE t[i - m]
  BY <1>2, <1>3, ConcatProperties
<1> HIDE DEF r
<1>5. HasLen(r, m + n) BY <1>1, <1>4, LenProperties DEF HasLen
<1>6. IsConcat(r, s, m, t, n) BY <1>4, <1>5 DEF IsConcat
<1> QED BY <1>6 DEF r

\* One element behind.
IsAppend(r, s, n, e) ==
  /\ HasLen(r, n + 1)
  /\ \A i \in 1 .. n + 1 : r[i] = IF i <= n THEN s[i] ELSE e

LEMMA SequenceAppend ==
  ASSUME NEW s, NEW n, HasLen(s, n), NEW e
  PROVE  IsAppend(Append(s, e), s, n, e)
<1> DEFINE S == {s[i] : i \in 1 .. n} \cup {e}
           r == Append(s, e)
<1>1. s \in [1 .. n -> S] /\ e \in S /\ n \in Nat BY DEF HasLen
<1>2. Len(s) = n BY SequenceLength
<1> HIDE DEF S
<1>3. s \in Seq(S) BY <1>1, SeqDef
<1>4. /\ r \in Seq(S)
      /\ Len(r) = n + 1
      /\ \A i \in 1 .. n : r[i] = s[i]
      /\ r[n + 1] = e
  BY <1>1, <1>2, <1>3, AppendProperties
<1> HIDE DEF r
<1>5. HasLen(r, n + 1) BY <1>1, <1>4, LenProperties DEF HasLen
<1>6. \A i \in 1 .. n + 1 : r[i] = IF i <= n THEN s[i] ELSE e BY <1>1, <1>4
<1>7. IsAppend(r, s, n, e) BY <1>5, <1>6 DEF IsAppend
<1> QED BY <1>7 DEF r

\* One element alone.
LEMMA SequenceSingle ==
  ASSUME NEW e
  PROVE  HasLen(<<e>>, 1) /\ <<e>>[1] = e
BY DEF HasLen

\* A fold of + is a sum, ...
LEMMA FoldedSum ==
  ASSUME NEW n \in Nat, NEW g, HasLen(g, n), \A k \in 1 .. n : g[k] \in Nat
  PROVE  \E S : IsSum(S, g, n) /\ FoldLeft(+, 0, g) = S[n]
<1> DEFINE iter == CHOOSE f : f = [s \in SUBSET (1 .. n) |->
                               IF s = {} THEN 0 ELSE f[s \ {Max(s)}] + g[Max(s)]]
<1>1. DOMAIN g = 1 .. n BY SequenceLength
<1>2. FoldLeft(+, 0, g) = iter[1 .. n] BY <1>1 DEF FoldLeft, MapThenFoldSet
<1> HIDE DEF iter
<1>3. PICK S : IsSum(S, g, n) /\ iter[1 .. n] = S[n] BY FoldSums DEF iter
<1> QED BY <1>2, <1>3

\* ... and every part of it is.
LEMMA FoldedSums ==
  ASSUME NEW n \in Nat, NEW g, HasLen(g, n), \A k \in 1 .. n : g[k] \in Nat
  PROVE  /\ FoldLeft(+, 0, [i \in 1 .. 0 |-> g[i]]) = 0
         /\ \A k \in 0 .. n : FoldLeft(+, 0, [i \in 1 .. k |-> g[i]]) \in Nat
         /\ \A k \in 1 .. n : FoldLeft(+, 0, [i \in 1 .. k |-> g[i]])
                                = FoldLeft(+, 0, [i \in 1 .. k - 1 |-> g[i]]) + g[k]
<1> DEFINE p(k) == [i \in 1 .. k |-> g[i]]
<1>1. PICK S : IsSum(S, g, n) /\ FoldLeft(+, 0, g) = S[n] BY FoldedSum
<1>2. /\ S \in [0 .. n -> Nat] /\ S[0] = 0
      /\ \A k \in 1 .. n : S[k] = S[k - 1] + g[k]
  BY <1>1 DEF IsSum
<1>3. ASSUME NEW k \in 0 .. n PROVE FoldLeft(+, 0, p(k)) = S[k] /\ S[k] \in Nat
  <2>1. k \in Nat /\ \A i \in 1 .. k : i \in 1 .. n /\ p(k)[i] = g[i] /\ g[i] \in Nat OBVIOUS
  <2>2. HasLen(p(k), k) BY <2>1 DEF HasLen
  <2> HIDE DEF p
  <2>3. PICK T : IsSum(T, p(k), k) /\ FoldLeft(+, 0, p(k)) = T[k] BY <2>1, <2>2, FoldedSum
  <2> DEFINE U == [i \in 0 .. k |-> S[i]]
  <2>4. \A i \in 1 .. k : i - 1 \in 0 .. k /\ i \in 0 .. k /\ i \in 1 .. n /\ i - 1 \in 0 .. n BY <2>1
  <2>5. \A i \in 0 .. k : i \in 0 .. n BY <2>1
  <2>6. IsSum(U, p(k), k) BY <1>2, <2>1, <2>4, <2>5 DEF IsSum
  <2>7. T[k] = U[k] BY <2>1, <2>3, <2>6, SumUnique
  <2>8. U[k] = S[k] BY <2>1
  <2> QED BY <1>2, <2>3, <2>7, <2>8
<1>4. FoldLeft(+, 0, p(0)) = 0
  <2>1. 0 \in 0 .. n OBVIOUS
  <2> HIDE DEF p
  <2> QED BY <1>2, <1>3, <2>1
<1>5. ASSUME NEW k \in 1 .. n
      PROVE  FoldLeft(+, 0, p(k)) = FoldLeft(+, 0, p(k - 1)) + g[k]
  <2>1. k \in 0 .. n /\ k - 1 \in 0 .. n OBVIOUS
  <2> HIDE DEF p
  <2> QED BY <1>2, <1>3, <2>1
<1> QED BY <1>3, <1>4, <1>5

-----------------------------------------------------------------------------
(* Concatenations of the pieces of a function, and the fold that computes    *)
(* one; the same for the bytes a reader collects sector by sector.           *)

\* The numbers from a on and below b, in order.
Interval(a, b) == [i \in 1 .. b - a |-> a + i - 1]

\* Adjacent intervals concatenate.
LEMMA IntervalConcat ==
  ASSUME NEW a \in Int, NEW b \in Int, NEW c \in Int, a <= b, b <= c
  PROVE  Interval(a, b) \o Interval(b, c) = Interval(a, c)
<1> DEFINE s == Interval(a, b)
           t == Interval(b, c)
           u == Interval(a, c)
           r == s \o t
<1>1. /\ b - a \in Nat /\ c - b \in Nat /\ c - a \in Nat /\ (b - a) + (c - b) = c - a OBVIOUS
<1>2. HasLen(s, b - a) /\ HasLen(t, c - b) /\ HasLen(u, c - a) BY <1>1 DEF Interval, HasLen
<1>3. /\ \A i \in 1 .. b - a : s[i] = a + i - 1
      /\ \A i \in 1 .. c - b : t[i] = b + i - 1
      /\ \A i \in 1 .. c - a : u[i] = a + i - 1
  BY DEF Interval
<1> HIDE DEF s, t, u
<1>4. IsConcat(r, s, b - a, t, c - b) BY <1>2, SequenceConcat
<1> HIDE DEF r
<1>5. /\ HasLen(r, c - a)
      /\ \A i \in 1 .. c - a : r[i] = IF i <= b - a THEN s[i] ELSE t[i - (b - a)]
  BY <1>1, <1>4 DEF IsConcat
<1>6. ASSUME NEW i \in 1 .. c - a
      PROVE  r[i] = u[i]
  <2>1. CASE i <= b - a BY <1>3, <1>5, <2>1
  <2>2. CASE ~(i <= b - a)
    <3>1. i - (b - a) \in 1 .. c - b BY <2>2
    <3>2. t[i - (b - a)] = b + (i - (b - a)) - 1 BY <1>3, <3>1
    <3> QED BY <1>3, <1>5, <2>2, <3>2
  <2> QED BY <2>1, <2>2
<1>7. r = u BY <1>2, <1>5, <1>6, SequenceSame
<1> QED BY <1>7 DEF r, s, t, u

\* The pieces of g are the intervals between the ends E.
ArePieces(g, E, n) ==
  /\ E \in [0 .. n -> Int]
  /\ \A k \in 1 .. n : E[k - 1] <= E[k] /\ g[k] = Interval(E[k - 1], E[k])

\* The fold.
IsConcatFold(F, g, n) ==
  F = [s \in SUBSET (1 .. n) |-> IF s = {} THEN <<>> ELSE F[s \ {Max(s)}] \o g[Max(s)]]

\* It is defined.
LEMMA ConcatFoldExists ==
  ASSUME NEW n \in Nat, NEW g
  PROVE  \E F : IsConcatFold(F, g, n)
<1> DEFINE Fold(F, m) == F = [s \in SUBSET (1 .. m) |->
                                IF s = {} THEN <<>> ELSE F[s \ {Max(s)}] \o g[Max(s)]]
           E == {m \in Nat : \E F : Fold(F, m)}
<1>1. 0 \in E
  <2> DEFINE F == [s \in SUBSET (1 .. 0) |-> <<>>]
  <2>1. \A s \in SUBSET (1 .. 0) : s = {} OBVIOUS
  <2>2. \A s \in SUBSET (1 .. 0) :
      <<>> = IF s = {} THEN <<>> ELSE F[s \ {Max(s)}] \o g[Max(s)]
    BY <2>1
  <2>3. F = [s \in SUBSET (1 .. 0) |-> IF s = {} THEN <<>> ELSE F[s \ {Max(s)}] \o g[Max(s)]] BY <2>2
  <2> HIDE DEF F
  <2> QED BY <2>3
<1>2. ASSUME NEW m \in Nat, m \in E
      PROVE  m + 1 \in E
  <2>1. PICK F : Fold(F, m) BY <1>2
  <2> DEFINE G == [s \in SUBSET (1 .. m + 1) |->
                     IF s = {} THEN <<>> ELSE F[s \ {Max(s)}] \o g[Max(s)]]
  <2>2. ASSUME NEW s \in SUBSET (1 .. m + 1), s # {}
        PROVE  F[s \ {Max(s)}] = G[s \ {Max(s)}]
    <3>1. m + 1 \in Nat /\ (m + 1) - 1 = m OBVIOUS
    <3>2. s \ {Max(s)} \in SUBSET (1 .. m) BY <2>2, <3>1, MaxOfUpTo
    <3>3. \A t \in SUBSET (1 .. m) : t \in SUBSET (1 .. m + 1) OBVIOUS
    <3>4. \A t \in SUBSET (1 .. m) : G[t] = F[t] BY <2>1, <3>3
    <3> QED BY <3>2, <3>4
  <2>3. G = [s \in SUBSET (1 .. m + 1) |->
      IF s = {} THEN <<>> ELSE G[s \ {Max(s)}] \o g[Max(s)]]
    <3>1. \A s \in SUBSET (1 .. m + 1) :
        (IF s = {} THEN <<>> ELSE F[s \ {Max(s)}] \o g[Max(s)])
        = (IF s = {} THEN <<>> ELSE G[s \ {Max(s)}] \o g[Max(s)])
      BY <2>2
    <3> QED BY <3>1
  <2>4. Fold(G, m + 1) BY <2>3
  <2> HIDE DEF G, Fold
  <2>5. m + 1 \in Nat OBVIOUS
  <2> QED BY <2>4, <2>5
<1> HIDE DEF E
<1>3. Nat \subseteq E BY <1>1, <1>2, NatInduct
<1> QED BY <1>3 DEF E, IsConcatFold

\* The fold puts the pieces together.
LEMMA FoldConcats ==
  ASSUME NEW n \in Nat, NEW g, NEW E, ArePieces(g, E, n), NEW F, IsConcatFold(F, g, n)
  PROVE  F[1 .. n] = Interval(E[0], E[n]) /\ E[0] <= E[n]
<1>1. F = [s \in SUBSET (1 .. n) |->
    IF s = {} THEN <<>> ELSE F[s \ {Max(s)}] \o g[Max(s)]]
  BY DEF IsConcatFold
<1>2. /\ E \in [0 .. n -> Int]
      /\ \A k \in 1 .. n : E[k - 1] <= E[k] /\ g[k] = Interval(E[k - 1], E[k])
  BY DEF ArePieces
<1> DEFINE I == {k \in Nat : k <= n => F[1 .. k] = Interval(E[0], E[k]) /\ E[0] <= E[k]}
<1>3. 0 \in I
  <2>1. F[{}] = <<>> BY <1>1
  <2>2. 1 .. 0 = {} OBVIOUS
  <2>3. Interval(E[0], E[0]) = <<>> /\ E[0] <= E[0]
    <3>1. E[0] \in Int BY <1>2
    <3>2. E[0] - E[0] = 0 BY <3>1
    <3> QED BY <2>2, <3>1, <3>2 DEF Interval
  <2> QED BY <2>1, <2>2, <2>3
<1>4. ASSUME NEW j \in Nat, j \in I
      PROVE  j + 1 \in I
  <2> SUFFICES ASSUME j + 1 <= n
      PROVE  F[1 .. j + 1] = Interval(E[0], E[j + 1]) /\ E[0] <= E[j + 1]
    OBVIOUS
  <2> DEFINE k == j + 1
             s == 1 .. k
  <2>1. /\ k \in 1 .. n /\ k - 1 = j /\ j <= n
        /\ s # {} /\ s \in SUBSET (1 .. n) /\ s \in SUBSET Int /\ k \in s /\ \A x \in s : x <= k
    <3>1. k \in Nat /\ k >= 1 /\ k <= n /\ k - 1 = j OBVIOUS
    <3> HIDE DEF k
    <3>2. k \in s /\ \A x \in s : x \in Int /\ x >= 1 /\ x <= k BY <3>1
    <3>3. \A x \in s : x \in 1 .. n BY <3>1, <3>2
    <3> HIDE DEF s
    <3> QED BY <3>1, <3>2, <3>3
  <2>2. Max(s) = k
    <3>1. Max(s) \in s /\ \A x \in s : x <= Max(s) BY <2>1, IntMax
    <3> QED BY <2>1, <3>1
  <2>3. s \ {k} = 1 .. j OBVIOUS
  <2> HIDE DEF s, k
  <2>4. F[s] = F[s \ {k}] \o g[k] BY <1>1, <2>1, <2>2
  <2>5. /\ F[1 .. j] = Interval(E[0], E[j]) /\ E[0] <= E[j]
        /\ E[j] <= E[k] /\ g[k] = Interval(E[j], E[k])
        /\ E[0] \in Int /\ E[j] \in Int /\ E[k] \in Int
    <3>1. 0 \in 0 .. n /\ j \in 0 .. n /\ k \in 0 .. n BY <2>1
    <3> QED BY <1>2, <1>4, <2>1, <3>1
  <2>6. F[s] = Interval(E[0], E[k])
    <3> DEFINE a == E[0]
               b == E[j]
               c == E[k]
    <3>1. F[s] = Interval(a, b) \o Interval(b, c) BY <2>3, <2>4, <2>5
    <3>2. a \in Int /\ b \in Int /\ c \in Int /\ a <= b /\ b <= c BY <2>5
    <3> HIDE DEF a, b, c
    <3>3. F[s] = Interval(a, c) BY <3>1, <3>2, IntervalConcat
    <3> QED BY <3>3 DEF a, c
  <2>7. E[0] <= E[k] BY <2>5
  <2> QED BY <2>6, <2>7 DEF s, k
<1> HIDE DEF I
<1>5. Nat \subseteq I BY <1>3, <1>4, NatInduct
<1>6. n <= n OBVIOUS
<1> QED BY <1>5, <1>6 DEF I

\* A read of [offset, offset + len), sector by sector of the given size: the
\* part of it that lies in the sector at place s begins and ends here.
CopyStart(s, size, offset) == IF offset >= s * size THEN offset ELSE s * size
CopyEnd(s, size, offset, len) ==
  IF offset + len <= s * size + size THEN offset + len ELSE s * size + size

\* It touches n sectors, of which the first is the one it begins in.
CoversRange(first, n, size, offset, len) ==
  /\ first = offset \div size
  /\ n = ((offset + len - 1) \div size) - first + 1

\* Piece k of such a read is what it wants of its sector number k.
AreCopied(g, first, n, size, offset, len) ==
  \A k \in 1 .. n : g[k] = Interval(CopyStart(first + k - 1, size, offset),
                    CopyEnd(first + k - 1, size, offset, len))

\* The sectors a read touches.
LEMMA ReadSectors ==
  ASSUME NEW size \in Nat \ {0}, NEW offset \in Nat, NEW len \in Nat \ {0},
         NEW first, first = offset \div size, NEW last, last = (offset + len - 1) \div size
  PROVE  /\ first \in Nat /\ last \in Nat /\ first <= last
         /\ first * size \in Nat /\ first * size <= offset /\ offset < first * size + size
         /\ last * size \in Nat /\ last * size < offset + len
         /\ offset + len <= last * size + size
<1>1. offset + len - 1 \in Nat /\ offset <= offset + len - 1 OBVIOUS
<1>2. first \in Nat /\ last \in Nat BY <1>1, DivMod
<1>3. first <= last BY <1>1, DivMonotonic
<1>4. first * size <= offset /\ offset < first * size + size BY DivBounds
<1>5. last * size <= offset + len - 1 /\ offset + len - 1 < last * size + size BY <1>1, DivBounds
<1>6. first * size \in Nat /\ last * size \in Nat BY <1>2
<1> QED BY <1>2, <1>3, <1>4, <1>5, <1>6

\* The pieces of a read are the bytes asked for.
LEMMA ReadConcats ==
  ASSUME NEW size \in Nat \ {0}, NEW offset \in Nat, NEW len \in Nat \ {0},
         NEW first, NEW n, CoversRange(first, n, size, offset, len),
         NEW g, AreCopied(g, first, n, size, offset, len), NEW F, IsConcatFold(F, g, n)
  PROVE  F[1 .. n] = Interval(offset, offset + len)
<1> DEFINE last == (offset + len - 1) \div size
           end == offset + len
           E == [k \in 0 .. n |-> IF k = 0 THEN offset
                                  ELSE CopyEnd(first + k - 1, size, offset, len)]
<1>1. /\ first \in Nat /\ last \in Nat /\ first <= last
      /\ first * size \in Nat /\ first * size <= offset /\ offset < first * size + size
      /\ last * size \in Nat /\ last * size < end
      /\ end <= last * size + size
      /\ n = last - first + 1
  BY ReadSectors DEF CoversRange
<1>2. n \in Nat \ {0} /\ first + n - 1 = last /\ end \in Nat BY <1>1
<1>3. ASSUME NEW k \in 0 .. n
      PROVE  E[k] = IF k = 0 THEN offset ELSE CopyEnd(first + k - 1, size, offset, len)
  OBVIOUS
<1>4. E \in [0 .. n -> Int]
  <2>1. ASSUME NEW k \in 0 .. n
        PROVE  (IF k = 0 THEN offset ELSE CopyEnd(first + k - 1, size, offset, len)) \in Int
    <3> DEFINE p == (first + k - 1) * size
    <3>1. p \in Int BY <1>1, <1>2
    <3>2. CopyEnd(first + k - 1, size, offset, len) = IF end <= p + size THEN end ELSE p + size
      BY DEF CopyEnd
    <3> HIDE DEF p
    <3> QED BY <1>2, <3>1, <3>2
  <2> QED BY <2>1
<1> HIDE DEF E
<1>5. ASSUME NEW k \in 1 .. n
      PROVE  E[k - 1] <= E[k] /\ g[k] = Interval(E[k - 1], E[k])
  <2> DEFINE p == (first + k - 1) * size
  <2>1. k \in 0 .. n /\ k # 0 /\ k - 1 \in 0 .. n /\ first + k - 1 \in Nat /\ first <= first + k - 1
        /\ first + k - 1 <= last
    BY <1>1, <1>2
  <2>2. p \in Nat /\ first * size <= p /\ p <= last * size
    <3> DEFINE at == first + k - 1
    <3>1. at \in Nat /\ first <= at /\ at <= last BY <2>1
    <3> HIDE DEF at
    <3>2. at * size \in Nat /\ first * size <= at * size /\ at * size <= last * size
      BY <1>1, <3>1, MultMonotonic
    <3> QED BY <3>2 DEF at
  <2>3. CopyStart(first + k - 1, size, offset) = IF offset >= p THEN offset ELSE p BY DEF CopyStart
  <2>4. E[k] = IF end <= p + size THEN end ELSE p + size BY <1>3, <2>1 DEF CopyEnd
  <2>5. g[k] = Interval(CopyStart(first + k - 1, size, offset), E[k]) BY <1>3, <2>1 DEF AreCopied
  <2>6. k # 1 => E[k - 1] = IF end <= p THEN end ELSE p
    <3> SUFFICES ASSUME k # 1 PROVE E[k - 1] = IF end <= p THEN end ELSE p OBVIOUS
    <3> DEFINE r == (first + (k - 1) - 1) * size
    <3>1. r + size = p
      <4> DEFINE m == first + k - 1
      <4>1. first + (k - 1) - 1 = m - 1 /\ m \in Int BY <1>1, <2>1
      <4> HIDE DEF m
      <4>2. (m - 1) * size + size = m * size BY <4>1
      <4> QED BY <4>1, <4>2 DEF m
    <3>2. E[k - 1] = IF end <= r + size THEN end ELSE r + size BY <1>3, <2>1 DEF CopyEnd
    <3> QED BY <3>1, <3>2
  <2>7. k = 1 => E[k - 1] = offset /\ p = first * size BY <1>1, <1>3, <2>1
  <2>8. k # 1 => first * size + size <= p
    <3> SUFFICES ASSUME k # 1 PROVE first * size + size <= p OBVIOUS
    <3>1. first + 1 <= first + k - 1 /\ first + 1 \in Nat BY <1>1, <2>1
    <3>2. (first + 1) * size <= p BY <2>1, <3>1, MultMonotonic
    <3>3. (first + 1) * size = first * size + size BY <1>1
    <3> QED BY <3>2, <3>3
  <2> HIDE DEF p
  <2>9. CopyStart(first + k - 1, size, offset) = E[k - 1] BY <1>1, <1>2, <2>2, <2>3, <2>6, <2>7, <2>8
  <2>10. E[k - 1] <= E[k] BY <1>1, <1>2, <2>2, <2>4, <2>6, <2>7, <2>8
  <2> QED BY <2>5, <2>9, <2>10
<1>6. ArePieces(g, E, n) BY <1>4, <1>5 DEF ArePieces
<1>7. F[1 .. n] = Interval(E[0], E[n])
  <2>1. n \in Nat BY <1>2
  <2> QED BY ONLY IsConcatFold(F, g, n), <1>6, <2>1, FoldConcats
<1>8. E[0] = offset BY <1>2, <1>3
<1>9. E[n] = end
  <2>1. n \in 0 .. n /\ n # 0 BY <1>2
  <2>2. E[n] = CopyEnd(last, size, offset, len) BY <1>2, <1>3, <2>1
  <2> QED BY <1>1, <2>2 DEF CopyEnd
<1> QED BY <1>7, <1>8, <1>9 DEF end

-----------------------------------------------------------------------------
(* Folds in general: the states met on the way through a sequence.           *)

\* A fold whose steps are functions on a set.
IsStepFold(F, base, H, n) ==
  F = [s \in SUBSET (1 .. n) |-> IF s = {} THEN base ELSE H[Max(s)][F[s \ {Max(s)}]]]

\* It is defined, and stays in the set.
LEMMA StepFoldExists ==
  ASSUME NEW n \in Nat, NEW S, NEW base \in S, NEW H \in [1 .. n -> [S -> S]]
  PROVE  \E F \in [SUBSET (1 .. n) -> S] : IsStepFold(F, base, H, n)
<1> DEFINE Fold(F, m) == F = [s \in SUBSET (1 .. m) |->
                                IF s = {} THEN base ELSE H[Max(s)][F[s \ {Max(s)}]]]
           Defined(m) == m <= n => \E F \in [SUBSET (1 .. m) -> S] : Fold(F, m)
           D == {m \in Nat : Defined(m)}
<1>1. 0 \in D
  <2> DEFINE F == [s \in SUBSET (1 .. 0) |-> base]
  <2>1. \A s \in SUBSET (1 .. 0) : s = {} OBVIOUS
  <2>2. \A s \in SUBSET (1 .. 0) : base = IF s = {} THEN base ELSE H[Max(s)][F[s \ {Max(s)}]] BY <2>1
  <2>3. F = [s \in SUBSET (1 .. 0) |-> IF s = {} THEN base ELSE H[Max(s)][F[s \ {Max(s)}]]] BY <2>2
  <2>4. F \in [SUBSET (1 .. 0) -> S] OBVIOUS
  <2> HIDE DEF F
  <2> QED BY <2>3, <2>4
<1>2. ASSUME NEW m \in Nat, m \in D
      PROVE  m + 1 \in D
  <2> HIDE DEF Defined
  <2> SUFFICES Defined(m + 1) OBVIOUS
  <2> USE DEF Defined
  <2> SUFFICES ASSUME m + 1 <= n
      PROVE  \E F \in [SUBSET (1 .. m + 1) -> S] : Fold(F, m + 1)
    OBVIOUS
  <2>0. m <= n OBVIOUS
  <2>1. PICK F \in [SUBSET (1 .. m) -> S] : Fold(F, m) BY <1>2, <2>0
  <2> DEFINE G == [s \in SUBSET (1 .. m + 1) |->
                     IF s = {} THEN base ELSE H[Max(s)][F[s \ {Max(s)}]]]
  <2>2. ASSUME NEW s \in SUBSET (1 .. m + 1), s # {}
        PROVE  /\ s \ {Max(s)} \in SUBSET (1 .. m)
               /\ Max(s) \in 1 .. n
               /\ F[s \ {Max(s)}] = G[s \ {Max(s)}]
    <3>1. m + 1 \in Nat /\ (m + 1) - 1 = m OBVIOUS
    <3>2. s \ {Max(s)} \in SUBSET (1 .. m) /\ Max(s) \in 1 .. m + 1 BY <2>2, <3>1, MaxOfUpTo
    <3>3. \A t \in SUBSET (1 .. m) : t \in SUBSET (1 .. m + 1) OBVIOUS
    <3>4. \A t \in SUBSET (1 .. m) : G[t] = F[t] BY <2>1, <3>3
    <3>5. Max(s) \in 1 .. n BY <3>2
    <3> QED BY <3>2, <3>4, <3>5
  <2>3. G = [s \in SUBSET (1 .. m + 1) |->
      IF s = {} THEN base ELSE H[Max(s)][G[s \ {Max(s)}]]]
    <3>1. \A s \in SUBSET (1 .. m + 1) : (IF s = {} THEN base ELSE H[Max(s)][F[s \ {Max(s)}]])
        = (IF s = {} THEN base ELSE H[Max(s)][G[s \ {Max(s)}]])
      BY <2>2
    <3> QED BY <3>1
  <2>4. G \in [SUBSET (1 .. m + 1) -> S]
    <3>1. \A s \in SUBSET (1 .. m + 1) :
        s # {} => H[Max(s)] \in [S -> S] /\ F[s \ {Max(s)}] \in S
      BY <2>2
    <3>2. \A s \in SUBSET (1 .. m + 1) :
        (IF s = {} THEN base ELSE H[Max(s)][F[s \ {Max(s)}]]) \in S
      BY <3>1
    <3> QED BY <3>2
  <2>5. Fold(G, m + 1) BY <2>3
  <2> HIDE DEF G, Fold
  <2> QED BY <2>4, <2>5
<1> HIDE DEF D
<1>3. Nat \subseteq D BY <1>1, <1>2, NatInduct
<1>4. n <= n OBVIOUS
<1> QED BY <1>3, <1>4 DEF D, IsStepFold

\* The states met on the way.
IsFoldRun(run, base, H, n, S) ==
  /\ run \in [0 .. n -> S]
  /\ run[0] = base
  /\ \A k \in 1 .. n : run[k] = H[k][run[k - 1]]

\* What the iteration of MapThenFoldSet does with a state of the set.
Iterates(iter, base, H, n, S) ==
  /\ iter[{}] = base
  /\ \A s \in SUBSET (1 .. n) :
       s # {} /\ iter[s \ {Max(s)}] \in S => iter[s] = H[Max(s)][iter[s \ {Max(s)}]]

\* The iteration goes through such states.
LEMMA FoldRuns ==
  ASSUME NEW n \in Nat, NEW S, NEW base \in S, NEW H \in [1 .. n -> [S -> S]],
         NEW iter, Iterates(iter, base, H, n, S)
  PROVE  \E run : IsFoldRun(run, base, H, n, S) /\ iter[1 .. n] = run[n]
<1> DEFINE run == [k \in 0 .. n |-> iter[1 .. k]]
<1>1. iter[1 .. 0] = base
  <2>1. 1 .. 0 = {} OBVIOUS
  <2> QED BY <2>1 DEF Iterates
<1>2. ASSUME NEW k \in 1 .. n, iter[1 .. k - 1] \in S
      PROVE  iter[1 .. k] = H[k][iter[1 .. k - 1]]
  <2>1. 1 .. k # {} /\ 1 .. k \in SUBSET (1 .. n)
    <3>1. k \in Nat /\ 1 <= k /\ k <= n OBVIOUS
    <3>2. k \in 1 .. k /\ \A x \in 1 .. k : x \in 1 .. n BY <3>1
    <3> QED BY <3>2
  <2>2. Max(1 .. k) = k
    <3>1. k \in Nat /\ 1 .. k \in SUBSET Int /\ k \in 1 .. k /\ \A x \in 1 .. k : x <= k OBVIOUS
    <3>2. Max(1 .. k) \in 1 .. k /\ \A x \in 1 .. k : x <= Max(1 .. k) BY <2>1, <3>1, IntMax
    <3> QED BY <3>1, <3>2
  <2>3. (1 .. k) \ {k} = 1 .. k - 1 OBVIOUS
  <2> QED BY <1>2, <2>1, <2>2, <2>3 DEF Iterates
<1> DEFINE D == {k \in Nat : k <= n => iter[1 .. k] \in S}
<1>3. 0 \in D BY <1>1
<1>4. ASSUME NEW k \in Nat, k \in D PROVE k + 1 \in D
  <2> SUFFICES ASSUME k + 1 <= n PROVE iter[1 .. k + 1] \in S OBVIOUS
  <2>1. k + 1 \in 1 .. n /\ (k + 1) - 1 = k /\ k <= n OBVIOUS
  <2>2. iter[1 .. k] \in S BY <1>4, <2>1
  <2>3. iter[1 .. k + 1] = H[k + 1][iter[1 .. k]] BY <1>2, <2>1, <2>2
  <2>4. H[k + 1] \in [S -> S] BY <2>1
  <2> QED BY <2>2, <2>3, <2>4
<1> HIDE DEF D
<1>5. Nat \subseteq D BY <1>3, <1>4, NatInduct
<1>6. \A k \in 0 .. n : iter[1 .. k] \in S BY <1>5 DEF D
<1>7. \A k \in 1 .. n : k \in 0 .. n /\ k - 1 \in 0 .. n OBVIOUS
<1>8. \A k \in 1 .. n : run[k] = H[k][run[k - 1]] BY <1>2, <1>6, <1>7
<1>9. run \in [0 .. n -> S] /\ run[0] = base /\ run[n] = iter[1 .. n] BY <1>1, <1>6
<1>10. IsFoldRun(run, base, H, n, S) BY <1>8, <1>9 DEF IsFoldRun
<1> QED BY <1>9, <1>10

\* Pieces behind each other.
IsConcatRun(run, g, n) ==
  /\ run[0] = <<>>
  /\ \A k \in 1 .. n : run[k] = run[k - 1] \o g[k]

LEMMA ConcatRun ==
  ASSUME NEW n \in Nat, NEW g, HasLen(g, n)
  PROVE  \E run : IsConcatRun(run, g, n) /\ FoldLeft(\o, <<>>, g) = run[n]
<1> DEFINE iter == CHOOSE f : f = [s \in SUBSET (1 .. n) |->
                     IF s = {} THEN <<>> ELSE f[s \ {Max(s)}] \o g[Max(s)]]
           run == [k \in 0 .. n |-> iter[1 .. k]]
<1>1. DOMAIN g = 1 .. n BY SequenceLength
<1>2. FoldLeft(\o, <<>>, g) = iter[1 .. n] BY <1>1 DEF FoldLeft, MapThenFoldSet
<1>3. iter = [s \in SUBSET (1 .. n) |->
    IF s = {} THEN <<>> ELSE iter[s \ {Max(s)}] \o g[Max(s)]]
  BY ConcatFoldExists DEF IsConcatFold
<1> HIDE DEF iter
<1>4. iter[1 .. 0] = <<>>
  <2>1. 1 .. 0 = {} /\ {} \in SUBSET (1 .. n) OBVIOUS
  <2> QED BY <1>3, <2>1
<1>5. ASSUME NEW k \in 1 .. n
      PROVE  iter[1 .. k] = iter[1 .. k - 1] \o g[k]
  <2>1. 1 .. k # {} /\ 1 .. k \in SUBSET (1 .. n) OBVIOUS
  <2>2. Max(1 .. k) = k
    <3>1. k \in Nat /\ 1 .. k \in SUBSET Int /\ k \in 1 .. k /\ \A x \in 1 .. k : x <= k OBVIOUS
    <3>2. Max(1 .. k) \in 1 .. k /\ \A x \in 1 .. k : x <= Max(1 .. k) BY <2>1, <3>1, IntMax
    <3> QED BY <3>1, <3>2
  <2>3. (1 .. k) \ {k} = 1 .. k - 1 OBVIOUS
  <2> QED BY <1>3, <2>1, <2>2, <2>3
<1>6. /\ \A k \in 1 .. n : k \in 0 .. n /\ k - 1 \in 0 .. n
      /\ 0 \in 0 .. n /\ n \in 0 .. n
  OBVIOUS
<1>7. IsConcatRun(run, g, n) BY <1>4, <1>5, <1>6 DEF IsConcatRun
<1>8. run[n] = iter[1 .. n] BY <1>6
<1> QED BY <1>2, <1>7, <1>8

\* Its elements are those of the pieces.
LEMMA ConcatRunTyped ==
  ASSUME NEW n \in Nat, NEW g, NEW run, IsConcatRun(run, g, n), NEW V,
         \A k \in 1 .. n : g[k] \in Seq(V)
  PROVE  \A k \in 0 .. n : run[k] \in Seq(V)
<1> DEFINE D == {k \in Nat : k <= n => run[k] \in Seq(V)}
<1>0. <<>> \in Seq(V) OBVIOUS
<1>1. 0 \in D BY <1>0 DEF IsConcatRun
<1>2. ASSUME NEW k \in Nat, k \in D PROVE k + 1 \in D
  <2> SUFFICES ASSUME k + 1 <= n PROVE run[k + 1] \in Seq(V) OBVIOUS
  <2>1. k + 1 \in 1 .. n /\ (k + 1) - 1 = k /\ k <= n OBVIOUS
  <2>2. run[k + 1] = run[k] \o g[k + 1] BY <2>1 DEF IsConcatRun
  <2> QED BY <1>2, <2>1, <2>2, ConcatProperties
<1> HIDE DEF D
<1>3. Nat \subseteq D BY <1>1, <1>2, NatInduct
<1> QED BY <1>3 DEF D

-----------------------------------------------------------------------------
(* Sequences taken apart                                                     *)

\* Every sequence of a set is one in the sense above.
LEMMA SeqIsSequence ==
  ASSUME NEW V, NEW s \in Seq(V)
  PROVE  HasLen(s, Len(s)) /\ DOMAIN s = 1 .. Len(s) /\ \A i \in 1 .. Len(s) : s[i] \in V
<1>1. Len(s) \in Nat /\ DOMAIN s = 1 .. Len(s) /\ s \in [1 .. Len(s) -> V] BY LenProperties
<1> QED BY <1>1 DEF HasLen

\* And the other way round.
LEMMA SequenceIsSeq ==
  ASSUME NEW V, NEW s, NEW n, HasLen(s, n), \A i \in 1 .. n : s[i] \in V
  PROVE  s \in Seq(V)
<1>1. s \in [1 .. n -> V] /\ n \in Nat BY DEF HasLen
<1> QED BY <1>1, SeqDef

\* A part of one.
IsSlice(r, s, a, b) ==
  /\ HasLen(r, b - a + 1)
  /\ \A i \in 1 .. b - a + 1 : r[i] = s[a + i - 1]

LEMMA SubSeqIsSlice ==
  ASSUME NEW s, NEW n, HasLen(s, n), NEW a \in 1 .. n + 1, NEW b \in a - 1 .. n
  PROVE  IsSlice(SubSeq(s, a, b), s, a, b)
<1> DEFINE S == {s[i] : i \in 1 .. n}
           r == SubSeq(s, a, b)
<1>1. n \in Nat BY DEF HasLen
<1>2. a \in Int /\ b \in Int /\ a >= 1 /\ b <= n /\ b - a + 1 \in Nat BY <1>1
<1>3. \A i \in a .. b : i \in 1 .. n BY <1>1, <1>2
<1>4. \A i \in a .. b : s[i] \in S BY <1>3
<1> HIDE DEF S
<1>5. /\ r \in Seq(S)
      /\ Len(r) = IF a <= b THEN b - a + 1 ELSE 0
      /\ \A i \in 1 .. b - a + 1 : r[i] = s[a + i - 1]
  BY <1>2, <1>4, SubSeqProperties
<1> HIDE DEF r
<1>6. Len(r) = b - a + 1 BY <1>2, <1>5
<1>7. HasLen(r, b - a + 1) BY <1>5, <1>6, SeqIsSequence
<1>8. IsSlice(r, s, a, b) BY <1>5, <1>7 DEF IsSlice
<1> QED BY <1>8 DEF r

\* What is left of one to which an element was appended.
LEMMA AppendedPath ==
  ASSUME NEW V, NEW p \in Seq(V), NEW e \in V
  PROVE  /\ Append(p, e) \in Seq(V) \ {<<>>}
         /\ Front(Append(p, e)) = p
         /\ Last(Append(p, e)) = e
<1> DEFINE r == Append(p, e)
           n == Len(p)
<1>1. /\ r \in Seq(V) /\ r # <<>> /\ Len(r) = n + 1
      /\ \A i \in 1 .. n : r[i] = p[i]
      /\ r[n + 1] = e
  BY AppendProperties
<1>2. HasLen(p, n) /\ n \in Nat BY SeqIsSequence DEF HasLen
<1> HIDE DEF r, n
<1>3. Last(r) = e /\ Front(r) = SubSeq(r, 1, n) BY <1>1, <1>2 DEF Last, Front
<1>4. HasLen(r, n + 1) BY <1>1, SeqIsSequence
<1>5. 1 \in 1 .. (n + 1) + 1 /\ n \in 1 - 1 .. n + 1 /\ n - 1 + 1 = n BY <1>2
<1>6. IsSlice(SubSeq(r, 1, n), r, 1, n) BY ONLY <1>4, <1>5, SubSeqIsSlice
<1>7. HasLen(SubSeq(r, 1, n), n) /\ \A i \in 1 .. n : SubSeq(r, 1, n)[i] = r[1 + i - 1]
  BY <1>5, <1>6 DEF IsSlice
<1>8. \A i \in 1 .. n : SubSeq(r, 1, n)[i] = p[i] BY <1>1, <1>2, <1>7
<1>9. SubSeq(r, 1, n) = p BY ONLY <1>2, <1>7, <1>8, SequenceSame
<1> QED BY <1>1, <1>3, <1>9 DEF r

LEMMA AppendedSame ==
  ASSUME NEW V, NEW p \in Seq(V), NEW a \in V, NEW q \in Seq(V), NEW b \in V,
         Append(p, a) = Append(q, b)
  PROVE  p = q /\ a = b
<1>1. Front(Append(p, a)) = p /\ Last(Append(p, a)) = a BY ONLY p \in Seq(V), a \in V, AppendedPath
<1>2. Front(Append(q, b)) = q /\ Last(Append(q, b)) = b BY ONLY q \in Seq(V), b \in V, AppendedPath
<1> QED BY <1>1, <1>2

\* One element more.
LEMMA AppendRange ==
  ASSUME NEW V, NEW s \in Seq(V), NEW e \in V
  PROVE  Range(Append(s, e)) = Range(s) \cup {e}
<1> DEFINE r == Append(s, e)
           n == Len(s)
<1>1. /\ r \in Seq(V) /\ Len(r) = n + 1
      /\ \A i \in 1 .. n : r[i] = s[i]
      /\ r[n + 1] = e
  BY AppendProperties
<1>2. DOMAIN s = 1 .. n /\ n \in Nat BY LenProperties
<1> HIDE DEF r, n
<1>3. DOMAIN r = 1 .. n + 1 BY <1>1, LenProperties
<1>4. Range(r) = {r[i] : i \in 1 .. n + 1} /\ Range(s) = {s[i] : i \in 1 .. n} BY <1>2, <1>3 DEF Range
<1>5. /\ \A i \in 1 .. n : i \in 1 .. n + 1
      /\ n + 1 \in 1 .. n + 1
      /\ \A i \in 1 .. n + 1 : i \in 1 .. n \/ i = n + 1
  BY <1>2
<1> QED BY <1>1, <1>4, <1>5 DEF r

\* The last element of one, and the rest.
LEMMA PoppedStack ==
  ASSUME NEW V, NEW s \in Seq(V), s # <<>>
  PROVE  /\ Last(s) \in V /\ Front(s) \in Seq(V)
         /\ Range(s) = Range(Front(s)) \cup {Last(s)}
         /\ DOMAIN Front(s) = 1 .. Len(s) - 1 /\ DOMAIN s = 1 .. Len(s) /\ Len(s) \in Nat \ {0}
         /\ \A i \in 1 .. Len(s) - 1 : Front(s)[i] = s[i]
         /\ Last(s) = s[Len(s)]
<1> DEFINE n == Len(s)
           f == SubSeq(s, 1, n - 1)
<1>1. n \in Nat /\ n # 0 /\ HasLen(s, n) /\ DOMAIN s = 1 .. n /\ \A i \in 1 .. n : s[i] \in V
  BY EmptySeq, SeqIsSequence DEF HasLen
<1>2. Last(s) = s[n] /\ Front(s) = f BY DEF Last, Front
<1>b. n = Len(s) OBVIOUS
<1> HIDE DEF n
<1>3. /\ n \in 1 .. n /\ n - 1 \in 1 - 1 .. n /\ 1 \in 1 .. n + 1 /\ (n - 1) - 1 + 1 = n - 1
      /\ \A i \in 1 .. n - 1 : i \in 1 .. n /\ 1 + i - 1 = i
      /\ \A i \in 1 .. n : i \in 1 .. n - 1 \/ i = n
  BY <1>1
<1>4. IsSlice(f, s, 1, n - 1) BY ONLY <1>1, <1>3, SubSeqIsSlice
<1> HIDE DEF f
<1>5. HasLen(f, n - 1) /\ \A i \in 1 .. n - 1 : f[i] = s[i] BY <1>3, <1>4 DEF IsSlice
<1>6. DOMAIN f = 1 .. n - 1 /\ f \in Seq(V)
  <2>1. \A i \in 1 .. n - 1 : f[i] \in V BY <1>1, <1>3, <1>5
  <2>2. f \in Seq(V) BY ONLY <2>1, <1>5, SequenceIsSeq
  <2> QED BY <1>5, <2>2, SequenceLength
<1>7. Range(s) = Range(f) \cup {s[n]}
  <2>1. Range(s) = {s[i] : i \in 1 .. n} /\ Range(f) = {f[i] : i \in 1 .. n - 1} BY <1>1, <1>6 DEF Range
  <2> QED BY <2>1, <1>3, <1>5
<1> QED BY <1>1, <1>2, <1>3, <1>5, <1>6, <1>7, <1>b

\* The pieces before a cursor.
Before(pieces, c) == [i \in 1 .. c - 1 |-> pieces[i]]

LEMMA BeforeGrows ==
  ASSUME NEW pieces \in Seq(Nat), NEW c \in 1 .. Len(pieces)
  PROVE  Append(Before(pieces, c), pieces[c]) = Before(pieces, c + 1)
<1>1. c - 1 \in Nat /\ c + 1 - 1 = c /\ c \in Nat OBVIOUS
<1>2. \A i \in 1 .. c : pieces[i] \in Nat OBVIOUS
<1>3. Before(pieces, c) \in Seq(Nat) /\ Len(Before(pieces, c)) = c - 1
  <2>1. DOMAIN Before(pieces, c) = 1 .. c - 1 BY DEF Before
  <2>2. Before(pieces, c) \in [1 .. c - 1 -> Nat] BY <1>1, <1>2 DEF Before
  <2> QED BY <1>1, <2>1, <2>2, SeqDef, LenProperties
<1>4. Before(pieces, c + 1) \in Seq(Nat) /\ Len(Before(pieces, c + 1)) = c
  <2>1. DOMAIN Before(pieces, c + 1) = 1 .. c BY <1>1 DEF Before
  <2>2. Before(pieces, c + 1) \in [1 .. c -> Nat] BY <1>1, <1>2 DEF Before
  <2> QED BY <1>1, <2>1, <2>2, SeqDef, LenProperties
<1> DEFINE longer == Append(Before(pieces, c), pieces[c])
<1>5. longer \in Seq(Nat) /\ Len(longer) = c BY <1>1, <1>2, <1>3, AppendProperties
<1>6. ASSUME NEW i \in 1 .. c
      PROVE  longer[i] = Before(pieces, c + 1)[i]
  <2>1. CASE i = c BY <1>1, <1>2, <1>3, <2>1, AppendProperties DEF Before
  <2>2. CASE i # c
    <3>1. i \in 1 .. c - 1 BY <1>1, <2>2
    <3> QED BY <1>1, <1>2, <1>3, <3>1, AppendProperties DEF Before
  <2> QED BY <2>1, <2>2
<1> HIDE DEF longer
<1>7. longer = Before(pieces, c + 1) BY <1>4, <1>5, <1>6, SeqEqual
<1> QED BY <1>7 DEF longer

LEMMA BeforeAll ==
  ASSUME NEW pieces \in Seq(Nat)
  PROVE  Before(pieces, Len(pieces) + 1) = pieces
<1>1. Len(pieces) \in Nat /\ Len(pieces) + 1 - 1 = Len(pieces) OBVIOUS
<1> QED BY <1>1, LenProperties DEF Before

QueueGrows(queue, next) ==
  /\ Len(queue) \in Nat /\ Len(next) \in Nat /\ Len(queue) <= Len(next)
  /\ \A a \in 1 .. Len(queue) : next[a] = queue[a]

\* A queue that grows twice has grown.
LEMMA GrowsFurther ==
  ASSUME NEW q, NEW r, NEW s, QueueGrows(q, r), QueueGrows(r, s)
  PROVE  QueueGrows(q, s)
<1>1. \A a \in 1 .. Len(q) : a \in 1 .. Len(r) BY DEF QueueGrows
<1> QED BY <1>1 DEF QueueGrows

-----------------------------------------------------------------------------
(* Items laid end to end, and the spans that hold one                        *)

SpanSet == [offset : Nat, size : Nat]

\* A span that holds this.
InSpan(items, total, span, what) ==
  /\ span.offset + span.size <= total
  /\ IF span.size = 0 THEN what = <<>>
     ELSE \E i \in 1 .. Len(items) : /\ items[i].at = span.offset
                                     /\ items[i].len = span.size
                                     /\ items[i].what = what

\* What a span holds stays when an item is added.
LEMMA HoldsStays ==
  ASSUME NEW m \in Nat, NEW items, Len(items) = m, NEW more, Len(more) \in Nat, m <= Len(more),
         \A i \in 1 .. m : more[i] = items[i], NEW total \in Nat, NEW rest \in Nat,
         NEW span \in SpanSet, NEW what, InSpan(items, total, span, what)
  PROVE  InSpan(more, total + rest, span, what)
<1>1. span.offset \in Nat /\ span.size \in Nat BY DEF SpanSet
<1>2. span.offset + span.size <= total + rest BY <1>1 DEF InSpan
<1>3. CASE span.size = 0 BY <1>2, <1>3 DEF InSpan
<1>4. CASE span.size # 0
  <2>1. PICK i \in 1 .. m : items[i].at = span.offset /\ items[i].len = span.size
                              /\ items[i].what = what
    BY <1>4 DEF InSpan
  <2>2. i \in 1 .. Len(more) /\ more[i] = items[i] OBVIOUS
  <2> QED BY <1>2, <1>4, <2>1, <2>2 DEF InSpan
<1> QED BY <1>3, <1>4

-----------------------------------------------------------------------------
(* Counting, and ranks                                                       *)

\* The numbers up to one.
LEMMA CountUpTo ==
  ASSUME NEW n \in Nat
  PROVE  IsFiniteSet(1 .. n) /\ Cardinality(1 .. n) = n
<1>1. 1 \in Int /\ n \in Int /\ (IF 1 > n THEN 0 ELSE n - 1 + 1) = n OBVIOUS
<1>2. /\ IsFiniteSet(1 .. n)
      /\ Cardinality(1 .. n) = IF 1 > n THEN 0 ELSE n - 1 + 1
  BY ONLY <1>1, FS_Interval
<1> QED BY <1>1, <1>2

\* No more places than values, and every value taken if there are as many.
LEMMA CountInjective ==
  ASSUME NEW m \in Nat, NEW n \in Nat, NEW f, \A i \in 1 .. m : f[i] \in 1 .. n,
         \A i, j \in 1 .. m : f[i] = f[j] => i = j
  PROVE  /\ m <= n
         /\ m = n => \A y \in 1 .. n : \E i \in 1 .. m : f[i] = y
<1> DEFINE g == [i \in 1 .. m |-> f[i]]
<1>1. g \in Injection(1 .. m, 1 .. n) BY DEF Injection, IsInjective
<1>2. /\ IsFiniteSet(1 .. m) /\ Cardinality(1 .. m) = m
      /\ IsFiniteSet(1 .. n) /\ Cardinality(1 .. n) = n
  BY CountUpTo
<1>3. \A i \in 1 .. m : g[i] = f[i] OBVIOUS
<1> HIDE DEF g
<1>4. m <= n /\ (m = n => g \in Surjection(1 .. m, 1 .. n)) BY <1>1, <1>2, FS_Injection
<1> QED BY <1>3, <1>4 DEF Surjection

\* A set that covers another has no fewer elements.
LEMMA CountOnto ==
  ASSUME NEW m \in Nat, NEW n \in Nat, NEW f, \A y \in 1 .. n : \E i \in 1 .. m : f[i] = y
  PROVE  n <= m
<1> DEFINE g == [y \in 1 .. n |-> CHOOSE i \in 1 .. m : f[i] = y]
<1>1. \A y \in 1 .. n : g[y] \in 1 .. m /\ f[g[y]] = y OBVIOUS
<1> HIDE DEF g
<1>2. \A y, z \in 1 .. n : g[y] = g[z] => y = z BY <1>1
<1>3. \A y \in 1 .. n : g[y] \in 1 .. m BY <1>1
<1> QED BY ONLY n \in Nat, m \in Nat, <1>2, <1>3, CountInjective

\* The members of a finite set that come before one of them.
RankedBelow(C, r, c) == {d \in C : r[d] < r[c]}

\* With distinct ranks, each has its own number of those, from 0 on.
LEMMA RankPlaces ==
  ASSUME NEW C, IsFiniteSet(C), NEW r, \A c \in C : r[c] \in Nat,
         \A c, d \in C : r[c] = r[d] => c = d
  PROVE  /\ \A c, d \in C : Cardinality(RankedBelow(C, r, c)) = Cardinality(RankedBelow(C, r, d)) => c = d
         /\ \A c \in C : Cardinality(RankedBelow(C, r, c)) \in 0 .. Cardinality(C) - 1
         /\ \A i \in 0 .. Cardinality(C) - 1 : \E c \in C : Cardinality(RankedBelow(C, r, c)) = i
<1> DEFINE n == Cardinality(C)
           B(c) == RankedBelow(C, r, c)
           g == [c \in C |-> Cardinality(B(c))]
           T == 0 .. n - 1
<1>1. n \in Nat BY FS_CardinalityType
<1>2. ASSUME NEW c \in C
      PROVE  IsFiniteSet(B(c)) /\ Cardinality(B(c)) \in Nat /\ Cardinality(B(c)) <= n - 1
  <2>1. B(c) \in SUBSET (C \ {c}) BY DEF RankedBelow
  <2>2. IsFiniteSet(C \ {c}) /\ Cardinality(C \ {c}) = n - 1 BY FS_RemoveElement
  <2> HIDE DEF B
  <2> QED BY <2>1, <2>2, FS_Subset, FS_CardinalityType
<1>3. ASSUME NEW c \in C, NEW d \in C, r[c] < r[d]
      PROVE  Cardinality(B(c)) < Cardinality(B(d))
  <2>1. B(c) \cup {c} \in SUBSET B(d) /\ c \notin B(c) BY <1>3 DEF RankedBelow
  <2>2. Cardinality(B(c) \cup {c}) = Cardinality(B(c)) + 1
    <3> HIDE DEF B
    <3> QED BY <1>2, <2>1, FS_AddElement
  <2>3. Cardinality(B(c) \cup {c}) <= Cardinality(B(d))
    <3> HIDE DEF B
    <3> QED BY <1>2, <2>1, FS_Subset
  <2> HIDE DEF B
  <2> QED BY <1>2, <2>2, <2>3
<1> HIDE DEF B, n
<1>4. \A c, d \in C : Cardinality(B(c)) = Cardinality(B(d)) => c = d
  <2> SUFFICES ASSUME NEW c \in C, NEW d \in C, Cardinality(B(c)) = Cardinality(B(d)), c # d
      PROVE  FALSE
    OBVIOUS
  <2>1. r[c] < r[d] \/ r[d] < r[c] OBVIOUS
  <2> QED BY <1>2, <1>3, <2>1
<1>5. \A c \in C : Cardinality(B(c)) \in T BY <1>1, <1>2
<1>6. g \in Injection(C, T) BY <1>4, <1>5 DEF Injection, IsInjective
<1>7. \A c \in C : g[c] = Cardinality(B(c)) OBVIOUS
<1>8. IsFiniteSet(T) /\ Cardinality(T) = n
  <2>1. 0 \in Int /\ n - 1 \in Int /\ (IF 0 > n - 1 THEN 0 ELSE (n - 1) - 0 + 1) = n BY <1>1
  <2>2. /\ IsFiniteSet(0 .. n - 1)
        /\ Cardinality(0 .. n - 1) = IF 0 > n - 1 THEN 0 ELSE (n - 1) - 0 + 1
    BY ONLY <2>1, FS_Interval
  <2> QED BY <2>1, <2>2
<1> HIDE DEF g, T
<1>9. g \in Surjection(C, T) BY <1>6, <1>8, FS_Injection DEF n
<1>10. \A i \in T : \E c \in C : Cardinality(B(c)) = i BY <1>7, <1>9 DEF Surjection
<1> QED BY <1>4, <1>5, <1>10 DEF T, B, n

-----------------------------------------------------------------------------
(* The members of a set of numbers, in order                                *)

\* The members of a set up to x, in order.
IsMarked(mark, n, x, S) ==
  /\ n \in Nat
  /\ \A a \in 1 .. n : mark[a] \in 1 .. x /\ mark[a] \in S
  /\ \A a, b \in 1 .. n : a < b => mark[a] < mark[b]
  /\ \A p \in 1 .. x : p \in S => \E a \in 1 .. n : mark[a] = p

\* An entry of another kind marks nothing.
LEMMA MarkSkipped ==
  ASSUME NEW mark, NEW n, NEW x \in Nat, NEW S, IsMarked(mark, n, x, S), x + 1 \notin S
  PROVE  IsMarked(mark, n, x + 1, S)
<1>1. \A a \in 1 .. n : mark[a] \in 1 .. x + 1 /\ mark[a] \in S BY DEF IsMarked
<1>2. \A p \in 1 .. x + 1 : p \in S => p \in 1 .. x OBVIOUS
<1> QED BY <1>1, <1>2 DEF IsMarked

\* An entry of the kind is the next mark.
LEMMA MarkAdded ==
  ASSUME NEW mark, NEW n, NEW x \in Nat, NEW S, IsMarked(mark, n, x, S), x + 1 \in S,
         NEW next, \A a \in 1 .. n : next[a] = mark[a], next[n + 1] = x + 1
  PROVE  IsMarked(next, n + 1, x + 1, S)
<1>1. /\ n \in Nat /\ n + 1 \in Nat
      /\ \A a \in 1 .. n : mark[a] \in 1 .. x /\ mark[a] \in S
      /\ \A a, b \in 1 .. n : a < b => mark[a] < mark[b]
      /\ \A p \in 1 .. x : p \in S => \E a \in 1 .. n : mark[a] = p
  BY DEF IsMarked
<1>2. \A a \in 1 .. n + 1 : a \in 1 .. n \/ a = n + 1 BY <1>1
<1>3. \A a \in 1 .. n + 1 : next[a] \in 1 .. x + 1 /\ next[a] \in S BY <1>1, <1>2
<1>4. ASSUME NEW a \in 1 .. n + 1, NEW b \in 1 .. n + 1, a < b
      PROVE  next[a] < next[b]
  <2>1. a \in 1 .. n BY <1>1, <1>4
  <2>2. CASE b \in 1 .. n BY <1>1, <1>4, <2>1, <2>2
  <2>3. CASE b = n + 1
    <3>1. next[a] \in 1 .. x /\ next[b] = x + 1 BY <1>1, <2>1, <2>3
    <3> QED BY <3>1
  <2> QED BY <1>2, <2>2, <2>3
<1>5. ASSUME NEW p \in 1 .. x + 1, p \in S
      PROVE  \E a \in 1 .. n + 1 : next[a] = p
  <2>1. CASE p \in 1 .. x
    <3>1. PICK a \in 1 .. n : mark[a] = p BY <1>1, <1>5, <2>1
    <3>2. a \in 1 .. n + 1 BY <1>1
    <3> QED BY <3>1, <3>2
  <2>2. CASE ~(p \in 1 .. x)
    <3>1. p = x + 1 /\ n + 1 \in 1 .. n + 1 BY <1>1, <2>2
    <3> QED BY <3>1
  <2> QED BY <2>1, <2>2
<1> QED BY <1>1, <1>3, <1>4, <1>5 DEF IsMarked

-----------------------------------------------------------------------------
(* A queue that takes in the children of each member it serves               *)

\* Every node but the first is a child once, of one before it.
AreKids(kids, N) ==
  /\ \A n \in 1 .. N : /\ HasLen(kids[n], Len(kids[n]))
                       /\ \A i \in 1 .. Len(kids[n]) : kids[n][i] \in 2 .. N
  /\ \A n, k \in 1 .. N : \A i \in 1 .. Len(kids[n]), j \in 1 .. Len(kids[k]) :
       kids[n][i] = kids[k][j] => n = k /\ i = j
  /\ \A c \in 2 .. N : \E n \in 1 .. c - 1 : \E i \in 1 .. Len(kids[n]) : kids[n][i] = c

\* The queue when i nodes have been taken from it; its length was l[k] when
\* it was k.
Queued(s, l, kids, N, i) ==
  /\ HasLen(s, l[i]) /\ l[0] = 1 /\ s[1] = 1
  /\ \A x \in 1 .. l[i] : s[x] \in 1 .. N
  /\ \A x, y \in 1 .. l[i] : s[x] = s[y] => x = y
  /\ i < N => i + 1 <= l[i]
  /\ \A k \in 0 .. i : l[k] \in Nat \ {0} /\ l[k] <= l[i]
  /\ \A k \in 1 .. i : /\ k <= l[k - 1]
                       /\ l[k] = l[k - 1] + Len(kids[s[k]])
                       /\ \A j \in 1 .. Len(kids[s[k]]) : s[l[k - 1] + j] = kids[s[k]][j]
  /\ \A x \in 2 .. l[i] : \E k \in 1 .. i : \E j \in 1 .. Len(kids[s[k]]) : x = l[k - 1] + j

\* All that is in it has been taken.
RunDry(s, l, kids, N, i) ==
  /\ s[1] = 1 /\ \A x \in 1 .. i : s[x] \in 1 .. N
  /\ l[i] <= i /\ \A k \in 0 .. i : l[k] \in Nat \ {0} /\ l[k] <= l[i]
  /\ \A k \in 1 .. i : /\ l[k] = l[k - 1] + Len(kids[s[k]])
                       /\ \A j \in 1 .. Len(kids[s[k]]) : s[l[k - 1] + j] = kids[s[k]][j]

\* It never runs dry before all of them are in it.
LEMMA QueueLasts ==
  ASSUME NEW N \in Nat \ {0}, NEW kids, AreKids(kids, N), NEW s, NEW l, NEW i \in 1 .. N,
         RunDry(s, l, kids, N, i)
  PROVE  N <= i
<1> USE DEF RunDry
<1> DEFINE In(c) == \E x \in 1 .. i : s[x] = c
           Reached(d) == \A c \in 1 .. N : c <= d => In(c)
           D == {d \in Nat : Reached(d)}
<1>1. 0 \in D OBVIOUS
<1>2. ASSUME NEW d \in Nat, d \in D PROVE d + 1 \in D
  <2> HIDE DEF RunDry, In
  <2> SUFFICES ASSUME NEW c \in 1 .. N, c <= d + 1 PROVE In(c) OBVIOUS
  <2> USE DEF RunDry, In
  <2>1. CASE c <= d BY <2>1, <1>2
  <2>2. CASE c = 1 BY <2>2
  <2>3. CASE c > d /\ c # 1
    <3>1. c = d + 1 /\ c \in 2 .. N BY <2>3
    <3>2. PICK n \in 1 .. c - 1 : \E j \in 1 .. Len(kids[n]) : kids[n][j] = c BY <3>1 DEF AreKids
    <3>3. PICK j \in 1 .. Len(kids[n]) : kids[n][j] = c BY <3>2
    <3>4. n \in 1 .. N /\ n <= d BY <3>1
    <3>5. PICK k \in 1 .. i : s[k] = n BY <3>4, <1>2
    <3>6. s[l[k - 1] + j] = c /\ l[k] = l[k - 1] + Len(kids[n]) BY <3>3, <3>5
    <3>7. Len(kids[n]) \in Nat BY <3>4 DEF AreKids, HasLen
    <3>8. k \in 0 .. i /\ k - 1 \in 0 .. i OBVIOUS
    <3>9. l[k] <= i /\ l[k - 1] \in Nat \ {0} BY <3>8
    <3>10. l[k - 1] + j \in 1 .. i
      <4> DEFINE a == l[k - 1]
                 b == l[k]
                 m == Len(kids[n])
      <4>1. a \in Nat /\ b = a + m /\ b <= i /\ m \in Nat /\ j \in 1 .. m BY <3>6, <3>7, <3>9
      <4> HIDE DEF a, b, m
      <4>2. a + j \in 1 .. i BY <4>1
      <4> QED BY <4>2 DEF a
    <3> QED BY <3>6, <3>10
  <2> QED BY <2>1, <2>2, <2>3
<1>3. Nat \subseteq D
  <2> HIDE DEF D
  <2> QED BY <1>1, <1>2, NatInduct
<1>4. \A c \in 1 .. N : In(c)
  <2>1. Reached(N)
    <3> HIDE DEF Reached
    <3> QED BY <1>3
  <2> HIDE DEF In
  <2> QED BY <2>1
<1>5. i \in Nat OBVIOUS
<1> QED BY ONLY N \in Nat \ {0}, <1>4, <1>5, CountOnto

\* One more node taken.
LEMMA QueueStep ==
  ASSUME NEW N \in Nat \ {0}, NEW kids, AreKids(kids, N), NEW s, NEW l, NEW i \in 0 .. N - 1,
         Queued(s, l, kids, N, i), NEW t,
         IsConcat(t, s, l[i], kids[s[i + 1]], Len(kids[s[i + 1]])),
         l[i + 1] = l[i] + Len(kids[s[i + 1]])
  PROVE  Queued(t, l, kids, N, i + 1)
<1> DEFINE a == l[i]
           e == kids[s[i + 1]]
           m == Len(e)
<1>1. /\ i \in Nat /\ i + 1 \in 1 .. N /\ i + 1 <= a /\ a \in Nat /\ l[0] = 1 /\ s[1] = 1
      /\ \A x \in 1 .. a : s[x] \in 1 .. N
      /\ \A x, y \in 1 .. a : s[x] = s[y] => x = y
      /\ \A k \in 0 .. i : l[k] \in Nat \ {0} /\ l[k] <= a
  BY DEF Queued
<1>2. /\ \A k \in 1 .. i : /\ k <= l[k - 1]
                           /\ l[k] = l[k - 1] + Len(kids[s[k]])
                           /\ \A j \in 1 .. Len(kids[s[k]]) : s[l[k - 1] + j] = kids[s[k]][j]
      /\ \A x \in 2 .. a : \E k \in 1 .. i : \E j \in 1 .. Len(kids[s[k]]) : x = l[k - 1] + j
  BY DEF Queued
<1>3. s[i + 1] \in 1 .. N /\ m \in Nat /\ \A j \in 1 .. m : e[j] \in 2 .. N
  <2>1. s[i + 1] \in 1 .. N BY <1>1
  <2> QED BY <2>1 DEF AreKids, HasLen
<1>4. /\ HasLen(t, a + m) /\ l[i + 1] = a + m
      /\ \A x \in 1 .. a : t[x] = s[x]
      /\ \A j \in 1 .. m : t[a + j] = e[j]
  <2> HIDE DEF a, e, m
  <2>1. HasLen(t, a + m) /\ \A x \in 1 .. a + m : t[x] = IF x <= a THEN s[x] ELSE e[x - a]
    BY DEF IsConcat, a, e, m
  <2>2. \A x \in 1 .. a : t[x] = s[x] BY <1>1, <1>3, <2>1
  <2>3. ASSUME NEW j \in 1 .. m PROVE t[a + j] = e[j]
    <3>1. a + j \in 1 .. a + m /\ ~(a + j <= a) /\ (a + j) - a = j BY <1>1, <1>3
    <3> QED BY <2>1, <3>1
  <2> QED BY <2>1, <2>2, <2>3 DEF a, e, m
<1> HIDE DEF a, m, e
<1>5. \A x \in 1 .. a + m : x \in 1 .. a \/ \E j \in 1 .. m : x = a + j
  <2> SUFFICES ASSUME NEW x \in 1 .. a + m, ~(x \in 1 .. a) PROVE \E j \in 1 .. m : x = a + j OBVIOUS
  <2>1. x - a \in 1 .. m /\ x = a + (x - a) BY <1>1, <1>3
  <2> QED BY <2>1
<1>6. \A x \in 1 .. a + m : t[x] \in 1 .. N
  <2>1. \A x \in 1 .. a : t[x] \in 1 .. N BY <1>1, <1>4
  <2>2. \A j \in 1 .. m : t[a + j] \in 1 .. N BY <1>3, <1>4
  <2> QED BY <1>5, <2>1, <2>2
<1>7. ASSUME NEW x \in 1 .. a, NEW j \in 1 .. m PROVE s[x] # e[j]
  <2>1. CASE x = 1 BY <2>1, <1>1, <1>3
  <2>2. CASE x # 1
    <3>1. x \in 2 .. a BY <2>2, <1>1
    <3>2. PICK k \in 1 .. i : \E h \in 1 .. Len(kids[s[k]]) : x = l[k - 1] + h BY <3>1, <1>2
    <3>3. PICK h \in 1 .. Len(kids[s[k]]) : x = l[k - 1] + h BY <3>2
    <3>4. s[x] = kids[s[k]][h] BY <3>3, <1>2
    <3>5. k \in 1 .. a /\ i + 1 \in 1 .. a /\ k # i + 1 BY <1>1
    <3>6. s[k] # s[i + 1] /\ s[k] \in 1 .. N BY <3>5, <1>1
    <3>7. kids[s[k]][h] # kids[s[i + 1]][j]
      <4> DEFINE u == s[k]
                 v == s[i + 1]
      <4>1. u \in 1 .. N /\ v \in 1 .. N /\ u # v /\ h \in 1 .. Len(kids[u])
            /\ j \in 1 .. Len(kids[v])
        BY <3>6, <1>3 DEF e, m
      <4> HIDE DEF u, v
      <4>2. kids[u][h] # kids[v][j] BY <4>1 DEF AreKids
      <4> QED BY <4>2 DEF u, v
    <3>8. e[j] = kids[s[i + 1]][j] BY DEF e
    <3> QED BY ONLY <3>4, <3>7, <3>8
  <2> QED BY <2>1, <2>2
<1>8. \A x, y \in 1 .. a + m : t[x] = t[y] => x = y
  <2>1. \A j, h \in 1 .. m : e[j] = e[h] => j = h
    <3>1. ASSUME NEW n \in 1 .. N
          PROVE  \A j, h \in 1 .. Len(kids[n]) : kids[n][j] = kids[n][h] => j = h
      BY DEF AreKids
    <3>2. \A j, h \in 1 .. Len(kids[s[i + 1]]) : kids[s[i + 1]][j] = kids[s[i + 1]][h] => j = h
      BY ONLY <1>3, <3>1
    <3> QED BY <3>2 DEF e, m
  <2> SUFFICES ASSUME NEW x \in 1 .. a + m, NEW y \in 1 .. a + m, t[x] = t[y] PROVE x = y OBVIOUS
  <2>2. CASE x \in 1 .. a /\ y \in 1 .. a BY <2>2, <1>1, <1>4
  <2>3. CASE x \in 1 .. a /\ ~(y \in 1 .. a) BY <2>3, <1>4, <1>5, <1>7
  <2>4. CASE ~(x \in 1 .. a) /\ y \in 1 .. a BY <2>4, <1>4, <1>5, <1>7
  <2>5. CASE ~(x \in 1 .. a) /\ ~(y \in 1 .. a) BY <2>5, <1>4, <1>5, <2>1
  <2> QED BY <2>2, <2>3, <2>4, <2>5
<1>9. \A k \in 0 .. i + 1 : l[k] \in Nat \ {0} /\ l[k] <= a + m
  <2> SUFFICES ASSUME NEW k \in 0 .. i + 1 PROVE l[k] \in Nat \ {0} /\ l[k] <= a + m OBVIOUS
  <2>1. CASE k \in 0 .. i
    <3>1. l[k] \in Nat \ {0} /\ l[k] <= a BY <2>1, <1>1
    <3> QED BY <3>1, <1>1, <1>3
  <2>2. CASE k = i + 1 BY <2>2, <1>1, <1>3, <1>4
  <2> QED BY <2>1, <2>2
<1>10. \A k \in 1 .. i + 1 :
    /\ k <= l[k - 1] /\ t[k] = s[k]
    /\ l[k] = l[k - 1] + Len(kids[t[k]])
    /\ \A j \in 1 .. Len(kids[t[k]]) : t[l[k - 1] + j] = kids[t[k]][j]
  <2> SUFFICES ASSUME NEW k \in 1 .. i + 1
      PROVE  /\ k <= l[k - 1] /\ t[k] = s[k]
             /\ l[k] = l[k - 1] + Len(kids[t[k]])
             /\ \A j \in 1 .. Len(kids[t[k]]) : t[l[k - 1] + j] = kids[t[k]][j]
    OBVIOUS
  <2>1. k \in 1 .. a /\ t[k] = s[k] BY <1>1, <1>4
  <2>2. CASE k = i + 1
    <3>1. k - 1 = i BY <2>2, <1>1
    <3> QED BY <2>1, <2>2, <3>1, <1>1, <1>4 DEF a, e, m
  <2>3. CASE k # i + 1
    <3>1. k \in 1 .. i /\ k - 1 \in 0 .. i /\ k \in 0 .. i BY <2>3, <1>1
    <3>2. /\ k <= l[k - 1] /\ l[k] = l[k - 1] + Len(kids[s[k]])
          /\ \A j \in 1 .. Len(kids[s[k]]) : s[l[k - 1] + j] = kids[s[k]][j]
      BY <3>1, <1>2
    <3>3. /\ l[k - 1] \in Nat /\ l[k] <= a /\ s[k] \in 1 .. N BY <3>1, <2>1, <1>1
    <3>4. Len(kids[s[k]]) \in Nat BY <3>3 DEF AreKids, HasLen
    <3>5. ASSUME NEW j \in 1 .. Len(kids[s[k]]) PROVE l[k - 1] + j \in 1 .. a
      <4> DEFINE b == l[k - 1]
                 c == l[k]
                 z == Len(kids[s[k]])
      <4>1. b \in Nat /\ c = b + z /\ c <= a /\ z \in Nat /\ j \in 1 .. z BY <3>2, <3>3, <3>4
      <4> HIDE DEF b, c, z
      <4>2. b + j \in 1 .. a BY <4>1, <1>1
      <4> QED BY <4>2 DEF b
    <3> QED BY <2>1, <3>2, <3>5, <1>4
  <2> QED BY <2>2, <2>3
<1>11. \A x \in 2 .. a + m : \E k \in 1 .. i + 1 : \E j \in 1 .. Len(kids[t[k]]) : x = l[k - 1] + j
  <2> SUFFICES ASSUME NEW x \in 2 .. a + m
      PROVE  \E k \in 1 .. i + 1 : \E j \in 1 .. Len(kids[t[k]]) : x = l[k - 1] + j
    OBVIOUS
  <2>1. CASE x \in 2 .. a
    <3>1. PICK k \in 1 .. i : \E j \in 1 .. Len(kids[s[k]]) : x = l[k - 1] + j BY <2>1, <1>2
    <3>2. k \in 1 .. i + 1 BY <1>1
    <3>3. t[k] = s[k] BY <3>2, <1>10
    <3> QED BY <3>1, <3>2, <3>3
  <2>2. CASE x \notin 2 .. a
    <3>1. x \in 1 .. a + m /\ ~(x \in 1 .. a) BY <2>2, <1>1, <1>3
    <3>2. PICK j \in 1 .. m : x = a + j BY <3>1, <1>5
    <3>3. i + 1 \in 1 .. i + 1 /\ (i + 1) - 1 = i BY <1>1
    <3>4. t[i + 1] = s[i + 1] BY <3>3, <1>10
    <3> QED BY <3>2, <3>3, <3>4 DEF a, e, m
  <2> QED BY <2>1, <2>2
<1>12. i + 1 < N => (i + 1) + 1 <= a + m
  <2> SUFFICES ASSUME i + 1 < N, a + m <= i + 1 PROVE FALSE BY <1>1, <1>3
  <2> DEFINE z == i + 1
  <2>1. z \in 1 .. N /\ l[z] <= z /\ ~(N <= z) /\ z <= a + m BY <1>1, <1>3, <1>4
  <2>10. z \in 1 .. N /\ l[z] <= z BY <2>1
  <2>2. t[1] = 1 BY <1>1, <1>4
  <2>3. \A x \in 1 .. z : t[x] \in 1 .. N BY <1>1, <1>3, <1>6, <2>1
  <2>4. \A k \in 0 .. z : l[k] \in Nat \ {0} /\ l[k] <= l[z] BY <1>4, <1>9
  <2>5. \A k \in 1 .. z : /\ l[k] = l[k - 1] + Len(kids[t[k]])
                          /\ \A j \in 1 .. Len(kids[t[k]]) : t[l[k - 1] + j] = kids[t[k]][j]
    BY <1>10
  <2> HIDE DEF z
  <2>6. RunDry(t, l, kids, N, z) BY <2>10, <2>2, <2>3, <2>4, <2>5 DEF RunDry
  <2>7. N <= z BY ONLY N \in Nat \ {0}, AreKids(kids, N), <2>10, <2>6, QueueLasts
  <2> QED BY <2>1, <2>7
<1>13. t[1] = 1 /\ 1 \in 1 .. a BY <1>1, <1>4
<1> DEFINE b == l[i + 1]
           z == i + 1
<1>14. b = a + m BY <1>4
<1> HIDE DEF b, z
<1>15. /\ HasLen(t, b) /\ l[0] = 1 /\ t[1] = 1
       /\ \A x \in 1 .. b : t[x] \in 1 .. N
       /\ \A x, y \in 1 .. b : t[x] = t[y] => x = y
       /\ z < N => z + 1 <= b
       /\ \A k \in 0 .. z : l[k] \in Nat \ {0} /\ l[k] <= b
  BY <1>1, <1>4, <1>6, <1>8, <1>9, <1>12, <1>13, <1>14 DEF z
<1>16. /\ \A k \in 1 .. z : /\ k <= l[k - 1]
                            /\ l[k] = l[k - 1] + Len(kids[t[k]])
                            /\ \A j \in 1 .. Len(kids[t[k]]) : t[l[k - 1] + j] = kids[t[k]][j]
       /\ \A x \in 2 .. b : \E k \in 1 .. z : \E j \in 1 .. Len(kids[t[k]]) : x = l[k - 1] + j
  BY <1>10, <1>11, <1>14 DEF z
<1>17. b = l[z] BY DEF b, z
<1> QED BY <1>15, <1>16, <1>17 DEF Queued, z
=============================================================================
