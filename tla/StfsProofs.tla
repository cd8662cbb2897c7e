----------------------------- MODULE StfsProofs -----------------------------
(***************************************************************************)
(* Proofs about StfsWriter and StfsReader, for packages of any files and   *)
(* any sizes of tables and blocks.                                         *)
(***************************************************************************)
EXTENDS StfsReader, CommonLemmas

-----------------------------------------------------------------------------
(* Addresses                                                                 *)

E == EntriesPerTable

\* The tables block b is under, by their numbers on their level.
Table0(b) == b \div E
Table1(b) == b \div PerLevel1

LEMMA Sizes ==
  /\ E \in Nat /\ E >= 2
  /\ PerLevel1 = E * E /\ PerLevel1 \in Nat /\ PerLevel1 >= E + E
  /\ Copies \in {1, 2}
<1>1. E \in Nat /\ E >= 2 /\ Copies \in {1, 2} BY LayoutAssumption DEF E, Copies
<1>2. PerLevel1 = E * E BY DEF PerLevel1, E
<1>3. E * E = (E - 2) * E + 2 * E /\ (E - 2) * E \in Nat BY <1>1
<1> QED BY <1>1, <1>2, <1>3

\* Where block b is: in its level-0 table, and that in its level-1 table.
LEMMA Coordinates ==
  ASSUME NEW b \in Nat
  PROVE  /\ Table0(b) \in Nat /\ Table1(b) \in Nat
         /\ Table0(b) * E \in Nat
         /\ Table0(b) * E <= b /\ b < Table0(b) * E + E
         /\ b % E = b - Table0(b) * E /\ b % E \in 0 .. E - 1
         /\ Table1(b) * E \in Nat
         /\ Table1(b) * E <= Table0(b) /\ Table0(b) < Table1(b) * E + E
         /\ Table0(b) \div E = Table1(b)
         /\ Table0(b) % E = Table0(b) - Table1(b) * E
         /\ Table1(b) * PerLevel1 = (Table1(b) * E) * E /\ Table1(b) * PerLevel1 \in Nat
         /\ Table1(b) * PerLevel1 <= b /\ b < Table1(b) * PerLevel1 + PerLevel1
         /\ Table1(b) * PerLevel1 <= Table0(b) * E
<1> DEFINE t == Table0(b)
           g == Table1(b)
           p == PerLevel1
<1>1. E \in Nat \ {0} /\ p \in Nat \ {0} /\ p = E * E BY Sizes
<1>2. t \in Nat /\ t * E <= b /\ b < t * E + E BY <1>1, DivMod, DivBounds DEF Table0
<1>3. g \in Nat /\ g * p <= b /\ b < g * p + p BY <1>1, DivMod, DivBounds DEF Table1
<1>4. b % E = b - t * E /\ b % E \in 0 .. E - 1 BY <1>1, <1>2, DivUnique, DivMod
<1> HIDE DEF t, g, p
<1>5. g * p = (g * E) * E /\ g * E \in Nat /\ t * E \in Nat /\ g * p \in Nat BY <1>1, <1>2, <1>3
<1>6. g * E <= t
  <2> SUFFICES ASSUME t + 1 <= g * E PROVE FALSE BY <1>2, <1>5
  <2>1. (t + 1) * E <= (g * E) * E BY <1>1, <1>2, <1>5, MultMonotonic
  <2>2. (t + 1) * E = t * E + E BY <1>1, <1>2
  <2> QED BY <1>1, <1>2, <1>3, <1>5, <2>1, <2>2
<1>7. t < g * E + E
  <2> SUFFICES ASSUME g * E + E <= t PROVE FALSE BY <1>1, <1>2, <1>5
  <2>1. (g * E + E) * E <= t * E BY <1>1, <1>2, <1>5, MultMonotonic
  <2>2. (g * E + E) * E = (g * E) * E + E * E BY <1>1, <1>5
  <2> QED BY <1>1, <1>2, <1>3, <1>5, <2>1, <2>2
<1>8. t \div E = g /\ t % E = t - g * E BY <1>1, <1>2, <1>3, <1>6, <1>7, DivUnique
<1>9. g * p <= t * E BY <1>1, <1>2, <1>5, <1>6, MultMonotonic
<1> QED BY <1>2, <1>3, <1>4, <1>5, <1>6, <1>7, <1>8, <1>9 DEF t, g, p

\* BackingDataBlock and the addresses of tables, without division.
LEMMA Addresses ==
  ASSUME NEW b \in Nat
  PROVE  /\ BackingDataBlock(b) = IF b < E THEN Copies + b
              ELSE IF b < PerLevel1 THEN (Table0(b) + 2) * Copies + b
              ELSE (Table0(b) + Table1(b) + 3) * Copies + b
         /\ BackingLevel0(b) = IF b < E THEN 0
              ELSE IF b < PerLevel1 THEN Table0(b) * E + (Table0(b) + 1) * Copies
              ELSE Table0(b) * E + (Table0(b) + Table1(b) + 2) * Copies
         /\ BackingLevel1(b) = IF b < PerLevel1 THEN E + Copies
              ELSE Table1(b) * PerLevel1 + (Table1(b) * E + Table1(b) + 1) * Copies
         /\ BackingLevel2 = PerLevel1 + (E + 1) * Copies
         /\ b < E <=> Table0(b) = 0
         /\ b < PerLevel1 <=> Table1(b) = 0
<1> DEFINE t == Table0(b)
           g == Table1(b)
           p == PerLevel1
           C == Copies
<1>1. E \in Nat /\ E >= 2 /\ p \in Nat /\ p >= E + E /\ C \in Nat /\ p = E * E BY Sizes
<1>2. t \in Nat /\ g \in Nat /\ t * E <= b /\ b < t * E + E /\ g * p <= b /\ b < g * p + p
      /\ t * E \in Nat /\ g * p \in Nat /\ g * E \in Nat
  BY Coordinates
<1> HIDE DEF t, g, p, C
<1>3. (b + E) \div E = t + 1
  <2> DEFINE x == b + E
             q == t + 1
  <2>1. q * E = t * E + E BY <1>1, <1>2
  <2>2. x \in Nat /\ q \in Nat /\ E \in Nat \ {0} /\ q * E <= x /\ x < q * E + E BY <1>1, <1>2, <2>1
  <2> HIDE DEF x, q
  <2>3. x \div E = q BY <2>2, DivUnique
  <2> QED BY <2>3 DEF x, q
<1>4. (b + p) \div p = g + 1
  <2> DEFINE x == b + p
             q == g + 1
  <2>1. q * p = g * p + p BY <1>1, <1>2
  <2>2. x \in Nat /\ q \in Nat /\ p \in Nat \ {0} /\ q * p <= x /\ x < q * p + p BY <1>1, <1>2, <2>1
  <2> HIDE DEF x, q
  <2>3. x \div p = q BY <2>2, DivUnique
  <2> QED BY <2>3 DEF x, q
<1>5. b < E <=> t = 0
  <2>1. t = 0 => t * E = 0 BY <1>1
  <2>2. t # 0 => t >= 1 /\ 1 * E <= t * E BY <1>1, <1>2, MultMonotonic
  <2> QED BY <1>1, <1>2, <2>1, <2>2
<1>6. b < p <=> g = 0
  <2>1. g = 0 => g * p = 0 BY <1>1
  <2>2. g # 0 => g >= 1 /\ 1 * p <= g * p BY <1>1, <1>2, MultMonotonic
  <2> QED BY <1>1, <1>2, <2>1, <2>2
<1>7. BackingDataBlock(b) = IF b < E THEN (t + 1) * C + b
    ELSE IF b < p THEN (t + 1) * C + b + (g + 1) * C ELSE C + ((t + 1) * C + b) + (g + 1) * C
  <2>1. b < E \/ b >= E BY <1>1
  <2>2. b >= E => ~(b < E) BY <1>1
  <2> QED BY <1>3, <1>4, <2>1, <2>2 DEF BackingDataBlock, E, p, C
<1>8. BackingLevel0(b) = IF b < E THEN 0
    ELSE t * (E + C) + (g + 1) * C + (IF g = 0 THEN 0 ELSE C)
  BY DEF BackingLevel0, BlockStep0, Table0, Table1, E, t, g, C
<1>9. BackingLevel1(b) = IF b < p THEN E + C ELSE C + g * (p + E * C + C)
  BY DEF BackingLevel1, BlockStep0, BlockStep1, Table1, E, g, p, C
<1>10. BackingLevel2 = p + E * C + C BY DEF BackingLevel2, BlockStep1, E, p, C
<1>11. /\ (t + 1) * C = t * C + C /\ (g + 1) * C = g * C + C
       /\ (t + 2) * C = t * C + 2 * C /\ (t + g + 3) * C = t * C + g * C + 3 * C
       /\ (t + g + 2) * C = t * C + g * C + 2 * C
       /\ t * C \in Nat /\ g * C \in Nat /\ (E + 1) * C = E * C + C /\ E * C \in Nat
       /\ t * (E + C) = t * E + t * C
       /\ g * (p + E * C + C) = g * p + (g * E) * C + g * C
       /\ (g * E + g + 1) * C = (g * E) * C + g * C + C /\ (g * E) * C \in Nat
  <2>1. g * (p + E * C + C) = g * p + g * (E * C) + g * C BY <1>1, <1>2
  <2>2. g * (E * C) = (g * E) * C BY <1>1, <1>2
  <2>3. (g * E + g + 1) * C = (g * E) * C + g * C + C BY <1>1, <1>2
  <2> QED BY <1>1, <1>2, <2>1, <2>2, <2>3
<1>12. BackingDataBlock(b) =
    IF b < E THEN C + b ELSE IF b < p THEN (t + 2) * C + b ELSE (t + g + 3) * C + b
  <2>1. CASE b < E
    <3>1. (t + 1) * C = C BY <1>1, <1>5, <2>1
    <3> QED BY <1>7, <2>1, <3>1
  <2>2. CASE ~(b < E) /\ b < p
    <3>1. g * C = 0 BY <1>1, <1>6, <2>2
    <3>2. (t + 1) * C + b + (g + 1) * C = (t + 2) * C + b BY <1>1, <1>2, <1>11, <3>1
    <3> QED BY <1>7, <2>2, <3>2
  <2>3. CASE ~(b < E) /\ ~(b < p)
    <3>1. C + ((t + 1) * C + b) + (g + 1) * C = (t + g + 3) * C + b BY <1>1, <1>2, <1>11
    <3> QED BY <1>7, <2>3, <3>1
  <2> QED BY <2>1, <2>2, <2>3
<1>13. BackingLevel0(b) =
    IF b < E THEN 0 ELSE IF b < p THEN t * E + (t + 1) * C ELSE t * E + (t + g + 2) * C
  <2>1. CASE b < p
    <3>1. g = 0 /\ g * C = 0 BY <1>1, <1>6, <2>1
    <3> QED BY <1>1, <1>2, <1>8, <1>11, <2>1, <3>1
  <2>2. CASE ~(b < p)
    <3>1. g # 0 BY <1>6, <2>2
    <3> QED BY <1>1, <1>2, <1>8, <1>11, <2>2, <3>1
  <2> QED BY <2>1, <2>2
<1>14. BackingLevel1(b) =
    IF b < p THEN E + C ELSE g * p + (g * E + g + 1) * C
  BY <1>1, <1>2, <1>9, <1>11
<1>15. BackingLevel2 = p + (E + 1) * C BY <1>1, <1>10, <1>11
<1> QED BY <1>5, <1>6, <1>12, <1>13, <1>14, <1>15 DEF t, g, p, C

\* The block before: a table back where n begins one.
LEMMA Predecessor ==
  ASSUME NEW n \in Nat \ {0}
  PROVE  /\ Table0(n - 1) = IF n = Table0(n) * E THEN Table0(n) - 1 ELSE Table0(n)
         /\ Table1(n - 1) = IF n = Table1(n) * PerLevel1 THEN Table1(n) - 1 ELSE Table1(n)
<1>1. ASSUME NEW d \in Nat \ {0}
      PROVE  (n - 1) \div d = IF n = (n \div d) * d THEN (n \div d) - 1 ELSE n \div d
  <2> DEFINE q == n \div d
             p == q * d
             x == n - 1
  <2>1. q \in Nat /\ p <= n /\ n < p + d /\ p \in Nat /\ x \in Nat /\ x = n - 1 BY <1>1, DivMod, DivBounds
  <2>2. CASE n = p
    <3> DEFINE r == q - 1
    <3>1. q # 0
      <4>1. q = 0 => p = 0 BY <1>1
      <4> QED BY <2>2, <4>1
    <3>2. r \in Nat /\ r * d = p - d BY <1>1, <2>1, <3>1
    <3> HIDE DEF p, q, r, x
    <3>3. r * d <= x /\ x < r * d + d BY <1>1, <2>1, <2>2, <3>2
    <3>4. x \div d = r BY <1>1, <2>1, <3>2, <3>3, DivUnique
    <3> QED BY <2>2, <3>4 DEF p, q, r, x
  <2>3. CASE n # p
    <3> HIDE DEF p, x
    <3>1. p <= x /\ x < p + d BY <1>1, <2>1, <2>3
    <3> HIDE DEF q
    <3>2. x \div d = q BY <1>1, <2>1, <3>1, DivUnique DEF p
    <3> QED BY <2>3, <3>2 DEF p, q, x
  <2> QED BY <2>2, <2>3
<1>2. E \in Nat \ {0} /\ PerLevel1 \in Nat \ {0} BY Sizes
<1> QED BY <1>1, <1>2 DEF Table0, Table1

\* The first block behind block n - 1; with the tables, the address of n is
\* at most a few further.
From(n) == IF n = 0 THEN 0 ELSE BackingDataBlock(n - 1) + 1

\* Blocks do not overlap, and only the first of a table has tables before it.
LEMMA Gaps ==
  ASSUME NEW n \in Nat
  PROVE  /\ From(n) \in Nat /\ BackingDataBlock(n) \in Nat
         /\ From(n) <= BackingDataBlock(n)
         /\ n # Table0(n) * E => From(n) = BackingDataBlock(n)
<1> DEFINE t == Table0(n)
           g == Table1(n)
           C == Copies
           p == PerLevel1
<1>1. E \in Nat /\ E >= 2 /\ p \in Nat /\ p >= E + E /\ C \in {1, 2} BY Sizes
<1>2. t \in Nat /\ g \in Nat /\ t * E \in Nat BY Coordinates
<1>3. BackingDataBlock(n) =
    IF n < E THEN C + n ELSE IF n < p THEN (t + 2) * C + n ELSE (t + g + 3) * C + n
  BY Addresses
<1>4. n < E <=> t = 0 BY Addresses
<1>5. n < p <=> g = 0 BY Addresses
<1>6. CASE n = 0
  <2>1. 0 * E = 0 /\ t = 0 BY <1>1, <1>4, <1>6
  <2> QED BY <1>1, <1>3, <1>6, <2>1 DEF From
<1>7. CASE n # 0
  <2> DEFINE m == n - 1
             u == Table0(m)
             h == Table1(m)
  <2>1. m \in Nat /\ m = n - 1 BY <1>7
  <2>2. u = (IF n = t * E THEN t - 1 ELSE t) /\ h = (IF n = g * p THEN g - 1 ELSE g) BY <1>7, Predecessor
  <2>3. u \in Nat /\ h \in Nat BY <2>1, Coordinates
  <2> HIDE DEF m
  <2>4. BackingDataBlock(m) = IF m < E THEN C + m ELSE IF m < p THEN (u + 2) * C + m
      ELSE (u + h + 3) * C + m
    BY <2>1, Addresses
  <2>5. (m < E <=> u = 0) BY <2>1, Addresses
  <2>6. (m < p <=> h = 0) BY <2>1, Addresses
  <2>7. From(n) = BackingDataBlock(m) + 1 BY <1>7 DEF From, m
  <2>8. n # t * E => u = t BY <2>2
  \* the first block of a level-1 table is the first of a level-0 table
  <2>9. n # t * E => h = g
    <3>1. g * p <= t * E /\ t * E <= n BY Coordinates
    <3>2. g * p \in Nat BY <1>1, <1>2
    <3> QED BY <1>2, <2>2, <3>1, <3>2
  <2>10. u <= t /\ h <= g BY <1>2, <2>2
  <2> HIDE DEF t, g, u, h, C, p
  <2>11. n < E => m < E BY <1>1, <2>1
  <2>12. n < p => m < p BY <1>1, <2>1
  <2>13. BackingDataBlock(m) \in Nat /\ BackingDataBlock(n) \in Nat
         /\ BackingDataBlock(m) + 1 <= BackingDataBlock(n)
    <3>1. CASE C = 1 BY <1>1, <1>2, <1>3, <2>1, <2>3, <2>4, <2>10, <2>11, <2>12, <3>1
    <3>2. CASE C = 2 BY <1>1, <1>2, <1>3, <2>1, <2>3, <2>4, <2>10, <2>11, <2>12, <3>2
    <3> QED BY <1>1, <3>1, <3>2
  <2>14. n # t * E => BackingDataBlock(m) + 1 = BackingDataBlock(n)
    <3> SUFFICES ASSUME n # t * E PROVE BackingDataBlock(m) + 1 = BackingDataBlock(n) OBVIOUS
    <3>1. u = t /\ h = g BY <2>8, <2>9
    <3>2. (m < E <=> n < E) /\ (m < p <=> n < p) BY <1>4, <1>5, <2>5, <2>6, <3>1
    <3>3. n = m + 1 BY <1>7, <2>1
    <3>4. CASE C = 1 BY <1>2, <1>3, <2>1, <2>4, <3>1, <3>2, <3>3, <3>4
    <3>5. CASE C = 2 BY <1>2, <1>3, <2>1, <2>4, <3>1, <3>2, <3>3, <3>5
    <3> QED BY <1>1, <3>4, <3>5
  <2> QED BY <2>7, <2>13, <2>14 DEF t
<1> QED BY <1>6, <1>7

\* The first block of a table.
LEMMA FirstOfTable ==
  ASSUME NEW t \in Nat
  PROVE  t * E \in Nat /\ Table0(t * E) = t /\ Table1(t * E) = t \div E
<1> DEFINE n == t * E
<1>1. E \in Nat \ {0} BY Sizes
<1>2. n \in Nat BY <1>1
<1>3. n <= n /\ n < t * E + E BY <1>1, <1>2
<1> HIDE DEF n
<1>4. n \div E = t BY <1>1, <1>2, <1>3, DivUnique DEF n
<1>5. Table0(n) \div E = Table1(n) BY <1>2, Coordinates
<1> QED BY <1>2, <1>4, <1>5 DEF Table0, n

\* The level-0 table of block b is right before the first of its blocks.
LEMMA Level0InGap ==
  ASSUME NEW b \in Nat, NEW n, n = Table0(b) * E
  PROVE  /\ n \in Nat /\ n <= b
         /\ BackingLevel0(b) \in Nat
         /\ From(n) <= BackingLevel0(b) /\ BackingLevel0(b) < BackingDataBlock(n)
         /\ BackingLevel0(b) # BackingLevel1(n)
         /\ BackingLevel0(b) # BackingLevel2
<1> DEFINE t == Table0(b)
           g == Table1(b)
           G == g * E
           P == g * PerLevel1
           C == Copies
           p == PerLevel1
           EC == E * C
           GC == G * C
<1>1. E \in Nat /\ E >= 2 /\ p \in Nat /\ p >= E + E /\ C \in {1, 2} /\ EC \in Nat BY Sizes
<1>2. /\ t \in Nat /\ g \in Nat /\ n \in Nat /\ n <= b /\ b < n + E
      /\ G \in Nat /\ G <= t /\ t < G + E /\ P \in Nat /\ P <= n
  BY Coordinates
<1>3. Table0(n) = t /\ Table1(n) = g BY <1>2, FirstOfTable, Coordinates
<1>4. b < E <=> t = 0 BY Addresses
<1>5. b < p <=> g = 0 BY Addresses
<1>6. BackingLevel0(b) = IF b < E THEN 0
    ELSE IF b < p THEN n + (t + 1) * C ELSE n + (t + g + 2) * C
  BY Addresses
<1>7. (n < E <=> t = 0) /\ (n < p <=> g = 0) BY <1>2, <1>3, Addresses
<1>8. BackingDataBlock(n) = IF n < E THEN C + n
    ELSE IF n < p THEN (t + 2) * C + n ELSE (t + g + 3) * C + n
  BY <1>2, <1>3, Addresses
<1>9. BackingLevel1(n) = IF n < p THEN E + C ELSE P + GC + g * C + C
  <2>1. BackingLevel1(n) = IF n < p THEN E + C ELSE P + (G + g + 1) * C BY <1>2, <1>3, Addresses
  <2>2. (G + g + 1) * C = GC + g * C + C BY <1>1, <1>2
  <2> HIDE DEF t, g, G, P, C, p, EC, GC
  <2>3. P + (G + g + 1) * C = P + GC + g * C + C
    <3>1. g * C \in Nat /\ GC \in Nat BY <1>1, <1>2 DEF GC
    <3> QED BY <1>1, <1>2, <2>2, <3>1
  <2> QED BY <2>1, <2>3
<1>10. BackingLevel2 = p + EC + C
  <2>1. BackingLevel2 = p + (E + 1) * C BY Addresses
  <2>2. (E + 1) * C = EC + C BY <1>1
  <2> HIDE DEF t, g, G, P, C, p, EC, GC
  <2>3. p + (E + 1) * C = p + EC + C BY <1>1, <2>2
  <2> QED BY <2>1, <2>3 DEF p, C
\* t is at least 1 from E on, at least E from p on
<1>11. /\ t >= 1 => n >= E
       /\ t = 1 => n = E
       /\ g >= 1 => n >= p /\ t >= E /\ P >= p
       /\ t <= E - 1 => n <= p - E
  <2>1. p = E * E BY Sizes
  <2>2. t >= 1 => 1 * E <= t * E BY <1>1, <1>2, MultMonotonic
  <2>3. g >= 1 => 1 * p <= g * p /\ 1 * E <= g * E BY <1>1, <1>2, MultMonotonic
  <2>4. t <= E - 1 => t * E <= (E - 1) * E /\ (E - 1) * E = p - E
    <3> DEFINE e == E - 1
    <3>1. e \in Nat /\ e * E = E * E - E /\ E \in Nat BY <1>1
    <3> HIDE DEF e
    <3>2. t <= e => t * E <= e * E BY <1>2, <3>1, MultMonotonic
    <3> QED BY <2>1, <3>1, <3>2 DEF e
  <2>5. 1 * p = p /\ 1 * E = E BY <1>1
  <2> HIDE DEF t, g, p
  <2>6. t = 1 => n = E BY <2>5 DEF t
  <2>7. t >= 1 => n >= E BY <1>1, <1>2, <2>2, <2>5 DEF t
  <2>8. t <= E - 1 => n <= p - E BY <2>4 DEF t
  <2>9. g >= 1 => P >= p /\ G >= E BY <1>1, <1>2, <2>3, <2>5 DEF p
  <2> QED BY <1>1, <1>2, <2>6, <2>7, <2>8, <2>9
<1>12. t * C \in Nat /\ g * C \in Nat /\ GC \in Nat /\ GC <= t * C
       /\ (t >= E => EC <= t * C) /\ (t <= E - 1 => t * C <= EC - C)
  <2>1. C \in Nat BY <1>1
  <2>2. GC <= t * C /\ GC \in Nat BY <1>2, <2>1, MultMonotonic
  <2>3. t >= E => EC <= t * C BY <1>1, <1>2, <2>1, MultMonotonic
  <2>4. t <= E - 1 => t * C <= (E - 1) * C /\ (E - 1) * C = EC - C BY <1>1, <1>2, <2>1, MultMonotonic
  <2> QED BY <1>2, <2>1, <2>2, <2>3, <2>4
<1> DEFINE tC == t * C
           gC == g * C
<1>13. /\ (t + 1) * C = tC + C /\ (t + 2) * C = tC + 2 * C
       /\ (t + g + 2) * C = tC + gC + 2 * C /\ (t + g + 3) * C = tC + gC + 3 * C
       /\ tC \in Nat /\ gC \in Nat /\ C \in Nat
  BY <1>1, <1>2
<1>14. BackingLevel0(b) \in Nat /\ BackingLevel0(b) < BackingDataBlock(n)
       /\ BackingLevel0(b) # BackingLevel1(n) /\ BackingLevel0(b) # BackingLevel2
  <2>1. CASE t = 0
    <3>1. BackingLevel0(b) = 0 /\ n < E /\ n < p BY <1>1, <1>2, <1>4, <1>6, <1>7, <2>1
    <3> HIDE DEF t, g, G, P, C, p, EC, GC
    <3> QED BY <1>1, <1>2, <1>8, <1>9, <1>10, <3>1
  <2>2. CASE t # 0 /\ g = 0
    <3>1. ~(b < E) /\ b < p /\ ~(n < E) /\ n < p /\ t <= E - 1 /\ t >= 1
      <4>1. G = 0 BY <1>1, <2>2
      <4> QED BY <1>1, <1>2, <1>4, <1>5, <1>7, <2>2, <4>1
    <3> HIDE DEF t, g, G, P, p, EC, GC, tC, gC, C
    <3>2. BackingLevel0(b) = n + tC + C /\ BackingDataBlock(n) = tC + 2 * C + n
      BY <1>2, <1>6, <1>8, <1>13, <3>1
    <3>3. n >= E /\ tC >= C /\ tC <= EC - C /\ n <= p - E
      <4>1. 1 * C <= t * C BY <1>1, <1>2, <3>1, MultMonotonic
      <4> QED BY <1>1, <1>11, <1>12, <3>1, <4>1 DEF tC
    <3>4. BackingLevel1(n) = E + C /\ BackingLevel2 = p + EC + C BY <1>9, <1>10, <3>1
    <3>5. tC \in Nat /\ C \in Nat /\ C >= 1 BY <1>1, <1>13
    <3> QED BY <1>1, <1>2, <3>2, <3>3, <3>4, <3>5
  <2>3. CASE t # 0 /\ g # 0
    <3>1. ~(b < E) /\ ~(b < p) /\ ~(n < E) /\ ~(n < p) /\ g >= 1 BY <1>2, <1>4, <1>5, <1>7, <2>3
    <3> HIDE DEF t, g, G, P, p, EC, GC, tC, gC, C
    <3>2. BackingLevel0(b) = n + tC + gC + 2 * C /\ BackingDataBlock(n) = tC + gC + 3 * C + n
      BY <1>2, <1>6, <1>8, <1>13, <3>1
    <3>3. n >= p /\ EC <= tC /\ GC <= tC /\ P <= n BY <1>2, <1>11, <1>12, <3>1 DEF tC
    <3>4. BackingLevel1(n) = P + GC + gC + C /\ BackingLevel2 = p + EC + C BY <1>9, <1>10, <3>1 DEF gC
    <3>5. tC \in Nat /\ C \in Nat /\ C >= 1 /\ gC \in Nat /\ GC \in Nat BY <1>1, <1>12, <1>13
    <3> QED BY <1>1, <1>2, <3>2, <3>3, <3>4, <3>5
  <2> QED BY <2>1, <2>2, <2>3
<1>15. From(n) <= BackingLevel0(b)
  <2>1. CASE n = 0 BY <1>14, <2>1 DEF From
  <2>2. CASE n # 0
    <3> DEFINE m == n - 1
               h == Table1(m)
    <3>1. m \in Nat /\ Table0(m) = t - 1 /\ h = (IF n = g * p THEN g - 1 ELSE g)
      BY <1>2, <1>3, <2>2, Predecessor
    <3> HIDE DEF m
    <3>2. BackingDataBlock(m) = IF m < E THEN C + m ELSE IF m < p THEN (t - 1 + 2) * C + m
        ELSE (t - 1 + h + 3) * C + m
      BY <3>1, Addresses
    <3>3. From(n) = BackingDataBlock(m) + 1 /\ n = m + 1 BY <1>2, <2>2 DEF From, m
    <3>4. t >= 1
      <4>1. t = 0 => n = 0 BY <1>1
      <4> QED BY <1>2, <2>2, <4>1
    <3>5. h \in Nat /\ h <= g
      <4>1. h \in Nat BY <3>1, Coordinates
      <4> HIDE DEF h, t, g, p
      <4> QED BY <1>2, <3>1, <4>1
    <3>6. (m < p <=> h = 0) /\ (m < E <=> t - 1 = 0) BY <3>1, Addresses
    <3> HIDE DEF t, g, G, P, p, EC, GC, h
    <3>7. ~(b < E) /\ (b < p => m < p) BY <1>1, <1>2, <1>4, <3>1, <3>3, <3>4
    <3>8. CASE C = 1 BY <1>1, <1>2, <1>6, <3>1, <3>2, <3>3, <3>4, <3>5, <3>6, <3>7, <3>8
    <3>9. CASE C = 2 BY <1>1, <1>2, <1>6, <3>1, <3>2, <3>3, <3>4, <3>5, <3>6, <3>7, <3>9
    <3> QED BY <1>1, <3>8, <3>9
  <2> QED BY <2>1, <2>2
<1> QED BY <1>2, <1>14, <1>15

\* The first block of a level-1 table but the first one, and what is around it.
LEMMA FirstOfLevel1 ==
  ASSUME NEW g \in Nat \ {0}, NEW n, n = g * PerLevel1
  PROVE  /\ n \in Nat /\ n >= PerLevel1 /\ g * E \in Nat /\ g * E >= E
         /\ Table0(n) = g * E /\ Table1(n) = g
         /\ BackingDataBlock(n) = n + (g * E + g + 3) * Copies
         /\ BackingLevel1(n) = n + (g * E + g + 1) * Copies
         /\ From(n) = n + (g * E + (IF g = 1 THEN 1 ELSE g + 1)) * Copies
<1> DEFINE p == PerLevel1
           C == Copies
           T == g * E
           m == n - 1
<1>1. E \in Nat /\ E >= 2 /\ p \in Nat /\ p >= E + E /\ C \in {1, 2} /\ p = E * E BY Sizes
<1>2. n \in Nat /\ T \in Nat /\ n = T * E BY <1>1
<1>3. n >= p /\ T >= E
  <2>1. 1 * p <= g * p /\ 1 * E <= g * E /\ 1 * p = p /\ 1 * E = E BY <1>1, MultMonotonic
  <2> QED BY <2>1
<1>4. Table0(n) = T /\ Table1(n) = T \div E BY <1>2, FirstOfTable
<1>5. T \div E = g
  <2> HIDE DEF T
  <2>1. g * E <= T /\ T < g * E + E BY <1>1, <1>2 DEF T
  <2> QED BY <1>1, <1>2, <2>1, DivUnique
<1>6. ~(n < E) /\ ~(n < p) BY <1>1, <1>2, <1>3
<1>7. BackingDataBlock(n) = (T + g + 3) * C + n BY <1>2, <1>4, <1>5, <1>6, Addresses
<1>8. BackingLevel1(n) = g * p + (T + g + 1) * C BY <1>2, <1>4, <1>5, <1>6, Addresses
<1>9. m \in Nat /\ Table0(m) = T - 1 /\ Table1(m) = g - 1 /\ n \in Nat \ {0}
  <2>1. n \in Nat \ {0} /\ m \in Nat BY <1>1, <1>2, <1>3
  <2>2. n = Table0(n) * E /\ n = Table1(n) * PerLevel1 BY <1>2, <1>4, <1>5
  <2> QED BY <1>4, <1>5, <2>1, <2>2, Predecessor
<1> HIDE DEF T
<1>10. From(n) = BackingDataBlock(m) + 1 BY <1>9 DEF From
<1>11. BackingDataBlock(m) = IF m < E THEN C + m
    ELSE IF m < p THEN (T - 1 + 2) * C + m ELSE (T - 1 + (g - 1) + 3) * C + m
  BY <1>9, Addresses
<1>12. m < p <=> g - 1 = 0 BY <1>9, Addresses
<1>13. ~(m < E) /\ n = m + 1 BY <1>1, <1>2, <1>3
<1> HIDE DEF m, p, C
<1>14. From(n) = n + (T + (IF g = 1 THEN 1 ELSE g + 1)) * C
  <2>1. CASE g = 1
    <3>1. From(n) = (T - 1 + 2) * C + m + 1 BY <1>10, <1>11, <1>12, <1>13, <2>1
    <3>2. T - 1 + 2 = T + 1 BY <1>2
    <3>3. (T + 1) * C \in Nat BY <1>1, <1>2
    <3> QED BY <1>9, <1>13, <2>1, <3>1, <3>2, <3>3
  <2>2. CASE g # 1
    <3>1. From(n) = (T - 1 + (g - 1) + 3) * C + m + 1 BY <1>10, <1>11, <1>12, <1>13, <2>2
    <3>2. T - 1 + (g - 1) + 3 = T + (g + 1) BY <1>2
    <3>3. (T + (g + 1)) * C \in Nat BY <1>1, <1>2
    <3> QED BY <1>9, <1>13, <2>2, <3>1, <3>2, <3>3
  <2> QED BY <2>1, <2>2
<1>15. (T + g + 3) * C \in Nat /\ (T + g + 1) * C \in Nat BY <1>1, <1>2
<1>16. BackingDataBlock(n) = n + (T + g + 3) * C /\ BackingLevel1(n) = n + (T + g + 1) * C
  BY <1>2, <1>7, <1>8, <1>15 DEF p
<1> QED BY <1>2, <1>3, <1>4, <1>5, <1>14, <1>16 DEF T, C, p

\* Where the walk meets the level-1 table of block b.
MeetsLevel1(b) == IF b < PerLevel1 THEN E ELSE Table1(b) * PerLevel1

\* It is before the first block of the table, but the first one's before block E.
LEMMA Level1InGap ==
  ASSUME NEW b \in Nat, NEW n, n = MeetsLevel1(b)
  PROVE  /\ n \in Nat /\ (n = E \/ n <= b)
         /\ Table1(n) = Table1(b)
         /\ BackingLevel1(n) = BackingLevel1(b)
         /\ BackingLevel1(b) \in Nat
         /\ From(n) <= BackingLevel1(b) /\ BackingLevel1(b) < BackingDataBlock(n)
         /\ BackingLevel1(b) # BackingLevel2
<1> DEFINE p == PerLevel1
           C == Copies
           g == Table1(b)
<1>1. E \in Nat /\ E >= 2 /\ p \in Nat /\ p >= E + E /\ C \in {1, 2} /\ p = E * E BY Sizes
<1>2. BackingLevel2 = p + (E + 1) * C BY Addresses
<1>3. (E + 1) * C = E * C + C /\ E * C \in Nat BY <1>1
<1>4. CASE b < p
  <2>1. n = E /\ n \in Nat BY <1>1, <1>4 DEF MeetsLevel1
  <2>2. BackingLevel1(b) = E + C /\ g = 0 BY <1>4, Addresses
  <2>3. Table0(n) = 1 /\ Table1(n) = 0
    <3>1. 1 * E = E /\ 1 \in Nat BY <1>1
    <3>2. Table0(1 * E) = 1 /\ Table1(1 * E) = 1 \div E BY FirstOfTable
    <3>3. 1 \div E = 0
      <4>1. 0 * E <= 1 /\ 1 < 0 * E + E /\ 0 \in Nat /\ E \in Nat \ {0} /\ 1 \in Nat BY <1>1
      <4> QED BY <4>1, DivUnique
    <3> QED BY <2>1, <3>1, <3>2, <3>3
  <2>4. BackingLevel1(n) = E + C /\ BackingDataBlock(n) = (1 + 2) * C + E
    <3>1. n < p /\ ~(n < E) BY <1>1, <2>1
    <3> QED BY <2>1, <2>3, <3>1, Addresses
  <2>5. From(n) = C + E
    <3>1. E - 1 \in Nat /\ E - 1 < E /\ E # 0 BY <1>1
    <3>2. BackingDataBlock(E - 1) = C + (E - 1) BY <3>1, Addresses
    <3> QED BY <1>1, <2>1, <3>1, <3>2 DEF From
  <2> HIDE DEF p, C, g
  <2> QED BY <1>1, <1>2, <1>3, <2>1, <2>2, <2>3, <2>4, <2>5 DEF C, g
<1>5. CASE ~(b < p)
  <2>1. n = g * p /\ g \in Nat BY <1>5, Coordinates DEF MeetsLevel1
  <2>2. g # 0 BY <1>5, Addresses
  <2>3. /\ n \in Nat /\ n >= p /\ g * E \in Nat /\ g * E >= E
        /\ Table1(n) = g
        /\ BackingDataBlock(n) = n + (g * E + g + 3) * C
        /\ BackingLevel1(n) = n + (g * E + g + 1) * C
        /\ From(n) = n + (g * E + (IF g = 1 THEN 1 ELSE g + 1)) * C
    BY <2>1, <2>2, FirstOfLevel1
  <2>4. BackingLevel1(b) = g * p + (g * E + g + 1) * C BY <1>5, Addresses
  <2>5. n <= b BY <2>1, Coordinates
  <2> DEFINE T == g * E
  <2> HIDE DEF p, g, T
  <2>6. CASE C = 1 BY <1>1, <1>2, <2>1, <2>2, <2>3, <2>4, <2>5, <2>6 DEF p, g, T
  <2>7. CASE C = 2 BY <1>1, <1>2, <2>1, <2>2, <2>3, <2>4, <2>5, <2>7 DEF p, g, T
  <2> QED BY <1>1, <2>6, <2>7
<1> QED BY <1>4, <1>5

\* And where it meets the level-2 table.
LEMMA Level2InGap ==
  /\ PerLevel1 \in Nat /\ BackingLevel2 \in Nat
  /\ From(PerLevel1) <= BackingLevel2 /\ BackingLevel2 < BackingDataBlock(PerLevel1)
<1> DEFINE p == PerLevel1
           C == Copies
<1>1. E \in Nat /\ E >= 2 /\ p \in Nat /\ C \in {1, 2} BY Sizes
<1>2. BackingLevel2 = p + (E + 1) * C BY Addresses
<1>3. 1 * p = p /\ 1 * E = E /\ 1 \in Nat \ {0} BY <1>1
<1>4. /\ BackingDataBlock(p) = p + (1 * E + 1 + 3) * C
      /\ From(p) = p + (1 * E + 1) * C
  BY <1>3, FirstOfLevel1
<1> HIDE DEF p, C
<1>5. BackingDataBlock(p) = p + (E + 4) * C /\ From(p) = p + (E + 1) * C
  <2>1. 1 * E + 1 + 3 = E + 4 /\ 1 * E + 1 = E + 1 BY <1>1
  <2> QED BY <1>4, <2>1
<1>6. CASE C = 1 BY <1>1, <1>2, <1>5, <1>6 DEF p
<1>7. CASE C = 2 BY <1>1, <1>2, <1>5, <1>7 DEF p
<1> QED BY <1>1, <1>6, <1>7

-----------------------------------------------------------------------------
(* Sums, and folds along a sequence.                                         *)

\* Total() adds up.
LEMMA TotalIsNat ==
  ASSUME NEW n \in Nat, NEW g, HasLen(g, n), \A k \in 1 .. n : g[k] \in Nat
  PROVE  \E T : IsSum(T, g, n) /\ Total(g) = T[n] /\ T[n] \in Nat
<1> DEFINE iter == CHOOSE f : f = [s \in SUBSET (1 .. n) |->
                               IF s = {} THEN 0 ELSE f[s \ {Max(s)}] + g[Max(s)]]
<1>1. DOMAIN g = 1 .. n BY SequenceLength
<1>2. Total(g) = iter[1 .. n] BY <1>1 DEF Total, FoldLeft, MapThenFoldSet
<1> HIDE DEF iter
<1>3. PICK S : IsSum(S, g, n) /\ iter[1 .. n] = S[n] BY FoldSums DEF iter
<1>4. S[n] \in Nat BY <1>3 DEF IsSum
<1> QED BY <1>2, <1>3, <1>4

\* A sum that is known is the total.
LEMMA TotalBy ==
  ASSUME NEW n \in Nat, NEW g, HasLen(g, n), \A k \in 1 .. n : g[k] \in Nat,
         NEW T, IsSum(T, g, n)
  PROVE  Total(g) = T[n] /\ T[n] \in Nat
<1>1. PICK S : IsSum(S, g, n) /\ Total(g) = S[n] /\ S[n] \in Nat BY TotalIsNat
<1>2. S[n] = T[n] BY <1>1, SumUnique
<1> QED BY <1>1, <1>2

-----------------------------------------------------------------------------
(* The tree of a list of files.                                              *)

NodeSet == [path : Seq(Names), is_directory : BOOLEAN,
            source_file_index : Nat, file_size : Nat]
NodeLists == Seq(NodeSet)
FileSet == [path : Seq(Names), size : Nat]

LEMMA AddNodeTyped ==
  ASSUME NEW nodes \in NodeLists, NEW node \in NodeSet
  PROVE  AddNode(nodes, node) \in NodeLists
BY AppendProperties DEF AddNode, NodeLists

\* The lists met on the way through the nodes of one file.
IsAddRun(run, nodes, way, n) ==
  /\ run \in [0 .. n -> NodeLists]
  /\ run[0] = nodes
  /\ \A k \in 1 .. n : run[k] = AddNode(run[k - 1], way[k])

LEMMA AddNodesRun ==
  ASSUME NEW nodes \in NodeLists, NEW n, NEW way, HasLen(way, n),
         \A k \in 1 .. n : way[k] \in NodeSet
  PROVE  \E run : IsAddRun(run, nodes, way, n) /\ AddNodes(nodes, way) = run[n]
<1> DEFINE iter == CHOOSE f : f = [s \in SUBSET (1 .. n) |->
                     IF s = {} THEN nodes ELSE AddNode(f[s \ {Max(s)}], way[Max(s)])]
           H == [k \in 1 .. n |-> [x \in NodeLists |-> AddNode(x, way[k])]]
           run == [k \in 0 .. n |-> iter[1 .. k]]
<1>1. n \in Nat /\ DOMAIN way = 1 .. n BY SequenceLength DEF HasLen
<1>2. AddNodes(nodes, way) = iter[1 .. n] BY <1>1 DEF AddNodes, FoldLeft, MapThenFoldSet
<1>3. H \in [1 .. n -> [NodeLists -> NodeLists]] BY AddNodeTyped
<1>4. \A k \in 1 .. n : \A x \in NodeLists : H[k][x] = AddNode(x, way[k]) OBVIOUS
<1> HIDE DEF H
<1>5. PICK F \in [SUBSET (1 .. n) -> NodeLists] : IsStepFold(F, nodes, H, n) BY <1>1, <1>3, StepFoldExists
<1>6. ASSUME NEW s \in SUBSET (1 .. n), s # {}
      PROVE  s \ {Max(s)} \in SUBSET (1 .. n) /\ Max(s) \in 1 .. n
  BY <1>1, <1>6, MaxOfUpTo
<1>7. F = [s \in SUBSET (1 .. n) |->
    IF s = {} THEN nodes ELSE AddNode(F[s \ {Max(s)}], way[Max(s)])]
  <2>1. F = [s \in SUBSET (1 .. n) |-> IF s = {} THEN nodes ELSE H[Max(s)][F[s \ {Max(s)}]]]
    BY <1>5 DEF IsStepFold
  <2>2. \A s \in SUBSET (1 .. n) : (IF s = {} THEN nodes ELSE H[Max(s)][F[s \ {Max(s)}]])
      = (IF s = {} THEN nodes ELSE AddNode(F[s \ {Max(s)}], way[Max(s)]))
    BY <1>4, <1>5, <1>6
  <2> QED BY <2>1, <2>2
<1>8. iter = [s \in SUBSET (1 .. n) |->
    IF s = {} THEN nodes ELSE AddNode(iter[s \ {Max(s)}], way[Max(s)])]
  BY <1>7
<1> HIDE DEF iter
<1>9. iter[1 .. 0] = nodes
  <2>1. 1 .. 0 = {} /\ {} \in SUBSET (1 .. n) OBVIOUS
  <2> QED BY <1>8, <2>1
<1>10. ASSUME NEW k \in 1 .. n
    PROVE  iter[1 .. k] = AddNode(iter[1 .. k - 1], way[k])
  <2>1. 1 .. k # {} /\ 1 .. k \in SUBSET (1 .. n) BY <1>1
  <2>2. Max(1 .. k) = k
    <3>1. k \in Nat /\ 1 .. k \in SUBSET Int /\ k \in 1 .. k /\ \A x \in 1 .. k : x <= k BY <1>1
    <3>2. Max(1 .. k) \in 1 .. k /\ \A x \in 1 .. k : x <= Max(1 .. k) BY <2>1, <3>1, IntMax
    <3> QED BY <3>1, <3>2
  <2>3. (1 .. k) \ {k} = 1 .. k - 1 BY <1>1
  <2> QED BY <1>8, <2>1, <2>2, <2>3
<1> DEFINE D == {k \in Nat : k <= n => iter[1 .. k] \in NodeLists}
<1>11. 0 \in D BY <1>9
<1>12. ASSUME NEW k \in Nat, k \in D PROVE k + 1 \in D
  <2> SUFFICES ASSUME k + 1 <= n PROVE iter[1 .. k + 1] \in NodeLists OBVIOUS
  <2>1. k + 1 \in 1 .. n /\ (k + 1) - 1 = k /\ k <= n BY <1>1
  <2>2. iter[1 .. k + 1] = AddNode(iter[1 .. k], way[k + 1]) BY <1>10, <2>1
  <2> QED BY <1>12, <2>1, <2>2, AddNodeTyped
<1> HIDE DEF D
<1>13. Nat \subseteq D BY <1>11, <1>12, NatInduct
<1>14. \A k \in 0 .. n : iter[1 .. k] \in NodeLists BY <1>1, <1>13 DEF D
<1>15. IsAddRun(run, nodes, way, n)
  <2>1. run \in [0 .. n -> NodeLists] /\ run[0] = nodes BY <1>1, <1>9, <1>14
  <2>2. \A k \in 1 .. n : k \in 0 .. n /\ k - 1 \in 0 .. n BY <1>1
  <2>3. \A k \in 1 .. n : run[k] = AddNode(run[k - 1], way[k]) BY <1>10, <2>2
  <2> QED BY <2>1, <2>3 DEF IsAddRun
<1>16. run[n] = iter[1 .. n] BY <1>1
<1> QED BY <1>2, <1>15, <1>16

LEMMA AddNodesTyped ==
  ASSUME NEW nodes \in NodeLists, NEW n, NEW way, HasLen(way, n),
         \A k \in 1 .. n : way[k] \in NodeSet
  PROVE  AddNodes(nodes, way) \in NodeLists
<1>1. PICK run : IsAddRun(run, nodes, way, n) /\ AddNodes(nodes, way) = run[n] BY AddNodesRun
<1>2. n \in 0 .. n BY DEF HasLen
<1> QED BY <1>1, <1>2 DEF IsAddRun

\* The nodes on the way to a file.
LEMMA NodesToFacts ==
  ASSUME NEW fs \in Seq(FileSet), NEW f \in DOMAIN fs
  PROVE  /\ HasLen(NodesTo(fs, f), Len(fs[f].path))
         /\ \A i \in 1 .. Len(fs[f].path) : NodesTo(fs, f)[i] \in NodeSet
<1> DEFINE path == fs[f].path
           n == Len(path)
           way == NodesTo(fs, f)
           At(i) == [path |-> SubSeq(path, 1, i),
                     is_directory |-> i < n, source_file_index |-> f,
                     file_size |-> IF i < n THEN 0 ELSE fs[f].size]
<1>1. fs[f] \in FileSet /\ f \in Nat BY ElementOfSeq, LenProperties
<1>2. path \in Seq(Names) /\ fs[f].size \in Nat /\ n \in Nat BY <1>1, LenProperties DEF FileSet
<1>3. way = [i \in 1 .. n |-> At(i)] BY DEF NodesTo
<1>4. ASSUME NEW i \in 1 .. n
      PROVE  At(i) \in NodeSet
  <2>1. SubSeq(path, 1, i) \in Seq(Names) BY <1>2, SubSeqProperties
  <2> QED BY <1>1, <1>2, <2>1 DEF NodeSet
<1> HIDE DEF way, At
<1>5. \A i \in 1 .. n : way[i] = At(i) BY <1>3
<1>6. HasLen(way, n) BY <1>2, <1>3, <1>5 DEF HasLen
<1> HIDE DEF path, n
<1>7. \A i \in 1 .. n : way[i] \in NodeSet BY <1>4, <1>5
<1> QED BY <1>6, <1>7 DEF way, path, n


\* The lists after each file.
IsBuildRun(run, fs) ==
  /\ run \in [0 .. Len(fs) -> NodeLists]
  /\ run[0] = <<>>
  /\ \A f \in 1 .. Len(fs) : run[f] = AddNodes(run[f - 1], NodesTo(fs, f))

LEMMA WayTyped ==
  ASSUME NEW fs \in Seq(FileSet), NEW f \in 1 .. Len(fs), NEW nodes \in NodeLists
  PROVE  AddNodes(nodes, NodesTo(fs, f)) \in NodeLists
<1> DEFINE n == Len(fs[f].path)
           way == NodesTo(fs, f)
<1>1. f \in DOMAIN fs BY LenProperties
<1>2. HasLen(way, n) /\ \A i \in 1 .. n : way[i] \in NodeSet BY <1>1, NodesToFacts
<1> HIDE DEF way, n
<1>3. AddNodes(nodes, way) \in NodeLists BY <1>2, AddNodesTyped
<1> QED BY <1>3 DEF way

LEMMA BuildRun ==
  ASSUME NEW fs \in Seq(FileSet)
  PROVE  \E run : IsBuildRun(run, fs) /\ BuildTree(fs) = run[Len(fs)]
<1> DEFINE n == Len(fs)
           ways == [f \in DOMAIN fs |-> NodesTo(fs, f)]
           iter == CHOOSE h : h = [s \in SUBSET (1 .. n) |->
                     IF s = {} THEN <<>> ELSE AddNodes(h[s \ {Max(s)}], ways[Max(s)])]
           H == [k \in 1 .. n |-> [x \in NodeLists |-> AddNodes(x, ways[k])]]
           run == [k \in 0 .. n |-> iter[1 .. k]]
<1>1. n \in Nat /\ DOMAIN fs = 1 .. n /\ <<>> \in NodeLists BY LenProperties DEF NodeLists
<1>2. BuildTree(fs) = iter[1 .. n]
  <2>1. DOMAIN ways = 1 .. n BY <1>1
  <2> HIDE DEF ways
  <2>2. BuildTree(fs) = FoldLeft(AddNodes, <<>>, ways) BY DEF BuildTree, ways
  <2> QED BY <2>1, <2>2 DEF FoldLeft, MapThenFoldSet
<1>3. \A k \in 1 .. n : ways[k] = NodesTo(fs, k) BY <1>1
<1> HIDE DEF ways
<1>4. \A k \in 1 .. n : \A x \in NodeLists : AddNodes(x, ways[k]) \in NodeLists BY <1>3, WayTyped
<1>5. H \in [1 .. n -> [NodeLists -> NodeLists]] BY <1>4
<1>6. \A k \in 1 .. n : \A x \in NodeLists : H[k][x] = AddNodes(x, ways[k]) OBVIOUS
<1> HIDE DEF H
<1>7. PICK F \in [SUBSET (1 .. n) -> NodeLists] : IsStepFold(F, <<>>, H, n) BY <1>1, <1>5, StepFoldExists
<1>8. ASSUME NEW s \in SUBSET (1 .. n), s # {}
      PROVE  s \ {Max(s)} \in SUBSET (1 .. n) /\ Max(s) \in 1 .. n
  BY <1>1, <1>8, MaxOfUpTo
<1>9. F = [s \in SUBSET (1 .. n) |->
    IF s = {} THEN <<>> ELSE AddNodes(F[s \ {Max(s)}], ways[Max(s)])]
  <2>1. F = [s \in SUBSET (1 .. n) |-> IF s = {} THEN <<>> ELSE H[Max(s)][F[s \ {Max(s)}]]]
    BY <1>7 DEF IsStepFold
  <2>2. \A s \in SUBSET (1 .. n) : (IF s = {} THEN <<>> ELSE H[Max(s)][F[s \ {Max(s)}]])
      = (IF s = {} THEN <<>> ELSE AddNodes(F[s \ {Max(s)}], ways[Max(s)]))
    BY <1>6, <1>7, <1>8
  <2> QED BY <2>1, <2>2
<1>10. iter = [s \in SUBSET (1 .. n) |->
    IF s = {} THEN <<>> ELSE AddNodes(iter[s \ {Max(s)}], ways[Max(s)])]
  BY <1>9
<1> HIDE DEF iter
<1>11. iter[1 .. 0] = <<>>
  <2>1. 1 .. 0 = {} /\ {} \in SUBSET (1 .. n) OBVIOUS
  <2> QED BY <1>10, <2>1
<1>12. ASSUME NEW k \in 1 .. n
    PROVE  iter[1 .. k] = AddNodes(iter[1 .. k - 1], ways[k])
  <2>1. 1 .. k # {} /\ 1 .. k \in SUBSET (1 .. n) BY <1>1
  <2>2. Max(1 .. k) = k
    <3>1. k \in Nat /\ 1 .. k \in SUBSET Int /\ k \in 1 .. k /\ \A x \in 1 .. k : x <= k BY <1>1
    <3>2. Max(1 .. k) \in 1 .. k /\ \A x \in 1 .. k : x <= Max(1 .. k) BY <2>1, <3>1, IntMax
    <3> QED BY <3>1, <3>2
  <2>3. (1 .. k) \ {k} = 1 .. k - 1 BY <1>1
  <2> QED BY <1>10, <2>1, <2>2, <2>3
<1> DEFINE D == {k \in Nat : k <= n => iter[1 .. k] \in NodeLists}
<1>13. 0 \in D BY <1>1, <1>11
<1>14. ASSUME NEW k \in Nat, k \in D PROVE k + 1 \in D
  <2> SUFFICES ASSUME k + 1 <= n PROVE iter[1 .. k + 1] \in NodeLists OBVIOUS
  <2>1. k + 1 \in 1 .. n /\ (k + 1) - 1 = k /\ k <= n BY <1>1
  <2>2. iter[1 .. k + 1] = AddNodes(iter[1 .. k], ways[k + 1]) BY <1>12, <2>1
  <2> QED BY <1>4, <1>14, <2>1, <2>2
<1> HIDE DEF D
<1>15. Nat \subseteq D BY <1>13, <1>14, NatInduct
<1>16. \A k \in 0 .. n : iter[1 .. k] \in NodeLists BY <1>1, <1>15 DEF D
<1>17. IsBuildRun(run, fs)
  <2>1. run \in [0 .. n -> NodeLists] /\ run[0] = <<>> BY <1>1, <1>11, <1>16
  <2>2. \A k \in 1 .. n : k \in 0 .. n /\ k - 1 \in 0 .. n BY <1>1
  <2>3. \A k \in 1 .. n : run[k] = AddNodes(run[k - 1], NodesTo(fs, k)) BY <1>3, <1>12, <2>2
  <2> QED BY <2>1, <2>3 DEF IsBuildRun
<1>18. run[n] = iter[1 .. n] BY <1>1
<1> QED BY <1>2, <1>17, <1>18

LEMMA BuildTyped ==
  ASSUME NEW fs \in Seq(FileSet)
  PROVE  BuildTree(fs) \in NodeLists
<1>1. PICK run : IsBuildRun(run, fs) /\ BuildTree(fs) = run[Len(fs)] BY BuildRun
<1>2. Len(fs) \in 0 .. Len(fs) BY LenProperties
<1> QED BY <1>1, <1>2 DEF IsBuildRun

-----------------------------------------------------------------------------
(* The plan.                                                                 *)

LEMMA CeilIsNat ==
  ASSUME NEW a \in Nat, NEW b \in Nat \ {0}
  PROVE  CeilDiv(a, b) \in Nat
<1>1. a + b - 1 \in Nat OBVIOUS
<1>2. (a + b - 1) \div b \in Nat BY <1>1, DivMod
<1> QED BY <1>2 DEF CeilDiv

LEMMA NodeBlocksIsNat ==
  ASSUME NEW node \in NodeSet
  PROVE  NodeBlocks(node) \in Nat
<1>1. node.file_size \in Nat /\ BlockSize \in Nat \ {0} BY LayoutAssumption DEF NodeSet
<1>2. CeilDiv(node.file_size, BlockSize) \in Nat BY <1>1, CeilIsNat
<1> QED BY <1>2 DEF NodeBlocks, EntryBlockCount

\* Blocks are handed out node after node.
IsFree(S, nodes) ==
  /\ S \in [0 .. Len(nodes) -> Nat]
  /\ S[0] = 0
  /\ \A n \in 1 .. Len(nodes) : S[n] = S[n - 1] + NodeBlocks(nodes[n])

LEMMA FreeBlocks ==
  ASSUME NEW nodes \in NodeLists
  PROVE  \E S : /\ IsFree(S, nodes)
                /\ \A n \in 1 .. Len(nodes) + 1 : \A tb \in Nat :
                     FirstFreeBlock(nodes, n, tb) = tb + S[n - 1]
<1> DEFINE N == Len(nodes)
           g == [i \in 1 .. N |-> NodeBlocks(nodes[i])]
<1>1. N \in Nat /\ \A i \in 1 .. N : nodes[i] \in NodeSet BY LenProperties, ElementOfSeq DEF NodeLists
<1>2. \A i \in 1 .. N : NodeBlocks(nodes[i]) \in Nat BY <1>1, NodeBlocksIsNat
<1>3. HasLen(g, N) /\ \A i \in 1 .. N : g[i] = NodeBlocks(nodes[i]) /\ g[i] \in Nat
  BY <1>1, <1>2 DEF HasLen
<1> HIDE DEF g, N
<1>4. PICK S : IsSum(S, g, N) BY <1>1, <1>3, TotalIsNat
<1>5. S \in [0 .. N -> Nat] /\ S[0] = 0 /\ \A k \in 1 .. N : S[k] = S[k - 1] + g[k] BY <1>4 DEF IsSum
<1>6. IsFree(S, nodes) BY <1>3, <1>5 DEF IsFree, N
<1>7. ASSUME NEW n \in 1 .. N + 1, NEW tb \in Nat
      PROVE  FirstFreeBlock(nodes, n, tb) = tb + S[n - 1]
  <2> DEFINE m == n - 1
             h == [i \in 1 .. m |-> NodeBlocks(nodes[i])]
             T == [k \in 0 .. m |-> S[k]]
  <2>1. m \in Nat /\ m <= N BY <1>1
  <2>2. FirstFreeBlock(nodes, n, tb) = tb + Total(h) BY DEF FirstFreeBlock
  <2> HIDE DEF m
  <2>3. \A k \in 0 .. m : k \in 0 .. N /\ T[k] = S[k] BY <1>1, <2>1
  <2>4. \A k \in 1 .. m : k \in 1 .. N /\ k \in 0 .. m /\ k - 1 \in 0 .. m /\ h[k] = g[k]
    BY <1>1, <1>3, <2>1
  <2>5. HasLen(h, m) BY <2>1 DEF HasLen
  <2>6. T \in [0 .. m -> Nat] /\ T[0] = 0 BY <1>5, <2>1, <2>3
  <2> HIDE DEF T, h
  <2>7. \A k \in 1 .. m : T[k] = T[k - 1] + h[k] BY <1>5, <2>3, <2>4
  <2>8. IsSum(T, h, m) BY <2>6, <2>7 DEF IsSum
  <2>9. \A k \in 1 .. m : h[k] \in Nat BY <1>3, <2>4
  <2>10. Total(h) = T[m] BY <2>1, <2>5, <2>8, <2>9, TotalBy
  <2> QED BY <2>1, <2>2, <2>3, <2>10 DEF m
<1> QED BY <1>6, <1>7 DEF N

LayoutOK(l) ==
  /\ l.total_blocks \in 1 .. PerLevel2
  /\ l.top_level = TopLevel(l.total_blocks)
  /\ l.header_blocks \in Nat \ {0}
  /\ l.file_table_block_count \in 1 .. l.total_blocks
  /\ HasLen(l.entries, Len(l.entries))
  /\ \A n \in 1 .. Len(l.entries) : l.entries[n].starting_block_num \in Nat

LEMMA PlanLayout ==
  ASSUME NEW fs \in Listings, Plannable(fs), NEW inst \in BOOLEAN
  PROVE  LayoutOK(Plan(fs, inst))
<1> DEFINE l == Plan(fs, inst)
           nodes == BuildTree(fs)
           N == Len(nodes)
           tb == Max({CeilDiv(N, EntriesPerBlock), 1})
<1>1. fs \in Seq(FileSet) BY StfsAssumption DEF FileSet
<1>2. nodes \in NodeLists BY <1>1, BuildTyped
<1>3. /\ l.entries = PlannedEntries(nodes, tb)
      /\ l.file_table_block_count = tb
      /\ l.total_blocks = FirstFreeBlock(nodes, N + 1, tb)
      /\ l.top_level = TopLevel(l.total_blocks)
      /\ l.header_blocks = IF inst THEN InstallerHeader ELSE DefaultHeader
  BY DEF Plan
<1>4. l.total_blocks <= PerLevel2
  <2>1. Plan(fs, FALSE).total_blocks = FirstFreeBlock(nodes, N + 1, tb) BY DEF Plan
  <2>2. Plan(fs, FALSE).total_blocks <= PerLevel2 BY DEF Plannable
  <2> QED BY <1>3, <2>1, <2>2
<1> HIDE DEF l
<1>5. N \in Nat /\ DOMAIN nodes = 1 .. N BY <1>2, LenProperties DEF NodeLists
<1> HIDE DEF nodes, N
<1>6. tb \in Nat /\ tb >= 1
  <2>1. CeilDiv(N, EntriesPerBlock) \in Nat BY <1>5, LayoutAssumption, CeilIsNat
  <2> DEFINE c == CeilDiv(N, EntriesPerBlock)
  <2> HIDE DEF c
  <2>2. Max({c, 1}) = IF 1 <= c THEN c ELSE 1 BY <2>1, MaxPair DEF c
  <2> QED BY <2>1, <2>2 DEF c
<1> HIDE DEF tb
<1>7. PICK S : /\ IsFree(S, nodes)
               /\ \A n \in 1 .. Len(nodes) + 1 : \A t \in Nat :
                    FirstFreeBlock(nodes, n, t) = t + S[n - 1]
  BY <1>2, FreeBlocks
<1>8. S \in [0 .. N -> Nat] BY <1>7 DEF IsFree, N
<1>9. ASSUME NEW n \in 1 .. N + 1
      PROVE  FirstFreeBlock(nodes, n, tb) \in Nat /\ FirstFreeBlock(nodes, n, tb) >= tb
  <2>1. n - 1 \in 0 .. N /\ n \in 1 .. Len(nodes) + 1 BY <1>5 DEF N
  <2>2. FirstFreeBlock(nodes, n, tb) = tb + S[n - 1] /\ S[n - 1] \in Nat BY <1>6, <1>7, <1>8, <2>1
  <2> QED BY <1>6, <2>2
<1>10. PerLevel2 \in Nat BY Sizes DEF PerLevel2, E
<1>11. l.total_blocks \in 1 .. PerLevel2 /\ l.file_table_block_count \in 1 .. l.total_blocks
  <2>1. N + 1 \in 1 .. N + 1 BY <1>5
  <2> QED BY <1>3, <1>4, <1>6, <1>9, <1>10, <2>1
<1>12. l.header_blocks \in Nat \ {0} BY <1>3, LayoutAssumption
<1>13. ASSUME NEW n \in 1 .. N
    PROVE  l.entries[n].starting_block_num \in Nat
  <2>1. l.entries[n].starting_block_num =
      IF nodes[n].is_directory THEN 0 ELSE FirstFreeBlock(nodes, n, tb)
    BY <1>3, <1>5 DEF PlannedEntries
  <2>2. n \in 1 .. N + 1 BY <1>5
  <2> QED BY <1>9, <2>1, <2>2
<1>14. HasLen(l.entries, N)
  <2>1. DOMAIN l.entries = 1 .. N BY <1>3, <1>5 DEF PlannedEntries
  <2>2. l.entries = [n \in 1 .. N |-> l.entries[n]] BY <1>3, <1>5 DEF PlannedEntries
  <2> QED BY <1>5, <2>2 DEF HasLen
<1>15. Len(l.entries) = N BY <1>14, SequenceLength
<1>16. LayoutOK(l) BY <1>3, <1>11, <1>12, <1>13, <1>14, <1>15 DEF LayoutOK
<1> QED BY <1>16 DEF l

-----------------------------------------------------------------------------
(* The invariant of a session.                                               *)

TotalBlocks == layout.total_blocks
HeaderBlocks == layout.header_blocks

Planned ==
  /\ files \in Listings
  /\ Plannable(files)
  /\ \E inst \in BOOLEAN : layout = Plan(files, inst)

\* The cursor is between the block before block_num and block_num.
CursorsOK ==
  /\ signed \in BOOLEAN
  /\ phase \in {"Header", "Body", "Done"}
  /\ pc \in {"hashing", "streaming", "failed"}
  /\ failures \in 0 .. MaxFailures
  /\ block_num \in 0 .. TotalBlocks
  /\ physical_cursor \in Nat
  /\ From(block_num) <= physical_cursor
  /\ block_num < TotalBlocks => physical_cursor <= BackingDataBlock(block_num)
  /\ block_num = TotalBlocks => physical_cursor = From(TotalBlocks)
  /\ phase = "Done" => block_num = TotalBlocks
  /\ phase = "Header" => physical_cursor = 0 /\ block_num = 0
  /\ pc = "hashing" => phase = "Header"
  /\ pc = "streaming" \/ phase # "Header" => hashing_done

\* What has been handed over is as long as the cursor says, or shorter by what
\* a call that threw was making.
LengthOK ==
  /\ HasLen(emitted, Len(emitted))
  /\ phase = "Header" => spoiled_at = Whole /\ Len(emitted) = 0
  /\ phase # "Header" /\ spoiled_at = Whole => Len(emitted) = HeaderBlocks + physical_cursor
  /\ spoiled_at # Whole =>
       /\ spoiled_at \in 0 .. Len(emitted)
       /\ Len(emitted) < HeaderBlocks + physical_cursor

\* Table t of level 0 when the first k blocks are hashed.
TableAfter(t, k) ==
  Table([i \in Locals |-> IF t * E + i < k
           THEN Record(Digest(Content(t * E + i)), 128, NextBlock(layout, t * E + i))
           ELSE Record(NoDigest, 0, 0)], 0)

TableCount == CeilDiv(TotalBlocks, E)
TablesAfter(k) == [t \in 0 .. TableCount - 1 |-> TableAfter(t, k)]
WholeTree == Finish(layout.top_level, TotalBlocks, TablesAfter(TotalBlocks))

HashOK ==
  /\ hashing_done \in BOOLEAN
  /\ next_hash_block \in 0 .. TotalBlocks
  /\ ~hashing_done =>
       /\ signed
       /\ next_hash_block < TotalBlocks
       /\ level0_tables = TablesAfter(next_hash_block)
       /\ hash_tree = NoTree
  /\ hashing_done =>
       /\ level0_tables = <<>>
       /\ signed => hash_tree = WholeTree
       /\ ~signed => hash_tree = NoTree

\* What a reader needs of any block.
GoodBlock(block) ==
  /\ block.kind \in {"header", "padding", "listing", "data", "table"}
  /\ block.kind = "table" =>
       \A i \in Locals : /\ block.records[i].next_block \in Nat
                         /\ block.records[i].status \in {0, 128}
  /\ block.kind = "listing" =>
       \A n \in DOMAIN block.slots : block.slots[n].starting_block_num \in Nat

BlocksOK == \A i \in 1 .. Len(emitted) : GoodBlock(emitted[i])

\* The block at address a, of those from the block before block n to block n.
BlockFor(n, a) ==
  LET at_level1 == layout.top_level # 0 /\ a = BackingLevel1(n)
      at_level2 == layout.top_level = 2 /\ a = BackingLevel2
  IN IF a >= BackingDataBlock(n) THEN Content(n)
     ELSE IF at_level1 \/ at_level2 THEN UpperTable(at_level2 \/ layout.top_level = 1, n)
     ELSE Level0Table(n)

Descriptor ==
  [kind |-> "header", header_blocks |-> layout.header_blocks,
   file_table_block_count |-> layout.file_table_block_count, file_table_block_num |-> 0,
   allocated_block_count |-> layout.total_blocks, top_hash_table_hash |-> hash_tree.top_hash]

\* Everything is where the walk puts it.
PlacedOK ==
  phase # "Header" /\ spoiled_at = Whole =>
    /\ emitted[1] = Descriptor
    /\ \A n \in 0 .. block_num : \A a \in From(n) .. BackingDataBlock(n) :
         n < block_num \/ a < physical_cursor =>
           /\ a < physical_cursor
           /\ emitted[HeaderBlocks + a + 1] = BlockFor(n, a)

WInv == Planned /\ CursorsOK /\ LengthOK /\ HashOK /\ BlocksOK /\ PlacedOK

LEMMA PlannedLayout == Planned => LayoutOK(layout)
BY PlanLayout DEF Planned

\* Blocks follow each other.
LEMMA BackingMonotonic ==
  ASSUME NEW m \in Nat, NEW n \in Nat, m <= n
  PROVE  BackingDataBlock(m) <= BackingDataBlock(n) /\ (m < n => BackingDataBlock(m) < From(n))
<1> DEFINE D == {d \in Nat : BackingDataBlock(m) <= BackingDataBlock(m + d)
                             /\ (d # 0 => BackingDataBlock(m) < From(m + d))}
<1>1. 0 \in D
  <2>1. m + 0 = m /\ BackingDataBlock(m) \in Nat BY Gaps
  <2> QED BY <2>1
<1>2. ASSUME NEW d \in Nat, d \in D PROVE d + 1 \in D
  <2> DEFINE k == m + d
  <2>1. k \in Nat /\ m + (d + 1) = k + 1 /\ (k + 1) - 1 = k /\ k + 1 # 0 /\ k + 1 \in Nat BY <1>2
  <2>2. BackingDataBlock(m) <= BackingDataBlock(k) BY <1>2
  <2> HIDE DEF k
  <2>3. From(k + 1) = BackingDataBlock(k) + 1 BY <2>1 DEF From
  <2>4. From(k + 1) <= BackingDataBlock(k + 1) /\ BackingDataBlock(k + 1) \in Nat
        /\ BackingDataBlock(k) \in Nat /\ BackingDataBlock(m) \in Nat
    BY <2>1, Gaps
  <2>5. BackingDataBlock(m) <= BackingDataBlock(k + 1) /\ BackingDataBlock(m) < From(k + 1)
    BY <2>2, <2>3, <2>4
  <2> QED BY <2>1, <2>5
<1> HIDE DEF D
<1>3. Nat \subseteq D BY <1>1, <1>2, NatInduct
<1>4. n - m \in Nat /\ m + (n - m) = n OBVIOUS
<1>5. n - m \in D /\ (m < n => n - m # 0) BY <1>3, <1>4
<1> QED BY <1>4, <1>5 DEF D

-----------------------------------------------------------------------------
(* What stays as it is.                                                      *)

LEMMA ContentSame ==
  ASSUME layout' = layout, NEW b
  PROVE  Content(b)' = Content(b)
BY DEF Content, InFileTable, FileTableBlock, DataBlock

LEMMA TablesSame ==
  ASSUME layout' = layout, NEW k
  PROVE  TablesAfter(k)' = TablesAfter(k)
<1>1. \A b : Content(b)' = Content(b) BY ContentSame
<1>2. \A t : TableAfter(t, k)' = TableAfter(t, k) BY <1>1 DEF TableAfter
<1> QED BY <1>2 DEF TablesAfter, TableCount, TotalBlocks

LEMMA TreeSame ==
  ASSUME layout' = layout
  PROVE  WholeTree' = WholeTree
<1>1. TablesAfter(TotalBlocks)' = TablesAfter(TotalBlocks)
  <2> DEFINE k == TotalBlocks
  <2>1. k' = k BY DEF TotalBlocks
  <2>2. \A b : Content(b)' = Content(b) BY ContentSame
  <2>3. \A t : TableAfter(t, k)' = TableAfter(t, k) BY <2>1, <2>2 DEF TableAfter
  <2> QED BY <2>1, <2>3 DEF TablesAfter, TableCount, TotalBlocks
<1> QED BY <1>1 DEF WholeTree, TotalBlocks

LEMMA BlockForSame ==
  ASSUME layout' = layout, hash_tree' = hash_tree, NEW n, NEW a
  PROVE  BlockFor(n, a)' = BlockFor(n, a)
<1>1. Content(n)' = Content(n) BY ContentSame
<1>2. Level0Table(n)' = Level0Table(n) BY DEF Level0Table
<1>3. \A top : UpperTable(top, n)' = UpperTable(top, n) BY DEF UpperTable
<1> QED BY <1>1, <1>2, <1>3 DEF BlockFor

-----------------------------------------------------------------------------
(* The tables of a session.                                                  *)

LEMMA CeilBounds ==
  ASSUME NEW a \in Nat \ {0}, NEW b \in Nat \ {0}
  PROVE  /\ CeilDiv(a, b) \in Nat \ {0}
         /\ a <= CeilDiv(a, b) * b
         /\ (CeilDiv(a, b) - 1) * b < a
<1> DEFINE c == (a + b - 1) \div b
<1>1. a + b - 1 \in Nat OBVIOUS
<1>2. c \in Nat /\ c * b <= a + b - 1 /\ a + b - 1 < c * b + b BY <1>1, DivMod, DivBounds
<1> HIDE DEF c
<1>3. c * b \in Nat /\ (c - 1) * b = c * b - b BY <1>2
<1>4. c # 0
  <2>1. c = 0 => c * b = 0 OBVIOUS
  <2> QED BY <1>2, <2>1
<1>5. c \in Nat \ {0} /\ a <= c * b /\ (c - 1) * b < a BY <1>2, <1>3, <1>4
<1> QED BY <1>5 DEF c, CeilDiv

LEMMA CeilAbove ==
  ASSUME NEW x \in Nat, NEW n \in Nat \ {0}, NEW d \in Nat \ {0}, x < n
  PROVE  x \div d < CeilDiv(n, d)
<1> DEFINE q == x \div d
           c == CeilDiv(n, d)
<1>1. q \in Nat /\ q * d <= x BY DivMod, DivBounds
<1>2. c \in Nat /\ n <= c * d BY CeilBounds
<1> HIDE DEF q, c
<1>3. c <= q => c * d <= q * d BY <1>1, <1>2, MultMonotonic
<1>4. q * d \in Nat /\ c * d \in Nat BY <1>1, <1>2
<1>5. q < c BY <1>1, <1>2, <1>3, <1>4
<1> QED BY <1>5 DEF q, c

LEMMA CeilAtMost ==
  ASSUME NEW n \in Nat \ {0}, NEW d \in Nat \ {0}, NEW m \in Nat, n <= m * d
  PROVE  CeilDiv(n, d) <= m
<1> DEFINE c == CeilDiv(n, d)
<1>1. c \in Nat \ {0} /\ (c - 1) * d < n BY CeilBounds
<1> HIDE DEF c
<1>2. m <= c - 1 => m * d <= (c - 1) * d
  <2>1. c - 1 \in Nat BY <1>1
  <2> QED BY <2>1, MultMonotonic
<1>3. (c - 1) * d \in Nat /\ m * d \in Nat BY <1>1
<1>4. c <= m BY <1>1, <1>2, <1>3
<1> QED BY <1>4 DEF c

\* How many tables there are.
LEMMA TableCounts ==
  ASSUME Planned
  PROVE  /\ TotalBlocks \in Nat \ {0}
         /\ TableCount \in Nat \ {0}
         /\ CeilDiv(TableCount, E) \in Nat \ {0}
         /\ layout.top_level \in {0, 1, 2}
         /\ layout.top_level = TopLevel(TotalBlocks)
         /\ layout.top_level = 0 => TotalBlocks <= E
         /\ layout.top_level = 1 => TotalBlocks <= PerLevel1 /\ TableCount <= E
         /\ layout.top_level = 2 => CeilDiv(TableCount, E) <= E
         /\ \A b \in 0 .. TotalBlocks - 1 :
              /\ Table0(b) \in 0 .. TableCount - 1
              /\ Table1(b) \in 0 .. CeilDiv(TableCount, E) - 1
<1> DEFINE T == TotalBlocks
           c == TableCount
           d == CeilDiv(c, E)
<1>1. LayoutOK(layout) /\ E \in Nat \ {0} /\ PerLevel1 = E * E /\ PerLevel1 \in Nat
  BY PlannedLayout, Sizes
<1>2. PerLevel2 = E * PerLevel1 /\ PerLevel2 = (E * E) * E BY <1>1 DEF PerLevel2, E
<1>3. T \in Nat \ {0} /\ T <= PerLevel2 /\ layout.top_level = TopLevel(T)
  BY <1>1 DEF LayoutOK, TotalBlocks
<1> HIDE DEF T
<1>4. c \in Nat \ {0} /\ T <= c * E /\ (c - 1) * E < T
  <2>1. c = CeilDiv(T, E) BY DEF TableCount, T
  <2> QED BY <1>1, <1>3, <2>1, CeilBounds
<1> HIDE DEF c
<1>5. d \in Nat \ {0} BY <1>1, <1>4, CeilBounds
<1>6. /\ layout.top_level \in {0, 1, 2}
      /\ layout.top_level = 0 => T <= E
      /\ layout.top_level = 1 => T <= PerLevel1
  BY <1>1, <1>3 DEF TopLevel, E
<1>7. T <= PerLevel1 => c <= E
  <2>1. c = CeilDiv(T, E) BY DEF TableCount, T, c
  <2> QED BY <1>1, <1>3, <2>1, CeilAtMost
<1>8. d <= E
  <2>1. E * E \in Nat BY <1>1
  <2>2. c <= E * E
    <3>1. c = CeilDiv(T, E) BY DEF TableCount, T, c
    <3>2. T <= (E * E) * E BY <1>2, <1>3
    <3> DEFINE m == E * E
    <3> HIDE DEF m
    <3>3. m \in Nat /\ T <= m * E BY <2>1, <3>2 DEF m
    <3>4. CeilDiv(T, E) <= m BY <1>1, <1>3, <3>3, CeilAtMost
    <3> QED BY <3>1, <3>4 DEF m
  <2>3. CeilDiv(c, E) <= E BY <1>1, <1>4, <2>2, CeilAtMost
  <2> QED BY <2>3
<1>9. ASSUME NEW b \in 0 .. T - 1
      PROVE  Table0(b) \in 0 .. c - 1 /\ Table1(b) \in 0 .. d - 1
  <2>1. b \in Nat /\ b < T BY <1>3
  <2>2. Table0(b) \in Nat /\ Table1(b) \in Nat /\ Table0(b) \div E = Table1(b) BY <2>1, Coordinates
  <2>3. b \div E < CeilDiv(T, E) BY <1>1, <1>3, <2>1, CeilAbove
  <2>4. Table0(b) < c BY <2>3 DEF Table0, c, TableCount, T
  <2>5. Table0(b) \div E < d BY <1>1, <1>4, <2>2, <2>4, CeilAbove
  <2> HIDE DEF d
  <2> QED BY <1>4, <1>5, <2>2, <2>4, <2>5
<1> QED BY <1>3, <1>4, <1>5, <1>6, <1>7, <1>8, <1>9 DEF T, c

LEMMA CountOfUpTo ==
  ASSUME NEW n \in Nat
  PROVE  Cardinality(0 .. n - 1) = n
<1>1. Cardinality(0 .. n - 1) = IF 0 > n - 1 THEN 0 ELSE n - 1 - 0 + 1 BY FS_Interval
<1> QED BY <1>1

\* The tree of a signed session.
LEMMA WholeTreeFacts ==
  ASSUME Planned
  PROVE  /\ WholeTree.top_hash = Digest(WholeTree.top)
         /\ WholeTree # NoTree
         /\ layout.top_level = 0 => WholeTree.top = TableAfter(0, TotalBlocks)
         /\ layout.top_level # 0 => WholeTree.level0 = TablesAfter(TotalBlocks)
         /\ layout.top_level = 1 =>
              WholeTree.top = RollUp(TablesAfter(TotalBlocks), 0, TableCount, TotalBlocks)
         /\ layout.top_level = 2 =>
              /\ WholeTree.level1 = Level1(TablesAfter(TotalBlocks), TotalBlocks)
              /\ WholeTree.top = RollUp(Level1(TablesAfter(TotalBlocks), TotalBlocks), 0,
                                        CeilDiv(TableCount, E), TotalBlocks)
<1> DEFINE T == TotalBlocks
           c == TableCount
           tables == TablesAfter(T)
           level1 == Level1(tables, T)
<1>1. T \in Nat \ {0} /\ c \in Nat \ {0} /\ CeilDiv(c, E) \in Nat \ {0}
      /\ layout.top_level \in {0, 1, 2}
  BY TableCounts
<1>2. DOMAIN tables = 0 .. c - 1 BY DEF TablesAfter
<1>3. Cardinality(DOMAIN tables) = c BY <1>1, <1>2, CountOfUpTo
<1>4. tables[0] = TableAfter(0, T)
  <2>1. 0 \in 0 .. c - 1 BY <1>1
  <2> QED BY <2>1 DEF TablesAfter
<1> HIDE DEF tables, T, c
<1>5. DOMAIN level1 = 0 .. CeilDiv(c, E) - 1 BY <1>3 DEF Level1, E
<1>6. Cardinality(DOMAIN level1) = CeilDiv(c, E) BY <1>1, <1>5, CountOfUpTo
<1> HIDE DEF level1
<1>7. WholeTree =
    CASE layout.top_level = 0 -> Tree(<<>>, <<>>, tables[0])
      [] layout.top_level = 1 -> Tree(tables, <<>>, RollUp(tables, 0, c, T))
      [] layout.top_level = 2 -> Tree(tables, level1, RollUp(level1, 0, CeilDiv(c, E), T))
  BY <1>3, <1>6 DEF WholeTree, Finish, tables, T, level1
<1>8. CASE layout.top_level = 0
  <2>1. WholeTree = Tree(<<>>, <<>>, tables[0]) BY <1>7, <1>8
  <2>2. WholeTree.top = tables[0] /\ WholeTree.top_hash = Digest(WholeTree.top) BY <2>1 DEF Tree
  <2>3. WholeTree # NoTree BY <2>2 DEF Digest, NoTree, NoDigest
  <2> QED BY <1>4, <1>8, <2>2, <2>3 DEF T
<1>9. CASE layout.top_level = 1
  <2>1. WholeTree = Tree(tables, <<>>, RollUp(tables, 0, c, T)) BY <1>7, <1>9
  <2>2. /\ WholeTree.top = RollUp(tables, 0, c, T) /\ WholeTree.level0 = tables
        /\ WholeTree.top_hash = Digest(WholeTree.top)
    BY <2>1 DEF Tree
  <2>3. WholeTree # NoTree BY <2>2 DEF Digest, NoTree, NoDigest
  <2> QED BY ONLY <1>9, <2>2, <2>3 DEF T, tables, c
<1>10. CASE layout.top_level = 2
  <2>1. WholeTree = Tree(tables, level1, RollUp(level1, 0, CeilDiv(c, E), T)) BY <1>7, <1>10
  <2>2. /\ WholeTree.top = RollUp(level1, 0, CeilDiv(c, E), T)
        /\ WholeTree.level0 = tables /\ WholeTree.level1 = level1
        /\ WholeTree.top_hash = Digest(WholeTree.top)
    BY <2>1 DEF Tree
  <2>3. WholeTree # NoTree BY <2>2 DEF Digest, NoTree, NoDigest
  <2> QED BY ONLY <1>10, <2>2, <2>3 DEF T, tables, c, level1
<1> QED BY <1>1, <1>8, <1>9, <1>10

-----------------------------------------------------------------------------
(* Every block is one a reader can handle.                                   *)

LEMMA NextBlockIsNat ==
  ASSUME NEW b \in Nat
  PROVE  NextBlock(layout, b) \in Nat
BY DEF NextBlock, EndOfChain

LEMMA TableGood ==
  ASSUME NEW records, NEW blocks_hashed,
         \A i \in Locals : records[i].next_block \in Nat /\ records[i].status \in {0, 128}
  PROVE  GoodBlock(Table(records, blocks_hashed))
BY DEF GoodBlock, Table

LEMMA TableAfterGood ==
  ASSUME NEW t \in Nat, NEW k \in Nat
  PROVE  GoodBlock(TableAfter(t, k))
<1> DEFINE R(i) == IF t * E + i < k
                   THEN Record(Digest(Content(t * E + i)), 128, NextBlock(layout, t * E + i))
                   ELSE Record(NoDigest, 0, 0)
           records == [i \in Locals |-> R(i)]
<1>1. ASSUME NEW i \in Locals
      PROVE  R(i).next_block \in Nat /\ R(i).status \in {0, 128}
  <2> DEFINE b == t * E + i
  <2>1. b \in Nat BY Sizes DEF Locals, E
  <2> HIDE DEF b
  <2>2. NextBlock(layout, b) \in Nat BY <2>1, NextBlockIsNat
  <2>3. R(i) = IF b < k THEN Record(Digest(Content(b)), 128, NextBlock(layout, b))
      ELSE Record(NoDigest, 0, 0)
    BY DEF b
  <2> HIDE DEF R
  <2> QED BY <2>2, <2>3 DEF Record
<1>2. \A i \in Locals : records[i] = R(i) OBVIOUS
<1>3. TableAfter(t, k) = Table(records, 0) BY DEF TableAfter
<1> HIDE DEF R, records
<1>4. \A i \in Locals : records[i].next_block \in Nat /\ records[i].status \in {0, 128} BY <1>1, <1>2
<1> QED BY <1>3, <1>4, TableGood

LEMMA RollUpGood ==
  ASSUME NEW tables, NEW first, NEW n, NEW blocks_hashed
  PROVE  GoodBlock(RollUp(tables, first, n, blocks_hashed))
<1> DEFINE records == [i \in Locals |->
                         IF i < n THEN Record(Digest(tables[first + i]), 128, 0)
                         ELSE Record(NoDigest, 0, 0)]
<1>1. \A i \in Locals : records[i].next_block \in Nat /\ records[i].status \in {0, 128} BY DEF Record
<1>2. RollUp(tables, first, n, blocks_hashed) = Table(records, blocks_hashed) BY DEF RollUp
<1> QED BY <1>1, <1>2, TableGood

LEMMA BlankGood == GoodBlock(BlankTable)
BY TableGood DEF BlankTable, Record

LEMMA ContentGood ==
  ASSUME Planned, NEW b \in Nat
  PROVE  GoodBlock(Content(b))
<1>1. CASE ~InFileTable(b) BY <1>1 DEF Content, DataBlock, GoodBlock
<1>2. CASE InFileTable(b)
  <2> DEFINE start == b * EntriesPerBlock
             N == Len(layout.entries)
             stop == Min({start + EntriesPerBlock, N})
             S(i) == Slot(layout.entries[start + i])
             slots == [i \in 1 .. stop - start |-> S(i)]
  <2>1. /\ EntriesPerBlock \in Nat /\ start \in Nat /\ N \in Nat
        /\ \A n \in 1 .. N : layout.entries[n].starting_block_num \in Nat
    BY PlannedLayout, LayoutAssumption DEF LayoutOK, HasLen
  <2>2. stop \in Int /\ stop <= N
    <3> HIDE DEF start, N
    <3>1. Min({start + EntriesPerBlock, N}) =
        IF start + EntriesPerBlock <= N THEN start + EntriesPerBlock ELSE N
      BY <2>1, MinPair
    <3> QED BY <2>1, <3>1
  <2>3. Content(b) = [kind |-> "listing", slots |-> slots] BY <1>2 DEF Content, FileTableBlock
  <2>4. \A i \in 1 .. stop - start : S(i).starting_block_num =
      layout.entries[start + i].starting_block_num
    BY DEF Slot
  <2> HIDE DEF start, stop, N, S
  <2>5. \A i \in 1 .. stop - start : start + i \in 1 .. N BY <2>1, <2>2
  <2>6. \A i \in DOMAIN slots : slots[i].starting_block_num \in Nat BY <2>1, <2>4, <2>5
  <2> HIDE DEF slots
  <2> QED BY <2>3, <2>6 DEF GoodBlock
<1> QED BY <1>1, <1>2

LEMMA Level0Good ==
  ASSUME Planned, HashOK, hashing_done, NEW b \in 0 .. TotalBlocks - 1
  PROVE  GoodBlock(Level0Table(b))
<1>0. /\ TotalBlocks \in Nat \ {0} /\ b \in Nat /\ layout.top_level \in {0, 1, 2}
      /\ Table0(b) \in 0 .. TableCount - 1 /\ Table0(b) \in Nat
  <2>1. TotalBlocks \in Nat \ {0} /\ layout.top_level \in {0, 1, 2}
        /\ Table0(b) \in 0 .. TableCount - 1 /\ TableCount \in Nat
    BY TableCounts
  <2> QED BY <2>1
<1>1. CASE hash_tree # NoTree
  <2>1. hash_tree = WholeTree BY <1>1 DEF HashOK
  <2>2. CASE layout.top_level = 0
    <3>1. Level0Table(b) = TableAfter(0, TotalBlocks) BY <1>1, <2>1, <2>2, WholeTreeFacts DEF Level0Table
    <3> QED BY <1>0, <3>1, TableAfterGood
  <2>3. CASE layout.top_level # 0
    <3>1. Level0Table(b) = TablesAfter(TotalBlocks)[Table0(b)]
      BY <1>1, <2>1, <2>3, WholeTreeFacts DEF Level0Table, Table0, E
    <3>2. TablesAfter(TotalBlocks)[Table0(b)] = TableAfter(Table0(b), TotalBlocks) BY <1>0 DEF TablesAfter
    <3> QED BY <1>0, <3>1, <3>2, TableAfterGood
  <2> QED BY <2>2, <2>3
<1>2. CASE hash_tree = NoTree
  <2> DEFINE start == Table0(b) * E
             R(i) == IF start + i < layout.total_blocks
                     THEN Record(NoDigest, 128, NextBlock(layout, start + i))
                     ELSE Record(NoDigest, 0, 0)
             records == [i \in Locals |-> R(i)]
  <2>1. Level0Table(b) = Table(records, 0) BY <1>2 DEF Level0Table, Table0, E
  <2>2. start \in Nat BY <1>0, Coordinates
  <2> HIDE DEF start
  <2>3. ASSUME NEW i \in Locals
        PROVE  R(i).next_block \in Nat /\ R(i).status \in {0, 128}
    <3>1. start + i \in Nat BY <2>2, Sizes DEF Locals, E
    <3>2. NextBlock(layout, start + i) \in Nat BY <3>1, NextBlockIsNat
    <3> QED BY <3>2 DEF Record
  <2>4. \A i \in Locals : records[i] = R(i) OBVIOUS
  <2> HIDE DEF records, R
  <2>5. \A i \in Locals : records[i].next_block \in Nat /\ records[i].status \in {0, 128} BY <2>3, <2>4
  <2> QED BY <2>1, <2>5, TableGood
<1> QED BY <1>1, <1>2

LEMMA UpperGood ==
  ASSUME Planned, HashOK, hashing_done, NEW b \in 0 .. TotalBlocks - 1,
         NEW at_top \in BOOLEAN, layout.top_level # 0, ~at_top => layout.top_level = 2
  PROVE  GoodBlock(UpperTable(at_top, b))
<1>0. /\ layout.top_level \in {0, 1, 2}
      /\ Table1(b) \in 0 .. CeilDiv(TableCount, E) - 1
  BY TableCounts
<1>1. CASE hash_tree = NoTree BY <1>1, BlankGood DEF UpperTable
<1>2. CASE hash_tree # NoTree
  <2>1. hash_tree = WholeTree BY <1>2 DEF HashOK
  <2>2. CASE at_top
    <3>1. UpperTable(at_top, b) = WholeTree.top BY <1>2, <2>1, <2>2 DEF UpperTable
    <3>2. layout.top_level = 1 \/ layout.top_level = 2 BY <1>0
    <3> QED BY <3>1, <3>2, WholeTreeFacts, RollUpGood
  <2>3. CASE ~at_top
    <3> DEFINE tables == TablesAfter(TotalBlocks)
               count == Cardinality(DOMAIN tables)
               j == Table1(b)
    <3>1. UpperTable(at_top, b) = Level1(tables, TotalBlocks)[j]
      BY <1>2, <2>1, <2>3, WholeTreeFacts DEF UpperTable, Table1
    <3>2. count = TableCount
      <4>1. DOMAIN tables = 0 .. TableCount - 1 /\ TableCount \in Nat BY TableCounts DEF TablesAfter
      <4> QED BY <4>1, CountOfUpTo
    <3> HIDE DEF tables, j
    <3>3. j \in 0 .. CeilDiv(count, EntriesPerTable) - 1 BY <1>0, <3>2 DEF j, E
    <3> HIDE DEF count
    <3>4. PICK first, n, h : Level1(tables, TotalBlocks)[j] = RollUp(tables, first, n, h)
      BY <3>3 DEF Level1, count
    <3> QED BY <3>1, <3>4, RollUpGood
  <2> QED BY <2>2, <2>3
<1> QED BY <1>1, <1>2

LEMMA BlockForGood ==
  ASSUME Planned, HashOK, hashing_done, NEW n \in 0 .. TotalBlocks - 1, NEW a
  PROVE  GoodBlock(BlockFor(n, a))
<1> DEFINE at_level1 == layout.top_level # 0 /\ a = BackingLevel1(n)
           at_level2 == layout.top_level = 2 /\ a = BackingLevel2
<1>1. n \in Nat BY TableCounts
<1>2. CASE a >= BackingDataBlock(n) BY <1>1, <1>2, ContentGood DEF BlockFor
<1>3. CASE ~(a >= BackingDataBlock(n)) /\ (at_level1 \/ at_level2)
  <2>1. BlockFor(n, a) = UpperTable(at_level2 \/ layout.top_level = 1, n) BY <1>3 DEF BlockFor
  <2>2. layout.top_level # 0 /\ (~(at_level2 \/ layout.top_level = 1) => layout.top_level = 2)
    BY <1>3, TableCounts
  <2>3. (at_level2 \/ layout.top_level = 1) \in BOOLEAN OBVIOUS
  <2> DEFINE at_top == at_level2 \/ layout.top_level = 1
  <2> HIDE DEF at_top
  <2>4. at_top \in BOOLEAN /\ layout.top_level # 0 /\ (~at_top => layout.top_level = 2)
    BY <2>2, <2>3 DEF at_top
  <2>5. GoodBlock(UpperTable(at_top, n)) BY <2>4, UpperGood
  <2> QED BY <2>1, <2>5 DEF at_top
<1>4. CASE ~(a >= BackingDataBlock(n)) /\ ~(at_level1 \/ at_level2) BY <1>4, Level0Good DEF BlockFor
<1> QED BY <1>2, <1>3, <1>4

-----------------------------------------------------------------------------
(* Hashing.                                                                  *)

\* A block goes to its place in its table.
LEMMA HashBlockStep ==
  ASSUME Planned, NEW k \in 0 .. TotalBlocks - 1
  PROVE  HashBlock(TablesAfter(k), k, Content(k), NextBlock(layout, k)) = TablesAfter(k + 1)
<1> DEFINE t0 == k \div E
           i0 == k % E
           r == Record(Digest(Content(k)), 128, NextBlock(layout, k))
           R(t, i, n) == IF t * E + i < n
                         THEN Record(Digest(Content(t * E + i)), 128, NextBlock(layout, t * E + i))
                         ELSE Record(NoDigest, 0, 0)
           D == 0 .. TableCount - 1
           tables == TablesAfter(k)
<1>1. k \in Nat /\ k + 1 \in Nat /\ E \in Nat \ {0} /\ Locals = 0 .. E - 1
  BY TableCounts, Sizes DEF Locals, E
<1>2. t0 \in D /\ t0 \in Nat /\ i0 \in Locals /\ k = t0 * E + i0
  <2>1. Table0(k) \in 0 .. TableCount - 1 BY TableCounts
  <2> QED BY <1>1, <2>1, DivMod DEF Table0
<1>3. D \subseteq Nat BY TableCounts
<1>4. ASSUME NEW t \in D, NEW i \in Locals
      PROVE  /\ t * E + i \in Nat
             /\ t * E + i = k => t = t0 /\ i = i0
  <2>1. t \in Nat /\ i \in 0 .. E - 1 BY <1>1, <1>3
  <2>2. t * E \in Nat /\ t * E + i \in Nat BY <1>1, <2>1
  <2>3. t * E + i = k => k \div E = t /\ k % E = k - t * E
    <3> SUFFICES ASSUME t * E + i = k PROVE k \div E = t /\ k % E = k - t * E OBVIOUS
    <3>1. t * E <= k /\ k < t * E + E BY <1>1, <2>1, <2>2
    <3> QED BY <1>1, <2>1, <3>1, DivUnique
  <2> QED BY <1>1, <2>1, <2>2, <2>3
<1> HIDE DEF t0, i0
<1>5. ASSUME NEW t \in D, NEW i \in Locals
      PROVE  R(t, i, k + 1) = IF t = t0 /\ i = i0 THEN r ELSE R(t, i, k)
  <2> DEFINE b == t * E + i
  <2>1. b \in Nat /\ (b = k <=> t = t0 /\ i = i0) BY <1>2, <1>4
  <2>2. /\ R(t, i, k + 1) = IF b < k + 1 THEN Record(Digest(Content(b)), 128, NextBlock(layout, b))
                            ELSE Record(NoDigest, 0, 0)
        /\ R(t, i, k) = IF b < k THEN Record(Digest(Content(b)), 128, NextBlock(layout, b))
                        ELSE Record(NoDigest, 0, 0)
    OBVIOUS
  <2> HIDE DEF b, R
  <2>3. b < k + 1 <=> b < k \/ b = k BY <1>1, <2>1
  <2> QED BY <2>1, <2>2, <2>3
<1>6. \A t \in D : \A n \in {k, k + 1} :
    TableAfter(t, n) = Table([i \in Locals |-> R(t, i, n)], 0)
  BY DEF TableAfter
<1>7. tables = [t \in D |-> TableAfter(t, k)] BY DEF TablesAfter
<1>8. HashBlock(tables, k, Content(k), NextBlock(layout, k))
    = [tables EXCEPT ![t0].records[i0] = r]
  BY DEF HashBlock, t0, i0, E
<1> HIDE DEF r, D, R, tables
<1>9. [tables EXCEPT ![t0].records[i0] = r]
    = [t \in D |-> IF t = t0 THEN [tables[t] EXCEPT !.records[i0] = r] ELSE tables[t]]
  BY <1>2, <1>7
<1>10. ASSUME NEW t \in D
    PROVE  (IF t = t0 THEN [tables[t] EXCEPT !.records[i0] = r] ELSE tables[t])
             = TableAfter(t, k + 1)
  <2> DEFINE old == [i \in Locals |-> R(t, i, k)]
             new == [i \in Locals |-> R(t, i, k + 1)]
  <2>1. tables[t] = Table(old, 0) /\ TableAfter(t, k + 1) = Table(new, 0) BY <1>6, <1>7
  <2>2. \A i \in Locals : new[i] = IF t = t0 /\ i = i0 THEN r ELSE old[i] BY <1>5
  <2>3. old = [i \in Locals |-> old[i]] /\ new = [i \in Locals |-> new[i]] OBVIOUS
  <2> HIDE DEF old, new
  <2>4. CASE t = t0
    <3>1. [old EXCEPT ![i0] = r] = [i \in Locals |-> IF i = i0 THEN r ELSE old[i]] BY <1>2, <2>3
    <3>2. [old EXCEPT ![i0] = r] = new BY <2>2, <2>3, <2>4, <3>1
    <3>3. [Table(old, 0) EXCEPT !.records[i0] = r] = Table([old EXCEPT ![i0] = r], 0) BY DEF Table
    <3> QED BY <2>1, <2>4, <3>2, <3>3
  <2>5. CASE t # t0
    <3>1. old = new BY <2>2, <2>3, <2>5
    <3> QED BY <2>1, <2>5, <3>1
  <2> QED BY <2>4, <2>5
<1>11. TablesAfter(k + 1) = [t \in D |-> TableAfter(t, k + 1)] BY DEF TablesAfter, D
<1>12. HashBlock(tables, k, Content(k), NextBlock(layout, k)) = TablesAfter(k + 1)
  BY <1>8, <1>9, <1>10, <1>11
<1> QED BY <1>12 DEF tables

\* The hasher begins with blank tables.
LEMMA TablesBegin ==
  ASSUME Planned
  PROVE  NewTables(layout.total_blocks) = TablesAfter(0)
<1>1. ASSUME NEW t \in 0 .. TableCount - 1
      PROVE  TableAfter(t, 0) = BlankTable
  <2>1. t \in Nat BY TableCounts
  <2>2. \A i \in Locals : ~(t * E + i < 0) BY <2>1, Sizes DEF Locals, E
  <2> QED BY <2>2 DEF TableAfter, BlankTable
<1> QED BY <1>1 DEF NewTables, TablesAfter, TableCount, TotalBlocks, E

-----------------------------------------------------------------------------
(* The invariant is inductive.                                               *)

LEMMA FromZero == From(0) = 0
BY DEF From

LEMMA InitWInv == WriterInit => WInv
<1> SUFFICES ASSUME WriterInit PROVE WInv OBVIOUS
<1>1. Planned BY DEF WriterInit, Planned
<1>2. TotalBlocks \in Nat \ {0} BY <1>1, TableCounts
<1>3. BackingDataBlock(0) \in Nat /\ From(0) = 0 BY Gaps, FromZero
<1>4. CursorsOK BY <1>2, <1>3, StfsAssumption DEF WriterInit, CursorsOK
<1>5. LengthOK
  <2>1. emitted = <<>> /\ Len(emitted) = 0 BY DEF WriterInit
  <2>2. HasLen(emitted, 0) BY <2>1 DEF HasLen
  <2> QED BY <2>1, <2>2 DEF LengthOK, WriterInit
<1>6. HashOK
  <2>1. NewTables(layout.total_blocks) = TablesAfter(0) BY <1>1, TablesBegin
  <2>2. /\ hash_tree = NoTree /\ next_hash_block = 0 /\ hashing_done = ~signed
        /\ signed \in BOOLEAN
        /\ signed => level0_tables = TablesAfter(0)
        /\ ~signed => level0_tables = <<>>
    BY <2>1 DEF WriterInit
  <2>3. next_hash_block \in 0 .. TotalBlocks /\ next_hash_block < TotalBlocks BY <1>2, <2>2
  <2>4. signed => TablesAfter(next_hash_block) = TablesAfter(0) BY <2>2
  <2>5. hashing_done \in BOOLEAN BY <2>2
  <2> HIDE DEF WriterInit
  <2>6. CASE signed BY <2>2, <2>3, <2>4, <2>5, <2>6 DEF HashOK
  <2>7. CASE ~signed BY <2>2, <2>3, <2>5, <2>7 DEF HashOK
  <2> QED BY <2>2, <2>6, <2>7
<1>7. BlocksOK BY DEF BlocksOK, WriterInit
<1>8. PlacedOK BY DEF PlacedOK, WriterInit
<1> QED BY <1>1, <1>4, <1>5, <1>6, <1>7, <1>8 DEF WInv

\* What does not speak of the plan and the hashes stays with it.
LEMMA PlannedKept ==
  ASSUME Planned, UNCHANGED openVars
  PROVE  Planned' /\ TotalBlocks' = TotalBlocks /\ HeaderBlocks' = HeaderBlocks
         /\ layout' = layout /\ signed' = signed
BY DEF Planned, openVars, TotalBlocks, HeaderBlocks

LEMMA HashKept ==
  ASSUME HashOK, UNCHANGED openVars, UNCHANGED hashVars
  PROVE  HashOK'
<1>1. layout' = layout /\ signed' = signed /\ TotalBlocks' = TotalBlocks BY DEF openVars, TotalBlocks
<1>2. /\ level0_tables' = level0_tables /\ hash_tree' = hash_tree
      /\ next_hash_block' = next_hash_block /\ hashing_done' = hashing_done
  BY DEF hashVars
<1>3. WholeTree' = WholeTree BY <1>1, TreeSame
<1>4. \A k : TablesAfter(k)' = TablesAfter(k) BY <1>1, TablesSame
<1>5. TablesAfter(next_hash_block)' = TablesAfter(next_hash_block)
  <2> DEFINE k == next_hash_block
  <2>1. \A b : Content(b)' = Content(b) BY <1>1, ContentSame
  <2>2. \A t : TableAfter(t, k)' = TableAfter(t, k) BY <1>1, <1>2, <2>1 DEF TableAfter
  <2> QED BY <1>1, <2>2 DEF TablesAfter, TableCount
<1> QED BY <1>1, <1>2, <1>3, <1>5 DEF HashOK

LEMMA EmittedKept ==
  ASSUME BlocksOK, LengthOK, emitted' = emitted
  PROVE  BlocksOK' /\ Len(emitted)' = Len(emitted) /\ HasLen(emitted, Len(emitted))'
BY DEF BlocksOK, GoodBlock, LengthOK, HasLen

\* While a session hashes, nothing has been handed over.
LEMMA PlacedBeforehand ==
  ASSUME phase = "Header", UNCHANGED phase
  PROVE  PlacedOK'
BY DEF PlacedOK

LEMMA HashNextBlockWInv == WInv /\ HashNextBlock => WInv'
<1> SUFFICES ASSUME WInv, HashNextBlock PROVE WInv' OBVIOUS
<1> USE DEF WInv
<1> DEFINE k == next_hash_block
           all == k + 1 = TotalBlocks
           tables == HashBlock(level0_tables, k, Content(k), NextBlock(layout, k))
<1>1. /\ UNCHANGED openVars /\ UNCHANGED streamVars /\ pc = "hashing" /\ ~hashing_done
      /\ failures' = failures /\ emitted' = emitted /\ spoiled_at' = spoiled_at
      /\ next_hash_block' = k + 1 /\ hashing_done' = all
      /\ level0_tables' = (IF all THEN <<>> ELSE tables)
      /\ hash_tree' = (IF all THEN Finish(layout.top_level, TotalBlocks, tables) ELSE hash_tree)
      /\ pc' = (IF all THEN "streaming" ELSE pc)
  BY DEF HashNextBlock, TotalBlocks
<1>2. Planned' /\ TotalBlocks' = TotalBlocks /\ HeaderBlocks' = HeaderBlocks
      /\ layout' = layout /\ signed' = signed
  BY <1>1, PlannedKept
<1>3. /\ k \in 0 .. TotalBlocks - 1 /\ k \in Nat /\ TotalBlocks \in Nat \ {0}
      /\ signed /\ level0_tables = TablesAfter(k) /\ hash_tree = NoTree
  BY <1>1, TableCounts DEF HashOK
<1>4. tables = TablesAfter(k + 1) BY <1>3, HashBlockStep
<1>5. phase = "Header" /\ UNCHANGED phase /\ physical_cursor' = physical_cursor
      /\ block_num' = block_num
  BY <1>1 DEF CursorsOK, streamVars
<1>6. CursorsOK' BY <1>1, <1>2, <1>5 DEF CursorsOK
<1>7. LengthOK' /\ BlocksOK'
  <2>1. BlocksOK' /\ Len(emitted)' = Len(emitted) /\ HasLen(emitted, Len(emitted))' BY <1>1, EmittedKept
  <2> QED BY <1>1, <1>2, <1>5, <2>1 DEF LengthOK
<1>8. PlacedOK' BY <1>5, PlacedBeforehand
<1>9. HashOK'
  <2> HIDE DEF tables
  <2>1. CASE all
    <3>1. hashing_done' /\ level0_tables' = <<>> /\ next_hash_block' = TotalBlocks BY <1>1, <2>1
    <3>2. hash_tree' = WholeTree BY <1>1, <1>4, <2>1 DEF WholeTree
    <3>3. WholeTree' = WholeTree BY <1>2, TreeSame
    <3> QED BY <1>2, <1>3, <3>1, <3>2, <3>3 DEF HashOK
  <2>2. CASE ~all
    <3>1. /\ ~hashing_done' /\ level0_tables' = TablesAfter(k + 1)
          /\ hash_tree' = NoTree /\ hashing_done' \in BOOLEAN
      BY <1>1, <1>3, <1>4, <2>2
    <3>2. next_hash_block' \in 0 .. TotalBlocks /\ next_hash_block' < TotalBlocks BY <1>1, <1>3, <2>2
    <3>3. TablesAfter(next_hash_block)' = TablesAfter(k + 1)
      <4>1. \A b : Content(b)' = Content(b) BY <1>2, ContentSame
      <4>2. \A t : TableAfter(t, next_hash_block)' = TableAfter(t, k + 1)
        BY <1>1, <1>2, <4>1 DEF TableAfter
      <4> QED BY <1>2, <4>2 DEF TablesAfter, TableCount
    <3> QED BY <1>2, <1>3, <3>1, <3>2, <3>3 DEF HashOK
  <2> QED BY <2>1, <2>2
<1> QED BY <1>2, <1>6, <1>7, <1>8, <1>9

LEMMA NothingToHashWInv == WInv /\ NothingToHash => WInv'
<1> SUFFICES ASSUME WInv, NothingToHash PROVE WInv' OBVIOUS
<1> USE DEF WInv
<1>1. /\ UNCHANGED openVars /\ UNCHANGED hashVars /\ UNCHANGED streamVars
      /\ pc = "hashing" /\ hashing_done /\ hashing_done' = hashing_done /\ pc' = "streaming"
      /\ failures' = failures /\ emitted' = emitted /\ spoiled_at' = spoiled_at
      /\ UNCHANGED phase /\ physical_cursor' = physical_cursor /\ block_num' = block_num
  BY DEF NothingToHash, hashVars, streamVars
<1>2. Planned' /\ TotalBlocks' = TotalBlocks /\ HeaderBlocks' = HeaderBlocks
      /\ layout' = layout /\ signed' = signed
  BY <1>1, PlannedKept
<1>3. phase = "Header" BY <1>1 DEF CursorsOK
<1>4. CursorsOK' BY <1>1, <1>2, <1>3 DEF CursorsOK
<1>5. LengthOK' /\ BlocksOK'
  <2>1. BlocksOK' /\ Len(emitted)' = Len(emitted) /\ HasLen(emitted, Len(emitted))' BY <1>1, EmittedKept
  <2> QED BY <1>1, <1>2, <1>3, <2>1 DEF LengthOK
<1>6. PlacedOK' BY <1>1, <1>3, PlacedBeforehand
<1>7. HashOK' BY <1>1, HashKept
<1> QED BY <1>2, <1>4, <1>5, <1>6, <1>7

LEMMA ThrowFacts ==
  ASSUME CursorsOK, Throw
  PROVE  /\ failures' \in 0 .. MaxFailures
         /\ pc' \in {pc, "failed"}
BY StfsAssumption DEF CursorsOK, Throw

LEMMA HashingFailsWInv == WInv /\ HashingFails => WInv'
<1> SUFFICES ASSUME WInv, HashingFails PROVE WInv' OBVIOUS
<1> USE DEF WInv
<1>1. /\ UNCHANGED openVars /\ UNCHANGED hashVars /\ UNCHANGED streamVars
      /\ pc = "hashing" /\ Throw /\ hashing_done' = hashing_done
      /\ emitted' = emitted /\ spoiled_at' = spoiled_at
      /\ UNCHANGED phase /\ physical_cursor' = physical_cursor /\ block_num' = block_num
  BY DEF HashingFails, hashVars, streamVars
<1>2. Planned' /\ TotalBlocks' = TotalBlocks /\ HeaderBlocks' = HeaderBlocks
      /\ layout' = layout /\ signed' = signed
  BY <1>1, PlannedKept
<1>3. phase = "Header" BY <1>1 DEF CursorsOK
<1>4. CursorsOK'
  <2>1. failures' \in 0 .. MaxFailures /\ pc' \in {pc, "failed"} BY <1>1, ThrowFacts
  <2> QED BY <1>1, <1>2, <1>3, <2>1 DEF CursorsOK
<1>5. LengthOK' /\ BlocksOK'
  <2>1. BlocksOK' /\ Len(emitted)' = Len(emitted) /\ HasLen(emitted, Len(emitted))' BY <1>1, EmittedKept
  <2> QED BY <1>1, <1>2, <1>3, <2>1 DEF LengthOK
<1>6. PlacedOK' BY <1>1, <1>3, PlacedBeforehand
<1>7. HashOK' BY <1>1, HashKept
<1> QED BY <1>2, <1>4, <1>5, <1>6, <1>7

LEMMA HeaderFacts ==
  ASSUME Planned
  PROVE  /\ HeaderBlocks \in Nat \ {0}
         /\ HasLen(Header, HeaderBlocks)
         /\ Header[1] = Descriptor
         /\ \A i \in 1 .. HeaderBlocks : GoodBlock(Header[i])
<1> DEFINE n == HeaderBlocks - 1
           pad == [i \in 1 .. n |-> [kind |-> "padding"]]
<1>1. HeaderBlocks \in Nat \ {0} /\ n \in Nat /\ 1 + n = HeaderBlocks
  BY PlannedLayout DEF LayoutOK, HeaderBlocks
<1>2. Header = <<Descriptor>> \o pad BY DEF Header, Descriptor, HeaderBlocks
<1> HIDE DEF n
<1>3. HasLen(pad, n) BY <1>1 DEF HasLen
<1>4. HasLen(<<Descriptor>>, 1) /\ <<Descriptor>>[1] = Descriptor BY SequenceSingle
<1>5. \A i \in 1 .. n : pad[i] = [kind |-> "padding"] OBVIOUS
<1> HIDE DEF pad
<1>6. IsConcat(Header, <<Descriptor>>, 1, pad, n) BY <1>2, <1>3, <1>4, SequenceConcat
<1>7. /\ HasLen(Header, 1 + n)
      /\ \A i \in 1 .. 1 + n : Header[i] = IF i <= 1 THEN <<Descriptor>>[i] ELSE pad[i - 1]
  BY <1>6 DEF IsConcat
<1>8. Header[1] = Descriptor BY <1>1, <1>4, <1>7
<1>9. ASSUME NEW i \in 1 .. HeaderBlocks
      PROVE  GoodBlock(Header[i])
  <2>1. CASE i = 1 BY <1>8, <2>1 DEF GoodBlock, Descriptor
  <2>2. CASE i # 1
    <3>1. Header[i] = pad[i - 1] /\ i - 1 \in 1 .. n BY <1>1, <1>7, <2>2
    <3>2. Header[i] = [kind |-> "padding"] BY <1>5, <3>1
    <3> QED BY <3>2 DEF GoodBlock
  <2> QED BY <2>1, <2>2
<1> QED BY <1>1, <1>7, <1>8, <1>9

LEMMA EmitHeaderWInv == WInv /\ EmitHeader => WInv'
<1> SUFFICES ASSUME WInv, EmitHeader PROVE WInv' OBVIOUS
<1> USE DEF WInv
<1>1. /\ UNCHANGED openVars /\ UNCHANGED hashVars
      /\ pc = "streaming" /\ pc' = pc /\ phase = "Header" /\ phase' = "Body"
      /\ emitted' = emitted \o Header
      /\ physical_cursor' = physical_cursor /\ block_num' = block_num
      /\ failures' = failures /\ spoiled_at' = spoiled_at
      /\ hashing_done' = hashing_done /\ hash_tree' = hash_tree
  BY DEF EmitHeader, hashVars
<1>2. Planned' /\ TotalBlocks' = TotalBlocks /\ HeaderBlocks' = HeaderBlocks
      /\ layout' = layout /\ signed' = signed
  BY <1>1, PlannedKept
<1>3. physical_cursor = 0 /\ block_num = 0 /\ spoiled_at = Whole /\ Len(emitted) = 0
      /\ HasLen(emitted, 0)
  BY <1>1 DEF CursorsOK, LengthOK
<1>4. /\ HeaderBlocks \in Nat \ {0}
      /\ HasLen(Header, HeaderBlocks)
      /\ Header[1] = Descriptor
      /\ \A i \in 1 .. HeaderBlocks : GoodBlock(Header[i])
  BY HeaderFacts
<1>5. HasLen(emitted', HeaderBlocks) /\ Len(emitted') = HeaderBlocks
      /\ \A i \in 1 .. HeaderBlocks : emitted'[i] = Header[i]
  <2>1. IsConcat(emitted', emitted, 0, Header, HeaderBlocks) BY <1>1, <1>3, <1>4, SequenceConcat
  <2>2. 0 + HeaderBlocks = HeaderBlocks /\ \A i \in 1 .. HeaderBlocks : ~(i <= 0) /\ i - 0 = i BY <1>4
  <2>3. HasLen(emitted', HeaderBlocks) /\ \A i \in 1 .. HeaderBlocks : emitted'[i] = Header[i]
    BY <2>1, <2>2 DEF IsConcat
  <2>4. Len(emitted') = HeaderBlocks BY <2>3, SequenceLength
  <2> QED BY <2>3, <2>4
<1>6. CursorsOK'
  <2>1. TotalBlocks \in Nat \ {0} BY TableCounts
  <2> QED BY <1>1, <1>2, <1>3, <2>1 DEF CursorsOK
<1>7. LengthOK' BY <1>1, <1>2, <1>3, <1>4, <1>5 DEF LengthOK
<1>8. HashOK' BY <1>1, HashKept
<1>9. BlocksOK'
  <2>1. \A i \in 1 .. Len(emitted') : GoodBlock(emitted'[i]) BY <1>4, <1>5
  <2> QED BY <2>1 DEF BlocksOK, GoodBlock
<1>10. PlacedOK'
  <2>1. emitted'[1] = Descriptor' 
    <3>1. 1 \in 1 .. HeaderBlocks BY <1>4
    <3> QED BY <1>1, <1>2, <1>4, <1>5, <3>1 DEF Descriptor
  <2>2. ASSUME NEW n \in 0 .. block_num', NEW a \in From(n) .. BackingDataBlock(n),
               n < block_num' \/ a < physical_cursor'
        PROVE  FALSE
    <3>1. n = 0 /\ ~(n < block_num') /\ From(n) = 0 BY <1>1, <1>3, FromZero
    <3>2. BackingDataBlock(n) \in Nat BY <3>1, Gaps
    <3> QED BY <1>1, <1>3, <2>2, <3>1, <3>2
  <2> QED BY <2>1, <2>2 DEF PlacedOK
<1> QED BY <1>2, <1>6, <1>7, <1>8, <1>9, <1>10

LEMMA HeaderFailsWInv == WInv /\ HeaderFails => WInv'
<1> SUFFICES ASSUME WInv, HeaderFails PROVE WInv' OBVIOUS
<1> USE DEF WInv
<1>1. /\ UNCHANGED openVars /\ UNCHANGED hashVars
      /\ pc = "streaming" /\ phase = "Header" /\ phase' = "Body"
      /\ emitted' = emitted /\ Throw
      /\ physical_cursor' = physical_cursor /\ block_num' = block_num
      /\ spoiled_at' = (IF spoiled_at = Whole THEN Len(emitted) ELSE spoiled_at)
      /\ hashing_done' = hashing_done
  BY DEF HeaderFails, Spoil, hashVars
<1>2. Planned' /\ TotalBlocks' = TotalBlocks /\ HeaderBlocks' = HeaderBlocks
      /\ layout' = layout /\ signed' = signed
  BY <1>1, PlannedKept
<1>3. physical_cursor = 0 /\ block_num = 0 /\ spoiled_at' = 0 /\ Len(emitted) = 0
  BY <1>1 DEF CursorsOK, LengthOK
<1>4. HeaderBlocks \in Nat \ {0} BY HeaderFacts
<1>5. CursorsOK'
  <2>1. failures' \in 0 .. MaxFailures /\ pc' \in {pc, "failed"} BY <1>1, ThrowFacts
  <2>2. TotalBlocks \in Nat \ {0} BY TableCounts
  <2> QED BY <1>1, <1>2, <1>3, <2>1, <2>2 DEF CursorsOK
<1>6. LengthOK' /\ BlocksOK'
  <2>1. BlocksOK' /\ Len(emitted)' = Len(emitted) /\ HasLen(emitted, Len(emitted))' BY <1>1, EmittedKept
  <2> QED BY <1>1, <1>2, <1>3, <1>4, <2>1 DEF LengthOK, Whole
<1>7. HashOK' BY <1>1, HashKept
<1>8. PlacedOK' BY <1>3 DEF PlacedOK, Whole
<1> QED BY <1>2, <1>5, <1>6, <1>7, <1>8

\* A step of the walk: over tables it stays before its block, with the block
\* it goes on to the next.
LEMMA WalkFacts ==
  ASSUME Planned, CursorsOK, block_num < TotalBlocks,
         NEW next, next = block_num + (IF AtData THEN 1 ELSE 0)
  PROVE  /\ next \in 0 .. TotalBlocks
         /\ physical_cursor + 1 \in Nat
         /\ From(next) <= physical_cursor + 1
         /\ next < TotalBlocks => physical_cursor + 1 <= BackingDataBlock(next)
         /\ next = TotalBlocks => physical_cursor + 1 = From(TotalBlocks)
         /\ AtData => physical_cursor = BackingDataBlock(block_num)
                      /\ From(next) = physical_cursor + 1
<1>1. /\ TotalBlocks \in Nat \ {0} /\ block_num \in Nat /\ physical_cursor \in Nat
      /\ block_num + 1 <= TotalBlocks
      /\ From(block_num) <= physical_cursor /\ physical_cursor <= BackingDataBlock(block_num)
  BY TableCounts DEF CursorsOK
<1>2. BackingDataBlock(block_num) \in Nat /\ From(block_num) \in Nat BY <1>1, Gaps
<1>3. CASE AtData
  <2>1. physical_cursor = BackingDataBlock(block_num) /\ next = block_num + 1
    BY <1>1, <1>2, <1>3 DEF AtData
  <2>2. next \in Nat /\ next # 0 /\ next - 1 = block_num BY <1>1, <2>1
  <2>3. From(next) = physical_cursor + 1 BY <2>1, <2>2 DEF From
  <2>4. From(next) <= BackingDataBlock(next) BY <2>2, Gaps
  <2> QED BY <1>1, <2>1, <2>2, <2>3, <2>4
<1>4. CASE ~AtData
  <2>1. physical_cursor < BackingDataBlock(block_num) /\ next = block_num BY <1>1, <1>2, <1>4 DEF AtData
  <2> QED BY <1>1, <1>2, <1>4, <2>1
<1> QED BY <1>3, <1>4

LEMMA EmitOneWInv ==
  ASSUME WInv, InBody, BlocksLeft,
         UNCHANGED openVars, UNCHANGED hashVars, UNCHANGED phase, pc' = pc,
         failures' = failures, spoiled_at' = spoiled_at,
         physical_cursor' = physical_cursor + 1,
         block_num' = block_num + (IF AtData THEN 1 ELSE 0),
         emitted' = Append(emitted, BlockFor(block_num, physical_cursor))
  PROVE  WInv'
<1> USE DEF WInv
<1> DEFINE n == block_num
           a == physical_cursor
           e == BlockFor(n, a)
           L == Len(emitted)
<1>1. phase = "Body" /\ pc = "streaming" /\ hashing_done /\ hashing_done' = hashing_done
      /\ hash_tree' = hash_tree /\ n < TotalBlocks
  BY DEF InBody, BlocksLeft, CursorsOK, hashVars, TotalBlocks
<1>2. Planned' /\ TotalBlocks' = TotalBlocks /\ HeaderBlocks' = HeaderBlocks
      /\ layout' = layout /\ signed' = signed
  BY PlannedKept
<1>3. TotalBlocks \in Nat \ {0} /\ HeaderBlocks \in Nat \ {0} /\ n \in Nat /\ a \in Nat
      /\ n \in 0 .. TotalBlocks - 1
  BY <1>1, TableCounts, HeaderFacts DEF CursorsOK
<1>4. /\ block_num' \in 0 .. TotalBlocks
      /\ physical_cursor' \in Nat
      /\ From(block_num') <= physical_cursor'
      /\ block_num' < TotalBlocks => physical_cursor' <= BackingDataBlock(block_num')
      /\ block_num' = TotalBlocks => physical_cursor' = From(TotalBlocks)
      /\ AtData => a = BackingDataBlock(n) /\ From(block_num') = physical_cursor'
  BY <1>1, WalkFacts
<1>5. CursorsOK' BY <1>1, <1>2, <1>4 DEF CursorsOK
<1>6. L \in Nat /\ HasLen(emitted, L)
      /\ (spoiled_at = Whole => L = HeaderBlocks + a)
      /\ (spoiled_at # Whole => spoiled_at \in 0 .. L /\ L < HeaderBlocks + a)
  BY <1>1 DEF LengthOK, HasLen
<1> HIDE DEF e, L
<1>7. /\ HasLen(emitted', L + 1) /\ Len(emitted') = L + 1
      /\ \A i \in 1 .. L : emitted'[i] = emitted[i]
      /\ emitted'[L + 1] = e
  <2>1. IsAppend(emitted', emitted, L, e) BY <1>6, SequenceAppend DEF e
  <2>2. HasLen(emitted', L + 1) /\ \A i \in 1 .. L + 1 : emitted'[i] = IF i <= L THEN emitted[i] ELSE e
    BY <2>1 DEF IsAppend
  <2>3. L + 1 \in 1 .. L + 1 /\ ~(L + 1 <= L) /\ \A i \in 1 .. L : i \in 1 .. L + 1 /\ i <= L BY <1>6
  <2> QED BY <2>2, <2>3, SequenceLength
<1>8. LengthOK' BY <1>1, <1>2, <1>3, <1>6, <1>7 DEF LengthOK
<1>9. HashOK' BY HashKept
<1>10. BlocksOK'
  <2>1. GoodBlock(e) BY <1>1, <1>3, BlockForGood DEF e
  <2>2. \A i \in 1 .. L : GoodBlock(emitted[i]) BY DEF BlocksOK, L
  <2>3. \A i \in 1 .. L + 1 : i \in 1 .. L \/ i = L + 1 BY <1>6
  <2>4. \A i \in 1 .. L + 1 : GoodBlock(emitted'[i]) BY <1>7, <2>1, <2>2, <2>3
  <2> QED BY <1>7, <2>4 DEF BlocksOK, GoodBlock
<1>11. PlacedOK'
  <2> SUFFICES ASSUME spoiled_at = Whole PROVE PlacedOK' BY DEF PlacedOK
  <2>1. L = HeaderBlocks + a /\ 1 \in 1 .. L BY <1>3, <1>6
  <2>2. emitted'[1] = Descriptor'
    <3>1. emitted[1] = Descriptor BY <1>1 DEF PlacedOK
    <3> QED BY <1>1, <1>2, <1>7, <2>1, <3>1 DEF Descriptor
  <2>3. ASSUME NEW m \in 0 .. block_num', NEW x \in From(m) .. BackingDataBlock(m),
               m < block_num' \/ x < physical_cursor'
        PROVE  x < physical_cursor' /\ emitted'[HeaderBlocks + x + 1] = BlockFor(m, x)
    <3>1. m \in Nat /\ From(m) \in Nat /\ BackingDataBlock(m) \in Nat BY <1>4, Gaps
    <3>2. x \in Nat /\ From(m) <= x /\ x <= BackingDataBlock(m) BY <3>1
    <3>3. CASE m \in 0 .. n /\ (m < n \/ x < a)
      <4>1. x < a /\ emitted[HeaderBlocks + x + 1] = BlockFor(m, x) BY <1>1, <3>3 DEF PlacedOK
      <4>2. HeaderBlocks + x + 1 \in 1 .. L BY <1>3, <2>1, <3>2, <4>1
      <4>3. emitted'[HeaderBlocks + x + 1] = emitted[HeaderBlocks + x + 1] BY <1>7, <4>2
      <4>4. x < physical_cursor' BY <1>3, <3>2, <4>1
      <4> QED BY <4>1, <4>3, <4>4
    <3>4. CASE m = n /\ x = a BY <1>3, <1>7, <2>1, <3>4 DEF e
    <3>5. (m \in 0 .. n /\ (m < n \/ x < a)) \/ (m = n /\ x = a)
      <4>1. CASE AtData
        <5>1. a = BackingDataBlock(n) /\ From(n + 1) = a + 1 /\ block_num' = n + 1 BY <1>4, <4>1
        <5>2. m # n + 1 BY <1>3, <2>3, <3>2, <5>1
        <5> QED BY <1>3, <2>3, <3>1, <3>2, <5>1, <5>2
      <4>2. CASE ~AtData BY <1>3, <2>3, <3>1, <3>2, <4>2
      <4> QED BY <4>1, <4>2
    <3> QED BY <3>3, <3>4, <3>5
  <2>4. \A m, x : BlockFor(m, x)' = BlockFor(m, x) BY <1>1, <1>2, BlockForSame
  <2> QED BY <1>2, <2>2, <2>3, <2>4 DEF PlacedOK
<1> QED BY <1>2, <1>5, <1>8, <1>9, <1>10, <1>11

LEMMA EmitWInv ==
  ASSUME WInv, EmitUpperTable \/ EmitLevel0Table \/ EmitData
  PROVE  WInv'
<1>1. CASE EmitUpperTable
  <2>1. /\ InBody /\ BlocksLeft /\ ~AtData /\ (AtLevel1 \/ AtLevel2)
        /\ UNCHANGED openVars /\ UNCHANGED hashVars /\ UNCHANGED phase /\ pc' = pc
        /\ failures' = failures /\ spoiled_at' = spoiled_at
        /\ physical_cursor' = physical_cursor + 1 /\ block_num' = block_num + 0
        /\ emitted' = Append(emitted, UpperTable(AtLevel2 \/ layout.top_level = 1, block_num))
    BY <1>1 DEF EmitUpperTable, StepOver, Append1
  <2>2. BlockFor(block_num, physical_cursor) =
      UpperTable(AtLevel2 \/ layout.top_level = 1, block_num)
    BY <2>1 DEF BlockFor, AtData, AtLevel1, AtLevel2
  <2> QED BY <2>1, <2>2, EmitOneWInv
<1>2. CASE EmitLevel0Table
  <2>1. /\ InBody /\ BlocksLeft /\ ~AtData /\ ~AtLevel1 /\ ~AtLevel2
        /\ UNCHANGED openVars /\ UNCHANGED hashVars /\ UNCHANGED phase /\ pc' = pc
        /\ failures' = failures /\ spoiled_at' = spoiled_at
        /\ physical_cursor' = physical_cursor + 1 /\ block_num' = block_num + 0
        /\ emitted' = Append(emitted, Level0Table(block_num))
    BY <1>2 DEF EmitLevel0Table, StepOver, Append1
  <2>2. BlockFor(block_num, physical_cursor) = Level0Table(block_num)
    BY <2>1 DEF BlockFor, AtData, AtLevel1, AtLevel2
  <2> QED BY <2>1, <2>2, EmitOneWInv
<1>3. CASE EmitData
  <2>1. /\ InBody /\ BlocksLeft /\ AtData
        /\ UNCHANGED openVars /\ UNCHANGED hashVars /\ UNCHANGED phase /\ pc' = pc
        /\ failures' = failures /\ spoiled_at' = spoiled_at
        /\ physical_cursor' = physical_cursor + 1 /\ block_num' = block_num + 1
        /\ emitted' = Append(emitted, Content(block_num))
    BY <1>3 DEF EmitData, StepOver, Append1
  <2>2. BlockFor(block_num, physical_cursor) = Content(block_num) BY <2>1 DEF BlockFor, AtData
  <2> QED BY <2>1, <2>2, EmitOneWInv
<1> QED BY <1>1, <1>2, <1>3

LEMMA StreamingFailsWInv == WInv /\ StreamingFails => WInv'
<1> SUFFICES ASSUME WInv, StreamingFails PROVE WInv' OBVIOUS
<1> USE DEF WInv
<1>1. /\ UNCHANGED openVars /\ UNCHANGED hashVars /\ AtData
      /\ pc = "streaming" /\ phase = "Body" /\ phase' = phase /\ block_num < TotalBlocks
      /\ emitted' = emitted /\ Throw
      /\ physical_cursor' = physical_cursor + 1 /\ block_num' = block_num + 1
      /\ spoiled_at' = (IF spoiled_at = Whole THEN Len(emitted) ELSE spoiled_at)
      /\ hashing_done' = hashing_done
  BY DEF StreamingFails, Spoil, StepOver, hashVars, InBody, BlocksLeft, TotalBlocks
<1>2. Planned' /\ TotalBlocks' = TotalBlocks /\ HeaderBlocks' = HeaderBlocks
      /\ layout' = layout /\ signed' = signed
  BY <1>1, PlannedKept
<1>3. HeaderBlocks \in Nat \ {0} /\ TotalBlocks \in Nat \ {0} BY HeaderFacts, TableCounts
<1>4. /\ block_num' \in 0 .. TotalBlocks
      /\ physical_cursor' \in Nat
      /\ From(block_num') <= physical_cursor'
      /\ block_num' < TotalBlocks => physical_cursor' <= BackingDataBlock(block_num')
      /\ block_num' = TotalBlocks => physical_cursor' = From(TotalBlocks)
  <2>1. block_num' = block_num + (IF AtData THEN 1 ELSE 0) BY <1>1
  <2> QED BY <1>1, <2>1, WalkFacts
<1>5. CursorsOK'
  <2>1. failures' \in 0 .. MaxFailures /\ pc' \in {pc, "failed"} BY <1>1, ThrowFacts
  <2> QED BY <1>1, <1>2, <1>4, <2>1 DEF CursorsOK
<1>6. /\ Len(emitted) \in Nat
      /\ spoiled_at = Whole => Len(emitted) = HeaderBlocks + physical_cursor
      /\ spoiled_at # Whole => spoiled_at \in 0 .. Len(emitted)
                               /\ Len(emitted) < HeaderBlocks + physical_cursor
      /\ physical_cursor \in Nat
  BY <1>1 DEF LengthOK, CursorsOK, HasLen
<1>7. spoiled_at' \in 0 .. Len(emitted) /\ Len(emitted) < HeaderBlocks + physical_cursor'
      /\ spoiled_at' # Whole
  BY <1>1, <1>3, <1>6 DEF Whole
<1>8. LengthOK' /\ BlocksOK'
  <2>1. BlocksOK' /\ Len(emitted)' = Len(emitted) /\ HasLen(emitted, Len(emitted))' BY <1>1, EmittedKept
  <2> QED BY <1>1, <1>2, <1>7, <2>1 DEF LengthOK
<1>9. HashOK' BY <1>1, HashKept
<1>10. PlacedOK' BY <1>7 DEF PlacedOK
<1> QED BY <1>2, <1>5, <1>8, <1>9, <1>10

LEMMA PlacedKept ==
  ASSUME PlacedOK, phase # "Header", UNCHANGED openVars, UNCHANGED hashVars,
         emitted' = emitted, spoiled_at' = spoiled_at,
         physical_cursor' = physical_cursor, block_num' = block_num
  PROVE  PlacedOK'
<1>1. layout' = layout /\ hash_tree' = hash_tree /\ HeaderBlocks' = HeaderBlocks
  BY DEF openVars, hashVars, HeaderBlocks
<1>2. \A m, x : BlockFor(m, x)' = BlockFor(m, x) BY <1>1, BlockForSame
<1>3. Descriptor' = Descriptor BY <1>1 DEF Descriptor
<1> SUFFICES ASSUME spoiled_at = Whole PROVE PlacedOK' BY DEF PlacedOK
<1>4. /\ emitted[1] = Descriptor
      /\ \A n \in 0 .. block_num : \A a \in From(n) .. BackingDataBlock(n) :
           n < block_num \/ a < physical_cursor =>
             /\ a < physical_cursor
             /\ emitted[HeaderBlocks + a + 1] = BlockFor(n, a)
  BY DEF PlacedOK
<1> QED BY <1>1, <1>2, <1>3, <1>4 DEF PlacedOK

LEMMA ExhaustedWInv == WInv /\ Exhausted => WInv'
<1> SUFFICES ASSUME WInv, Exhausted PROVE WInv' OBVIOUS
<1> USE DEF WInv
<1>1. /\ UNCHANGED openVars /\ UNCHANGED hashVars
      /\ pc = "streaming" /\ pc' = pc /\ phase = "Body" /\ phase' = "Done"
      /\ ~(block_num < TotalBlocks)
      /\ emitted' = emitted /\ spoiled_at' = spoiled_at /\ failures' = failures
      /\ physical_cursor' = physical_cursor /\ block_num' = block_num
      /\ hashing_done' = hashing_done
  BY DEF Exhausted, hashVars, InBody, BlocksLeft, TotalBlocks
<1>2. Planned' /\ TotalBlocks' = TotalBlocks /\ HeaderBlocks' = HeaderBlocks
      /\ layout' = layout /\ signed' = signed
  BY <1>1, PlannedKept
<1>3. block_num = TotalBlocks BY <1>1, TableCounts DEF CursorsOK
<1>4. CursorsOK' BY <1>1, <1>2, <1>3 DEF CursorsOK
<1>5. LengthOK' /\ BlocksOK'
  <2>1. BlocksOK' /\ Len(emitted)' = Len(emitted) /\ HasLen(emitted, Len(emitted))' BY <1>1, EmittedKept
  <2> QED BY <1>1, <1>2, <2>1 DEF LengthOK
<1>6. HashOK' BY <1>1, HashKept
<1>7. PlacedOK' BY <1>1, PlacedKept
<1> QED BY <1>2, <1>4, <1>5, <1>6, <1>7

LEMMA WriterStutter == WInv /\ UNCHANGED writerVars => WInv'
<1> SUFFICES ASSUME WInv, UNCHANGED writerVars PROVE WInv' OBVIOUS
<1> USE DEF WInv
<1>1. /\ UNCHANGED openVars /\ UNCHANGED hashVars /\ phase' = phase /\ pc' = pc
      /\ emitted' = emitted /\ spoiled_at' = spoiled_at /\ failures' = failures
      /\ physical_cursor' = physical_cursor /\ block_num' = block_num
      /\ hashing_done' = hashing_done
  BY DEF writerVars, streamVars, hashVars
<1>2. Planned' /\ TotalBlocks' = TotalBlocks /\ HeaderBlocks' = HeaderBlocks
      /\ layout' = layout /\ signed' = signed
  BY <1>1, PlannedKept
<1>3. CursorsOK' BY <1>1, <1>2 DEF CursorsOK
<1>4. LengthOK' /\ BlocksOK'
  <2>1. BlocksOK' /\ Len(emitted)' = Len(emitted) /\ HasLen(emitted, Len(emitted))' BY <1>1, EmittedKept
  <2> QED BY <1>1, <1>2, <2>1 DEF LengthOK
<1>5. HashOK' BY <1>1, HashKept
<1>6. PlacedOK'
  <2>1. CASE phase = "Header" BY <1>1, <2>1, PlacedBeforehand
  <2>2. CASE phase # "Header" BY <1>1, <2>2, PlacedKept
  <2> QED BY <2>1, <2>2
<1> QED BY <1>2, <1>3, <1>4, <1>5, <1>6

LEMMA WriterNext ==
  ASSUME WInv, WriterCall \/ WriterFails \/ UNCHANGED writerVars
  PROVE  WInv'
<1>1. CASE WriterCall
  BY <1>1, HashNextBlockWInv, NothingToHashWInv, EmitHeaderWInv, EmitWInv, ExhaustedWInv DEF WriterCall
<1>2. CASE WriterFails BY <1>2, HashingFailsWInv, HeaderFailsWInv, StreamingFailsWInv DEF WriterFails
<1>3. CASE UNCHANGED writerVars BY <1>3, WriterStutter
<1> QED BY <1>1, <1>2, <1>3

-----------------------------------------------------------------------------
(* What the reader finds.                                                    *)

Package == Done /\ spoiled_at = Whole

LEMMA PackageFacts ==
  ASSUME WInv, Package
  PROVE  /\ descriptor = Descriptor
         /\ descriptor.header_blocks = HeaderBlocks
         /\ allocated = TotalBlocks
         /\ Level = layout.top_level
         /\ \A n : GoodBlock(PhysicalBlock(n))
         /\ \A b \in 0 .. TotalBlocks - 1 : \A a \in From(b) .. BackingDataBlock(b) :
              PhysicalBlock(a) = BlockFor(b, a)
<1> USE DEF WInv
<1>1. phase = "Done" /\ spoiled_at = Whole /\ block_num = TotalBlocks BY DEF Package, Done, CursorsOK
<1>2. descriptor = Descriptor BY <1>1 DEF PlacedOK, descriptor
<1>3. descriptor.header_blocks = HeaderBlocks /\ allocated = TotalBlocks
  BY <1>2 DEF Descriptor, HeaderBlocks, allocated, TotalBlocks
<1>4. Level = layout.top_level BY <1>3, TableCounts DEF Level
<1>5. /\ Len(emitted) = HeaderBlocks + physical_cursor
      /\ HasLen(emitted, Len(emitted)) /\ DOMAIN emitted = 1 .. Len(emitted)
      /\ physical_cursor \in Nat /\ HeaderBlocks \in Nat
  BY <1>1, SequenceLength, HeaderFacts DEF LengthOK, CursorsOK
<1>6. ASSUME NEW n
      PROVE  GoodBlock(PhysicalBlock(n))
  <2> DEFINE i == descriptor.header_blocks + n + 1
  <2>1. CASE i \in DOMAIN emitted BY <1>5, <2>1 DEF PhysicalBlock, BlocksOK
  <2>2. CASE i \notin DOMAIN emitted BY <2>2 DEF PhysicalBlock, GoodBlock
  <2> QED BY <2>1, <2>2
<1>7. ASSUME NEW b \in 0 .. TotalBlocks - 1, NEW a \in From(b) .. BackingDataBlock(b)
      PROVE  PhysicalBlock(a) = BlockFor(b, a)
  <2>1. TotalBlocks \in Nat \ {0} /\ b \in Nat /\ b \in 0 .. block_num /\ b < block_num
    BY <1>1, TableCounts
  <2>2. a \in Nat BY <2>1, Gaps
  <2>3. a < physical_cursor /\ emitted[HeaderBlocks + a + 1] = BlockFor(b, a) BY <1>1, <2>1 DEF PlacedOK
  <2>4. HeaderBlocks + a + 1 \in DOMAIN emitted BY <1>5, <2>2, <2>3
  <2> QED BY <1>3, <2>3, <2>4 DEF PhysicalBlock
<1> QED BY <1>2, <1>3, <1>4, <1>6, <1>7

\* Links are numbers, whatever block is read for them.
LEMMA LinkIsNat ==
  ASSUME WInv, Package, NEW b \in Nat, NEW top, NEW level1
  PROVE  LinkOf(b, top, level1) \in Nat
<1>1. b % EntriesPerTable \in Locals BY Coordinates DEF Locals, E
<1>2. ASSUME NEW block, GoodBlock(block)
      PROVE  RecordAt(block, b % EntriesPerTable).next_block \in Nat
  BY <1>1, <1>2 DEF RecordAt, GoodBlock, Record
<1>3. \A n : GoodBlock(PhysicalBlock(n)) BY PackageFacts
<1>4. \E n : LinkOf(b, top, level1) = RecordAt(PhysicalBlock(n), b % EntriesPerTable).next_block
  BY DEF LinkOf
<1> QED BY <1>2, <1>3, <1>4

\* One step down a chain.
Follow(x, top, level1) == IF x >= allocated THEN EndOfChain ELSE LinkOf(x, top, level1)

LEMMA ChainFacts ==
  ASSUME WInv, Package, NEW first \in Nat, NEW n \in Nat, NEW top, NEW level1,
         NEW c, c = Chain(first, n, top, level1)
  PROVE  /\ c \in [0 .. n -> Nat]
         /\ c[0] = first
         /\ \A k \in 1 .. n : c[k] = Follow(c[k - 1], top, level1)
<1> DEFINE F(x) == Follow(x, top, level1)
           Is(f, m) == f = [k \in 0 .. m |-> IF k = 0 THEN first ELSE F(f[k - 1])]
           Defined(m) == \E f \in [0 .. m -> Nat] : Is(f, m)
           D == {m \in Nat : Defined(m)}
<1>1. \A x \in Nat : F(x) \in Nat BY LinkIsNat DEF Follow, EndOfChain
<1> HIDE DEF F
<1>2. 0 \in D
  <2> DEFINE f == [k \in 0 .. 0 |-> first]
  <2>1. f \in [0 .. 0 -> Nat] OBVIOUS
  <2>2. \A k \in 0 .. 0 : k = 0 OBVIOUS
  <2>3. f = [k \in 0 .. 0 |-> IF k = 0 THEN first ELSE F(f[k - 1])] BY <2>2
  <2> HIDE DEF f
  <2>4. Defined(0) BY <2>1, <2>3
  <2> QED BY <2>4
<1>3. ASSUME NEW m \in Nat, m \in D PROVE m + 1 \in D
  <2>1. PICK f \in [0 .. m -> Nat] : Is(f, m) BY <1>3
  <2> DEFINE g == [k \in 0 .. m + 1 |-> IF k = m + 1 THEN F(f[m]) ELSE f[k]]
  <2>2. \A k \in 0 .. m : k \in 0 .. m + 1 /\ k # m + 1 OBVIOUS
  <2>3. \A k \in 0 .. m : g[k] = f[k] BY <2>2
  <2>4. g \in [0 .. m + 1 -> Nat]
    <3>1. m \in 0 .. m /\ f[m] \in Nat OBVIOUS
    <3>2. \A k \in 0 .. m + 1 : k = m + 1 \/ k \in 0 .. m OBVIOUS
    <3>3. \A k \in 0 .. m + 1 : (IF k = m + 1 THEN F(f[m]) ELSE f[k]) \in Nat BY <1>1, <3>1, <3>2
    <3> QED BY <3>3
  <2>5. ASSUME NEW k \in 0 .. m + 1
        PROVE  (IF k = m + 1 THEN F(f[m]) ELSE f[k]) = (IF k = 0 THEN first ELSE F(g[k - 1]))
    <3>1. CASE k = m + 1
      <4>1. k # 0 /\ k - 1 = m /\ m \in 0 .. m BY <3>1
      <4> QED BY <2>3, <3>1, <4>1
    <3>2. CASE k # m + 1
      <4>1. k \in 0 .. m /\ (k # 0 => k - 1 \in 0 .. m) BY <3>2
      <4>2. f[k] = IF k = 0 THEN first ELSE F(f[k - 1]) BY <2>1, <4>1
      <4> QED BY <2>3, <3>2, <4>1, <4>2
    <3> QED BY <3>1, <3>2
  <2>6. g = [k \in 0 .. m + 1 |-> IF k = 0 THEN first ELSE F(g[k - 1])] BY <2>5
  <2> HIDE DEF g
  <2>7. Defined(m + 1) BY <2>4, <2>6
  <2> HIDE DEF Defined
  <2> QED BY <2>7
<1> HIDE DEF Defined
<1>4. Nat \subseteq D BY <1>2, <1>3, NatInduct
<1> USE DEF Defined
<1>5. PICK f \in [0 .. n -> Nat] : Is(f, n) BY <1>4
<1>6. c = CHOOSE h : h = [k \in 0 .. n |-> IF k = 0 THEN first ELSE F(h[k - 1])] BY DEF Chain, F, Follow
<1>7. c = [k \in 0 .. n |-> IF k = 0 THEN first ELSE F(c[k - 1])] BY <1>5, <1>6
<1> HIDE DEF D
<1>8. c[0] = first /\ \A k \in 1 .. n : k \in 0 .. n /\ c[k] = F(c[k - 1])
  <2>1. 0 \in 0 .. n /\ \A k \in 1 .. n : k \in 0 .. n /\ k # 0 OBVIOUS
  <2>2. \A k \in 0 .. n : c[k] = IF k = 0 THEN first ELSE F(c[k - 1]) BY <1>7
  <2> QED BY <2>1, <2>2
<1> DEFINE G == {k \in Nat : k <= n => c[k] \in Nat}
<1>9. 0 \in G BY <1>8
<1>10. ASSUME NEW k \in Nat, k \in G PROVE k + 1 \in G
  <2> SUFFICES ASSUME k + 1 <= n PROVE c[k + 1] \in Nat OBVIOUS
  <2>1. k + 1 \in 1 .. n /\ (k + 1) - 1 = k /\ k <= n OBVIOUS
  <2> QED BY <1>1, <1>8, <1>10, <2>1
<1> HIDE DEF G
<1>11. Nat \subseteq G BY <1>9, <1>10, NatInduct
<1>12. \A k \in 0 .. n : c[k] \in Nat BY <1>11 DEF G
<1>13. c \in [0 .. n -> Nat] BY <1>7, <1>12
<1> QED BY <1>8, <1>13 DEF F

-----------------------------------------------------------------------------
(* The listing of a package.                                                 *)

\* What a slot of the file table adds to the listing.
ListedAt(slots, i) ==
  IF slots[i] = <<>> \/ slots[i][1].is_directory THEN <<>>
  ELSE <<[path |-> PathOf(slots, i), starting_block |-> slots[i][1].starting_block_num,
          size |-> slots[i][1].file_size]>>

LEMMA ListingRun ==
  ASSUME NEW n \in Nat, NEW slots, DOMAIN slots = 0 .. n - 1
  PROVE  \E run : IsConcatRun(run, [k \in 1 .. n |-> ListedAt(slots, k - 1)], n)
                  /\ FilesIn(slots) = run[n]
<1> DEFINE g == [k \in 1 .. n |-> ListedAt(slots, k - 1)]
<1>1. Cardinality(DOMAIN slots) = n BY CountOfUpTo
<1>2. FilesIn(slots) = FoldLeft(\o, <<>>, g) BY <1>1 DEF FilesIn, ListedAt
<1>3. HasLen(g, n) BY DEF HasLen
<1> HIDE DEF g
<1>4. \E run : IsConcatRun(run, g, n) /\ FoldLeft(\o, <<>>, g) = run[n] BY <1>3, ConcatRun
<1> QED BY <1>2, <1>4 DEF g

\* The chain of the file table, and what is in its blocks.
TableChain ==
  Chain(descriptor.file_table_block_num, descriptor.file_table_block_count - 1,
        TopTable, Level1Status(TopTable))

Listing == FilesIn(SlotsOf(TableChain))

LEMMA TableChainFacts ==
  ASSUME WInv, Package
  PROVE  LET n == layout.file_table_block_count
         IN /\ n \in Nat \ {0}
            /\ TableChain = Chain(0, n - 1, TopTable, Level1Status(TopTable))
            /\ DOMAIN TableChain = 0 .. n - 1
            /\ n * EntriesPerBlock \in Nat
            /\ DOMAIN SlotsOf(TableChain) = 0 .. n * EntriesPerBlock - 1
<1> DEFINE n == layout.file_table_block_count
           c == TableChain
<1>1. n \in Nat \ {0} BY PlannedLayout, TableCounts DEF WInv, LayoutOK, TotalBlocks
<1>2. descriptor.file_table_block_num = 0 /\ descriptor.file_table_block_count = n
  BY PackageFacts DEF Descriptor
<1>3. c = Chain(0, n - 1, TopTable, Level1Status(TopTable)) BY <1>2 DEF TableChain
<1>4. n - 1 \in Nat /\ 0 \in Nat BY <1>1
<1> HIDE DEF n, c
<1>5. c \in [0 .. n - 1 -> Nat] BY <1>3, <1>4, ChainFacts
<1>6. DOMAIN c = 0 .. n - 1 /\ Cardinality(DOMAIN c) = n BY <1>1, <1>5, CountOfUpTo
<1>7. DOMAIN SlotsOf(c) = 0 .. n * EntriesPerBlock - 1 BY <1>6 DEF SlotsOf
<1>8. n * EntriesPerBlock \in Nat BY <1>1, LayoutAssumption
<1> QED BY <1>1, <1>3, <1>6, <1>7, <1>8 DEF n, c

LEMMA ListingTyped ==
  ASSUME WInv, Package
  PROVE  \A f \in DOMAIN Listing : Listing[f].starting_block \in Nat
<1> DEFINE n == layout.file_table_block_count * EntriesPerBlock
           slots == SlotsOf(TableChain)
           g == [k \in 1 .. n |-> ListedAt(slots, k - 1)]
           V == {ListedAt(slots, i)[1] : i \in {j \in 0 .. n - 1 : ListedAt(slots, j) # <<>>}}
<1>1. n \in Nat /\ DOMAIN slots = 0 .. n - 1 BY TableChainFacts
<1>2. ASSUME NEW i \in 0 .. n - 1
      PROVE  slots[i] # <<>> => slots[i][1].starting_block_num \in Nat
  <2>1. PICK block, m : /\ GoodBlock(block)
                        /\ slots[i] = IF block.kind = "listing" /\ m \in DOMAIN block.slots
                                      THEN <<block.slots[m]>> ELSE <<>>
    <3>1. \A a : GoodBlock(PhysicalBlock(a)) BY PackageFacts
    <3> DEFINE b == PhysicalBlock(BackingDataBlock(TableChain[i \div EntriesPerBlock]))
               m == (i % EntriesPerBlock) + 1
    <3>2. i \in DOMAIN slots BY <1>1
    <3>3. slots[i] = IF b.kind = "listing" /\ m \in DOMAIN b.slots
                     THEN <<b.slots[m]>> ELSE <<>>
      BY <3>2 DEF SlotsOf
    <3> HIDE DEF slots
    <3> QED BY <3>1, <3>3
  <2> QED BY <2>1 DEF GoodBlock
<1> HIDE DEF n, slots
<1>3. ASSUME NEW i \in 0 .. n - 1
      PROVE  ListedAt(slots, i) # <<>> =>
               /\ ListedAt(slots, i) = <<ListedAt(slots, i)[1]>>
               /\ ListedAt(slots, i)[1].starting_block \in Nat
  BY <1>2 DEF ListedAt
<1>4. ASSUME NEW k \in 1 .. n
      PROVE  g[k] \in Seq(V)
  <2>1. g[k] = ListedAt(slots, k - 1) /\ k - 1 \in 0 .. n - 1 BY <1>1
  <2>2. CASE g[k] = <<>>
    <3> HIDE DEF g, V
    <3>1. <<>> \in Seq(V) OBVIOUS
    <3> QED BY <2>2, <3>1
  <2>3. CASE g[k] # <<>>
    <3>1. ListedAt(slots, k - 1)[1] \in V BY <2>1, <2>3
    <3>2. g[k] = <<ListedAt(slots, k - 1)[1]>> BY <1>3, <2>1, <2>3
    <3> HIDE DEF V, g
    <3> QED BY <3>1, <3>2
  <2> QED BY <2>2, <2>3
<1>5. \A v \in V : v.starting_block \in Nat BY <1>3
<1>6. PICK run : IsConcatRun(run, g, n) /\ Listing = run[n] BY <1>1, ListingRun DEF Listing, slots
<1> HIDE DEF g, V
<1>7. Listing \in Seq(V)
  <2>1. \A k \in 0 .. n : run[k] \in Seq(V) BY <1>1, <1>4, <1>6, ConcatRunTyped
  <2>2. n \in 0 .. n BY <1>1
  <2> QED BY <1>6, <2>1, <2>2
<1>8. \A f \in DOMAIN Listing : Listing[f] \in V BY <1>7
<1> QED BY <1>5, <1>8

-----------------------------------------------------------------------------
(* The invariant with the reader.                                            *)

ReaderOK ==
  /\ reader \in {"closed", "open", "rejected"}
  /\ reader # "closed" => Package
  /\ reader = "open" =>
       /\ top_table = TopTable
       /\ level1_status = Level1Status(TopTable)
       /\ listed = Listing
  /\ reader # "open" => listed = <<>>
  /\ \E q \in Nat : chain_cursor.pos = q * BlockSize
  /\ chain_cursor.block \in 0 .. TotalBlocks - 1
  /\ last_read.file \in {-1} \cup DOMAIN listed

IInv == WInv /\ ReaderOK

\* The package is there for good.
LEMMA PackageStays ==
  ASSUME WInv, Package
  PROVE  ~WriterCall /\ ~WriterFails
<1>1. phase = "Done" /\ pc # "hashing" BY DEF Package, Done, WInv, CursorsOK
<1> QED
  BY <1>1 DEF WriterCall, WriterFails, HashNextBlock, NothingToHash, EmitHeader, EmitUpperTable,
     EmitLevel0Table, EmitData, Exhausted, HashingFails, HeaderFails, StreamingFails, InBody

\* What a reader finds depends on the package alone.
LEMMA FoundSame ==
  ASSUME emitted' = emitted
  PROVE  /\ TopTable' = TopTable
         /\ Level1Status(TopTable)' = Level1Status(TopTable)
         /\ TableChain' = TableChain
         /\ Listing' = Listing
<1>1. descriptor' = descriptor /\ allocated' = allocated /\ Level' = Level
  BY DEF descriptor, allocated, Level
<1>2. \A n : PhysicalBlock(n)' = PhysicalBlock(n) BY DEF PhysicalBlock, descriptor
<1>3. TopAddress' = TopAddress BY <1>1 DEF TopAddress
<1>4. TopTable' = TopTable BY <1>1, <1>2, <1>3 DEF TopTable
<1>5. Level1Status(TopTable)' = Level1Status(TopTable) BY <1>1, <1>2, <1>4 DEF Level1Status
<1>6. \A b, top, level1 : LinkOf(b, top, level1)' = LinkOf(b, top, level1) BY <1>1, <1>2 DEF LinkOf
<1>7. TableChain' = TableChain BY <1>1, <1>4, <1>5, <1>6 DEF TableChain, Chain
<1>8. SlotsOf(TableChain)' = SlotsOf(TableChain) BY <1>2, <1>7 DEF SlotsOf
<1>9. Listing' = Listing BY <1>8 DEF Listing
<1> QED BY <1>4, <1>5, <1>7, <1>9

LEMMA InitIInv == Init => IInv
<1> SUFFICES ASSUME Init PROVE IInv OBVIOUS
<1>1. WInv BY InitWInv DEF Init
<1>2. TotalBlocks \in Nat \ {0} BY <1>1, TableCounts DEF WInv
<1>3. 0 = 0 * BlockSize BY LayoutAssumption
<1>4. ReaderOK BY <1>2, <1>3 DEF Init, ReaderInit, ReaderOK, NoCursor, NoRead
<1> QED BY <1>1, <1>4 DEF IInv

\* The reader is not concerned by a session under way.
LEMMA WriterStepIInv ==
  ASSUME IInv, WriterCall \/ WriterFails, UNCHANGED readerVars
  PROVE  IInv'
<1>1. WInv' BY WriterNext DEF IInv
<1>2. ~Package BY PackageStays DEF IInv
<1>3. reader = "closed" /\ listed = <<>> BY <1>2 DEF IInv, ReaderOK
<1>4. TotalBlocks' = TotalBlocks
  <2>1. UNCHANGED openVars
    BY DEF WriterCall, WriterFails, HashNextBlock, NothingToHash, EmitHeader, EmitUpperTable,
       EmitLevel0Table, EmitData, Exhausted, HashingFails, HeaderFails, StreamingFails, Spoil
  <2> QED BY <2>1 DEF openVars, TotalBlocks
<1>5. ReaderOK' BY <1>3, <1>4 DEF IInv, ReaderOK, readerVars
<1> QED BY <1>1, <1>5 DEF IInv

LEMMA WriterStaysIInv ==
  ASSUME IInv, UNCHANGED writerVars
  PROVE  /\ WInv' /\ TotalBlocks' = TotalBlocks
         /\ Package' = Package
         /\ TopTable' = TopTable /\ Level1Status(TopTable)' = Level1Status(TopTable)
         /\ Listing' = Listing
<1>1. WInv' BY WriterNext DEF IInv
<1>2. layout' = layout /\ emitted' = emitted /\ phase' = phase /\ spoiled_at' = spoiled_at
  BY DEF writerVars, openVars, streamVars
<1> QED BY <1>1, <1>2, FoundSame DEF TotalBlocks, Package, Done

LEMMA StutterIInv ==
  ASSUME IInv, UNCHANGED vars
  PROVE  IInv'
<1>1. UNCHANGED writerVars /\ UNCHANGED readerVars BY DEF vars
<1>2. /\ WInv' /\ TotalBlocks' = TotalBlocks /\ Package' = Package
      /\ TopTable' = TopTable /\ Level1Status(TopTable)' = Level1Status(TopTable)
      /\ Listing' = Listing
  BY <1>1, WriterStaysIInv
<1>3. ReaderOK' BY <1>1, <1>2 DEF IInv, ReaderOK, readerVars
<1> QED BY <1>2, <1>3 DEF IInv

LEMMA OpenReaderIInv ==
  ASSUME IInv, OpenReader
  PROVE  IInv'
<1>1. /\ Package /\ reader = "closed" /\ UNCHANGED writerVars
      /\ chain_cursor' = chain_cursor /\ last_read' = last_read
      /\ \/ /\ reader' = "open" /\ top_table' = TopTable
            /\ level1_status' = Level1Status(TopTable) /\ listed' = Listing
         \/ reader' = "rejected" /\ listed' = listed
  BY DEF OpenReader, Package, Listing, TableChain
<1>2. /\ WInv' /\ TotalBlocks' = TotalBlocks /\ Package' = Package
      /\ TopTable' = TopTable /\ Level1Status(TopTable)' = Level1Status(TopTable)
      /\ Listing' = Listing
  BY <1>1, WriterStaysIInv
<1>3. listed = <<>> /\ last_read.file = -1 BY <1>1 DEF IInv, ReaderOK
<1>4. ReaderOK' BY <1>1, <1>2, <1>3 DEF IInv, ReaderOK
<1> QED BY <1>2, <1>4 DEF IInv

\* Where a read begins, and how many blocks it follows.
LEMMA ReadFacts ==
  ASSUME IInv, reader = "open", NEW f \in DOMAIN listed,
         NEW offset \in ReadOffsets, NEW len \in ReadLengths,
         NEW start, start = IF CursorServes(f, offset)
                            THEN [block |-> chain_cursor.block, pos |-> chain_cursor.pos]
                            ELSE [block |-> listed[f].starting_block, pos |-> 0],
         NEW hops, hops = (offset + Max({len, 1}) - 1 - start.pos) \div BlockSize
  PROVE  /\ offset \in Nat /\ len \in Nat
         /\ start.block \in Nat /\ start.pos \in Nat /\ start.pos <= offset
         /\ \E q \in Nat : start.pos = q * BlockSize
         /\ hops \in Nat
         /\ Max({len, 1}) = IF len = 0 THEN 1 ELSE len
<1>1. offset \in Nat /\ len \in Nat /\ BlockSize \in Nat \ {0} BY ReaderAssumption, LayoutAssumption
<1>2. Max({len, 1}) = IF len = 0 THEN 1 ELSE len
  <2>1. Max({len, 1}) = IF 1 <= len THEN len ELSE 1 BY <1>1, MaxPair
  <2> QED BY <1>1, <2>1
<1>3. PICK q \in Nat : chain_cursor.pos = q * BlockSize BY DEF IInv, ReaderOK
<1>4. q * BlockSize \in Nat /\ 0 * BlockSize = 0 /\ TotalBlocks \in Nat
  BY <1>1, TableCounts DEF IInv, WInv
<1>5. start.block \in Nat /\ start.pos \in Nat /\ start.pos <= offset
      /\ \E p \in Nat : start.pos = p * BlockSize
  <2>1. CASE CursorServes(f, offset)
    <3>1. start.block = chain_cursor.block /\ start.pos = chain_cursor.pos
          /\ chain_cursor.pos <= offset /\ chain_cursor.block \in 0 .. TotalBlocks - 1
      BY <2>1 DEF CursorServes, IInv, ReaderOK
    <3> QED BY <1>3, <1>4, <3>1
  <2>2. CASE ~CursorServes(f, offset)
    <3>1. start.block = listed[f].starting_block /\ start.pos = 0 BY <2>2
    <3>2. listed[f].starting_block \in Nat BY ListingTyped DEF IInv, ReaderOK
    <3> QED BY <1>1, <1>4, <3>1, <3>2
  <2> QED BY <2>1, <2>2
<1>6. hops \in Nat
  <2> DEFINE m == Max({len, 1})
             p == start.pos
             x == offset + m - 1 - p
  <2>1. hops = x \div BlockSize OBVIOUS
  <2>2. m = (IF len = 0 THEN 1 ELSE len) /\ p \in Nat /\ p <= offset BY <1>2, <1>5
  <2> HIDE DEF m, p
  <2>3. m \in Nat /\ m >= 1 BY <1>1, <2>2
  <2>4. x \in Nat BY ONLY <1>1, <2>2, <2>3
  <2> HIDE DEF x
  <2> QED BY <1>1, <2>1, <2>4, DivMod
<1> QED BY <1>1, <1>2, <1>5, <1>6

LEMMA ReadFileRangeIInv ==
  ASSUME IInv, NEW f \in DOMAIN listed, NEW offset \in ReadOffsets, NEW len \in ReadLengths,
         ReadFileRange(f, offset, len)
  PROVE  IInv'
<1> DEFINE start == IF CursorServes(f, offset)
                    THEN [block |-> chain_cursor.block, pos |-> chain_cursor.pos]
                    ELSE [block |-> listed[f].starting_block, pos |-> 0]
           hops == (offset + Max({len, 1}) - 1 - start.pos) \div BlockSize
           chain == Chain(start.block, hops, top_table, level1_status)
<1>1. /\ reader = "open" /\ UNCHANGED writerVars
      /\ reader' = reader /\ top_table' = top_table /\ level1_status' = level1_status
      /\ listed' = listed
      /\ last_read'.file = f
      /\ \/ /\ Legal(chain)
            /\ chain_cursor' =
                 [file |-> f, block |-> chain[hops], pos |-> start.pos + hops * BlockSize]
         \/ chain_cursor' = chain_cursor
  BY DEF ReadFileRange
<1>2. /\ WInv' /\ TotalBlocks' = TotalBlocks /\ Package' = Package
      /\ TopTable' = TopTable /\ Level1Status(TopTable)' = Level1Status(TopTable)
      /\ Listing' = Listing
  BY <1>1, WriterStaysIInv
<1>3. /\ start.block \in Nat /\ start.pos \in Nat /\ hops \in Nat
      /\ \E q \in Nat : start.pos = q * BlockSize
  <2>1. start = IF CursorServes(f, offset)
      THEN [block |-> chain_cursor.block, pos |-> chain_cursor.pos]
      ELSE [block |-> listed[f].starting_block, pos |-> 0]
    OBVIOUS
  <2>2. hops = (offset + Max({len, 1}) - 1 - start.pos) \div BlockSize OBVIOUS
  <2>3. IInv /\ reader = "open" /\ f \in DOMAIN listed
        /\ offset \in ReadOffsets /\ len \in ReadLengths
    BY <1>1
  <2> HIDE DEF start, hops
  <2> QED BY ONLY <2>1, <2>2, <2>3, ReadFacts
<1> HIDE DEF start, hops
<1>4. Legal(chain) => chain[hops] \in 0 .. TotalBlocks - 1
  <2> SUFFICES ASSUME Legal(chain) PROVE chain[hops] \in 0 .. TotalBlocks - 1 OBVIOUS
  <2>1. Package /\ WInv BY <1>1 DEF IInv, ReaderOK
  <2>2. chain \in [0 .. hops -> Nat] BY <1>3, <2>1, ChainFacts
  <2>3. hops \in 0 .. hops BY <1>3
  <2>4. chain[hops] < allocated BY <2>2, <2>3 DEF Legal
  <2>5. allocated = TotalBlocks /\ TotalBlocks \in Nat BY <2>1, PackageFacts, TableCounts DEF WInv
  <2> HIDE DEF chain
  <2> QED BY <2>2, <2>3, <2>4, <2>5
<1> HIDE DEF chain
<1>5. chain_cursor'.block \in 0 .. TotalBlocks - 1
      /\ \E q \in Nat : chain_cursor'.pos = q * BlockSize
  <2>1. CASE Legal(chain) /\ chain_cursor' =
               [file |-> f, block |-> chain[hops], pos |-> start.pos + hops * BlockSize]
    <3>1. PICK q \in Nat : start.pos = q * BlockSize BY <1>3
    <3>2. q + hops \in Nat /\ start.pos + hops * BlockSize = (q + hops) * BlockSize
      BY <1>3, <3>1, LayoutAssumption
    <3> QED BY <1>4, <2>1, <3>2
  <2>2. CASE chain_cursor' = chain_cursor BY <2>2 DEF IInv, ReaderOK
  <2> QED BY <1>1, <2>1, <2>2
<1>6. ReaderOK' BY <1>1, <1>2, <1>5 DEF IInv, ReaderOK
<1> QED BY <1>2, <1>6 DEF IInv

LEMMA NextIInv == IInv /\ [Next]_vars => IInv'
<1> SUFFICES ASSUME IInv, [Next]_vars PROVE IInv' OBVIOUS
<1>1. CASE (WriterCall \/ WriterFails) /\ UNCHANGED readerVars BY <1>1, WriterStepIInv
<1>2. CASE OpenReader BY <1>2, OpenReaderIInv
<1>3. ASSUME NEW f \in DOMAIN listed, NEW offset \in ReadOffsets, NEW len \in ReadLengths,
             ReadFileRange(f, offset, len)
      PROVE  IInv'
  BY <1>3, ReadFileRangeIInv
<1>4. CASE UNCHANGED vars BY <1>4, StutterIInv
<1> QED BY <1>1, <1>2, <1>3, <1>4 DEF Next, ReaderCall, Stopped

\* The inductive invariant: the session's cursors, lengths, tables and blocks,
\* and what the reader has found of them.
THEOREM Invariant == Spec => []IInv
<1>1. Init => IInv BY InitIInv
<1>2. IInv /\ [Next]_vars => IInv' BY NextIInv
<1> QED BY <1>1, <1>2, PTL DEF Spec

-----------------------------------------------------------------------------
(* Types, and the length of what is handed over.                             *)

\* The package ends behind its last block.
LEMMA OutputSize ==
  ASSUME Planned
  PROVE  /\ TotalPhysicalBlocks(layout) = From(TotalBlocks)
         /\ From(TotalBlocks) \in Nat
         /\ TotalOutputSize(layout) = (HeaderBlocks + From(TotalBlocks)) * BlockSize
<1>1. TotalBlocks \in Nat /\ TotalBlocks # 0 BY TableCounts
<1>2. TotalPhysicalBlocks(layout) = From(TotalBlocks) BY <1>1 DEF TotalPhysicalBlocks, From, TotalBlocks
<1> QED BY <1>1, <1>2, Gaps DEF TotalOutputSize, HeaderBlocks

\* The cursor never leaves the package.
LEMMA CursorInPackage ==
  ASSUME Planned, CursorsOK
  PROVE  physical_cursor \in 0 .. From(TotalBlocks)
<1>1. TotalBlocks \in Nat /\ block_num \in Nat /\ block_num <= TotalBlocks
      /\ physical_cursor \in Nat
  BY TableCounts DEF CursorsOK
<1>2. From(TotalBlocks) \in Nat BY <1>1, Gaps
<1>3. CASE block_num = TotalBlocks BY <1>1, <1>2, <1>3 DEF CursorsOK
<1>4. CASE block_num < TotalBlocks
  <2>1. physical_cursor <= BackingDataBlock(block_num) BY <1>4 DEF CursorsOK
  <2>2. BackingDataBlock(block_num) < From(TotalBlocks) /\ BackingDataBlock(block_num) \in Nat
    BY <1>1, <1>4, BackingMonotonic, Gaps
  <2> QED BY <1>1, <1>2, <2>1, <2>2
<1> QED BY <1>1, <1>3, <1>4

\* There is a hasher while there is something to hash, and then a tree.
LEMMA HasherOrTree ==
  ASSUME Planned, HashOK
  PROVE  /\ hashing_done => level0_tables = <<>>
         /\ ~hashing_done => level0_tables # <<>>
         /\ signed /\ hashing_done => hash_tree # NoTree
         /\ ~(signed /\ hashing_done) => hash_tree = NoTree
<1>1. ~hashing_done => level0_tables # <<>>
  <2> SUFFICES ASSUME ~hashing_done PROVE level0_tables # <<>> OBVIOUS
  <2>1. TableCount \in Nat \ {0} BY TableCounts
  <2>2. level0_tables = TablesAfter(next_hash_block) BY DEF HashOK
  <2>3. DOMAIN level0_tables = 0 .. TableCount - 1 BY <2>2 DEF TablesAfter
  <2>4. 0 \in 0 .. TableCount - 1 BY <2>1
  <2>5. 0 \notin DOMAIN <<>> OBVIOUS
  <2> QED BY <2>3, <2>4, <2>5
<1>2. WholeTree # NoTree BY WholeTreeFacts
<1> QED BY <1>1, <1>2 DEF HashOK

LEMMA WriterTyped ==
  ASSUME WInv
  PROVE  WriterTypeOK
<1> USE DEF WInv
<1>1. layout.top_level \in 0 .. 2 BY TableCounts
<1>2. signed \in BOOLEAN /\ hashing_done \in BOOLEAN BY DEF CursorsOK, HashOK
<1>3. physical_cursor \in 0 .. TotalPhysicalBlocks(layout) BY CursorInPackage, OutputSize
<1>4. /\ hashing_done => level0_tables = <<>>
      /\ ~hashing_done => level0_tables # <<>>
      /\ signed /\ hashing_done => hash_tree # NoTree
      /\ ~(signed /\ hashing_done) => hash_tree = NoTree
  BY HasherOrTree
<1>5. (level0_tables # <<>>) <=> ~hashing_done BY <1>4
<1>6. (hash_tree # NoTree) <=> (signed /\ hashing_done) BY <1>4
<1>7. \A i \in DOMAIN emitted :
    emitted[i].kind \in {"header", "padding", "listing", "data", "table"}
  <2>1. DOMAIN emitted = 1 .. Len(emitted) BY SequenceLength DEF LengthOK
  <2> QED BY <2>1 DEF BlocksOK, GoodBlock
<1>8. spoiled_at \in {Whole} \cup 0 .. Len(emitted) BY DEF LengthOK
<1>9. files \in Listings BY DEF Planned
<1>10. block_num \in 0 .. layout.total_blocks /\ next_hash_block \in 0 .. layout.total_blocks
  BY DEF CursorsOK, HashOK, TotalBlocks
<1>11. phase \in {"Header", "Body", "Done"} /\ pc \in {"hashing", "streaming", "failed"}
       /\ failures \in 0 .. MaxFailures
  BY DEF CursorsOK
<1> QED BY <1>1, <1>2, <1>3, <1>5, <1>6, <1>7, <1>8, <1>9, <1>10, <1>11 DEF WriterTypeOK

LEMMA TableStatuses ==
  ASSUME WInv, Package
  PROVE  /\ Level = layout.top_level
         /\ Level = 1 =>
              \A b \in 0 .. allocated - 1 : b \div EntriesPerTable \in DOMAIN TopTable
         /\ Level = 2 => DOMAIN Level1Status(TopTable) = DOMAIN TopTable
<1>1. Level = layout.top_level /\ allocated = TotalBlocks /\ TotalBlocks \in Nat \ {0}
  BY PackageFacts, TableCounts DEF WInv
<1>2. ASSUME Level = 1, NEW b \in 0 .. allocated - 1
      PROVE  b \div EntriesPerTable \in DOMAIN TopTable
  <2>1. DOMAIN TopTable = 0 .. CeilDiv(TotalBlocks, E) - 1 BY <1>1, <1>2 DEF TopTable, E
  <2>2. Table0(b) \in 0 .. TableCount - 1 BY <1>1, TableCounts DEF WInv
  <2> QED BY <2>1, <2>2 DEF Table0, TableCount, E
<1>3. ASSUME Level = 2
      PROVE  DOMAIN Level1Status(TopTable) = DOMAIN TopTable
  BY <1>3 DEF Level1Status
<1> QED BY <1>1, <1>2, <1>3

LEMMA Typed ==
  ASSUME IInv
  PROVE  TypeOK
<1>1. WriterTypeOK BY WriterTyped DEF IInv
<1>2. reader = "open" =>
    /\ Level = layout.top_level
    /\ \A b \in 0 .. allocated - 1 : Level = 1 => b \div EntriesPerTable \in DOMAIN top_table
    /\ Level = 2 => DOMAIN level1_status = DOMAIN top_table
  BY TableStatuses DEF IInv, ReaderOK
<1>3. chain_cursor.pos % BlockSize = 0
  <2>1. PICK q \in Nat : chain_cursor.pos = q * BlockSize BY DEF IInv, ReaderOK
  <2> DEFINE p == q * BlockSize
  <2>2. BlockSize \in Nat \ {0} /\ p \in Nat /\ q * BlockSize <= p /\ p < q * BlockSize + BlockSize
        /\ p - q * BlockSize = 0
    BY LayoutAssumption
  <2>3. p % BlockSize = p - q * BlockSize
    <3> HIDE DEF p
    <3> QED BY <2>2, DivUnique
  <2> QED BY <2>1, <2>2, <2>3
<1>4. chain_cursor.block \in 0 .. layout.total_blocks - 1 BY DEF IInv, ReaderOK, TotalBlocks
<1> QED BY <1>1, <1>2, <1>3, <1>4 DEF TypeOK, IInv, ReaderOK

\* Fewer blocks are fewer bytes.
LEMMA FewerBytes ==
  ASSUME NEW a \in Nat, NEW b \in Nat, NEW d \in Nat \ {0}, a < b
  PROVE  a * d \in Nat /\ b * d \in Nat /\ a * d < b * d
<1>1. a + 1 \in Nat /\ a + 1 <= b /\ (a + 1) * d = a * d + d OBVIOUS
<1>2. (a + 1) * d <= b * d BY <1>1, MultMonotonic
<1>3. a * d \in Nat /\ b * d \in Nat OBVIOUS
<1> QED BY <1>1, <1>2, <1>3

LEMMA LengthTells ==
  ASSUME IInv
  PROVE  ShortExactlyIfThrown
<1> SUFFICES ASSUME Done
    PROVE  (Len(emitted) * BlockSize = TotalOutputSize(layout)) <=> (spoiled_at = Whole)
  BY DEF ShortExactlyIfThrown
<1> DEFINE n == Len(emitted)
           m == HeaderBlocks + From(TotalBlocks)
<1>1. WInv /\ phase = "Done" /\ BlockSize \in Nat \ {0} BY LayoutAssumption DEF IInv, Done
<1>2. TotalOutputSize(layout) = m * BlockSize /\ m \in Nat BY <1>1, OutputSize, HeaderFacts DEF WInv
<1>3. physical_cursor = From(TotalBlocks) BY <1>1 DEF WInv, CursorsOK
<1>4. n \in Nat BY <1>1, SequenceLength DEF WInv, LengthOK, HasLen
<1>5. spoiled_at = Whole => n = m BY <1>1, <1>3 DEF WInv, LengthOK
<1>6. spoiled_at # Whole => n < m BY <1>1, <1>3 DEF WInv, LengthOK
<1> HIDE DEF n, m
<1>7. n < m => n * BlockSize # m * BlockSize BY <1>1, <1>2, <1>4, FewerBytes
<1> QED BY <1>2, <1>5, <1>6, <1>7 DEF n

\* What is handed over is exactly as long as the manifest says, unless
\* next_chunk() has thrown and been called again: whoever appends the chunks
\* can tell a spoiled package by its size.
THEOREM LengthIsTrue == Spec => []ShortExactlyIfThrown
<1>1. IInv => ShortExactlyIfThrown BY LengthTells
<1> QED BY Invariant, <1>1, PTL

-----------------------------------------------------------------------------
(* The hash tree of a signed package.                                        *)

Sealed == WInv /\ Package /\ signed

LEMMA SealedTree ==
  ASSUME Sealed
  PROVE  /\ Planned
         /\ hash_tree = WholeTree /\ hash_tree # NoTree
         /\ Level = layout.top_level /\ allocated = TotalBlocks
         /\ descriptor = Descriptor
<1>1. WInv /\ Package /\ signed /\ hashing_done BY DEF Sealed, WInv, CursorsOK, Package, Done
<1>2. hash_tree = WholeTree BY <1>1 DEF WInv, HashOK
<1> QED BY <1>1, <1>2, PackageFacts, WholeTreeFacts DEF WInv

LEMMA BlockFound ==
  ASSUME WInv, Package, NEW b \in 0 .. TotalBlocks - 1
  PROVE  BlockAt(b) = Content(b)
<1>1. TotalBlocks \in Nat /\ b \in Nat BY TableCounts DEF WInv
<1>2. BackingDataBlock(b) \in From(b) .. BackingDataBlock(b) BY <1>1, Gaps
<1>3. PhysicalBlock(BackingDataBlock(b)) = BlockFor(b, BackingDataBlock(b)) BY <1>2, PackageFacts
<1>4. BackingDataBlock(b) >= BackingDataBlock(b) BY <1>1, Gaps
<1> QED BY <1>3, <1>4 DEF BlockAt, BlockFor

\* A reader finds the level-0 table of a block.
LEMMA Level0At ==
  ASSUME WInv, Package, NEW b \in 0 .. TotalBlocks - 1
  PROVE  /\ Table0(b) \in 0 .. TableCount - 1
         /\ (Table0(b) * E) \div EntriesPerTable = Table0(b)
         /\ PhysicalBlock(BackingLevel0(b)) = Level0Table(Table0(b) * E)
<1> DEFINE T == TotalBlocks
           t == Table0(b)
           n == t * E
           a == BackingLevel0(b)
<1>1. T \in Nat /\ b \in Nat /\ b < T /\ t \in 0 .. TableCount - 1 BY TableCounts DEF WInv
<1>2. /\ n \in Nat /\ n <= b /\ a \in Nat
      /\ From(n) <= a /\ a < BackingDataBlock(n)
      /\ a # BackingLevel1(n) /\ a # BackingLevel2
  BY <1>1, Level0InGap
<1>3. t \in Nat /\ Table0(n) = t BY <1>1, Coordinates, FirstOfTable
<1>4. From(n) \in Nat /\ BackingDataBlock(n) \in Nat BY <1>2, Gaps
<1> HIDE DEF t, n, a, T
<1>5. PhysicalBlock(a) = BlockFor(n, a)
  <2>1. n \in 0 .. T - 1 /\ a \in From(n) .. BackingDataBlock(n) BY <1>1, <1>2, <1>4
  <2> QED BY <2>1, PackageFacts DEF T
<1>6. ~(a >= BackingDataBlock(n)) BY <1>2, <1>4
<1>7. BlockFor(n, a) = Level0Table(n) BY <1>2, <1>6 DEF BlockFor
<1>8. n \div EntriesPerTable = t BY <1>3 DEF Table0, E
<1> QED BY <1>1, <1>5, <1>7, <1>8 DEF t, n, a

\* With all its blocks hashed, if the package is signed.
LEMMA Level0Found ==
  ASSUME Sealed, NEW b \in 0 .. TotalBlocks - 1
  PROVE  /\ Table0(b) \in 0 .. TableCount - 1
         /\ PhysicalBlock(BackingLevel0(b)) = TableAfter(Table0(b), TotalBlocks)
<1> DEFINE T == TotalBlocks
           t == Table0(b)
           n == t * E
<1>1. T \in Nat /\ b \in Nat /\ b < T /\ t \in 0 .. TableCount - 1 BY TableCounts DEF Sealed, WInv
<1>2. PhysicalBlock(BackingLevel0(b)) = Level0Table(n) /\ n \div EntriesPerTable = t
  BY Level0At DEF Sealed
<1> HIDE DEF t, n, T
<1>3. Level0Table(n) = IF layout.top_level = 0 THEN WholeTree.top ELSE WholeTree.level0[t]
  BY <1>2, SealedTree DEF Level0Table
<1>4. CASE layout.top_level = 0
  <2>1. T <= E /\ E \in Nat BY <1>4, TableCounts, Sizes DEF Sealed, WInv, T
  <2>2. t = 0 BY <1>1, <2>1, Addresses DEF t
  <2>3. WholeTree.top = TableAfter(0, T) BY <1>4, WholeTreeFacts DEF Sealed, WInv, T
  <2> QED BY <1>1, <1>2, <1>3, <1>4, <2>2, <2>3 DEF t, T
<1>5. CASE layout.top_level # 0
  <2>1. WholeTree.level0 = TablesAfter(T) BY <1>5, WholeTreeFacts DEF Sealed, WInv, T
  <2>2. TablesAfter(T)[t] = TableAfter(t, T) BY <1>1 DEF TablesAfter
  <2> QED BY <1>1, <1>2, <1>3, <1>5, <2>1, <2>2 DEF t, T
<1> QED BY <1>4, <1>5

\* A reader finds the level-1 table of a block.
LEMMA Level1Found ==
  ASSUME Sealed, layout.top_level # 0, NEW b \in 0 .. TotalBlocks - 1
  PROVE  PhysicalBlock(BackingLevel1(b)) =
           IF layout.top_level = 1 THEN WholeTree.top ELSE WholeTree.level1[Table1(b)]
<1> DEFINE T == TotalBlocks
           n == MeetsLevel1(b)
           a == BackingLevel1(b)
<1>1. T \in Nat /\ b \in Nat /\ b < T BY TableCounts DEF Sealed, WInv
<1>2. /\ n \in Nat /\ (n = E \/ n <= b) /\ Table1(n) = Table1(b)
      /\ BackingLevel1(n) = a /\ a \in Nat
      /\ From(n) <= a /\ a < BackingDataBlock(n) /\ a # BackingLevel2
  BY <1>1, Level1InGap
<1>3. E < T /\ E \in Nat
  <2>1. layout.top_level = TopLevel(T) BY TableCounts DEF Sealed, WInv
  <2> QED BY <1>1, <2>1, Sizes DEF TopLevel, E
<1>4. From(n) \in Nat /\ BackingDataBlock(n) \in Nat BY <1>2, Gaps
<1> HIDE DEF n, a, T
<1>5. PhysicalBlock(a) = BlockFor(n, a)
  <2>1. n \in 0 .. T - 1 /\ a \in From(n) .. BackingDataBlock(n) BY <1>1, <1>2, <1>3, <1>4
  <2> QED BY <2>1, PackageFacts DEF Sealed, T
<1>6. ~(a >= BackingDataBlock(n)) BY <1>2, <1>4
<1>7. BlockFor(n, a) = UpperTable(layout.top_level = 1, n) BY <1>2, <1>6 DEF BlockFor
<1>8. UpperTable(layout.top_level = 1, n) =
    IF layout.top_level = 1 THEN WholeTree.top ELSE WholeTree.level1[Table1(n)]
  BY SealedTree DEF UpperTable, Table1
<1> QED BY <1>2, <1>5, <1>7, <1>8 DEF a

\* A reader finds the top table.
LEMMA TopFound ==
  ASSUME Sealed
  PROVE  PhysicalBlock(TopAddress) = WholeTree.top
<1>1. Planned /\ Level = layout.top_level /\ Level \in {0, 1, 2}
      /\ TotalBlocks \in Nat \ {0} /\ 0 \in 0 .. TotalBlocks - 1
  BY SealedTree, TableCounts
<1>2. CASE Level = 0
  <2>1. Table0(0) = 0 /\ BackingLevel0(0) = 0 BY Addresses, Sizes
  <2>2. PhysicalBlock(BackingLevel0(0)) = TableAfter(0, TotalBlocks) BY <1>1, <2>1, Level0Found
  <2>3. WholeTree.top = TableAfter(0, TotalBlocks) BY <1>1, <1>2, WholeTreeFacts
  <2> QED BY <1>2, <2>1, <2>2, <2>3 DEF TopAddress
<1>3. CASE Level = 1
  <2>1. PhysicalBlock(BackingLevel1(0)) = WholeTree.top BY <1>1, <1>3, Level1Found
  <2> QED BY <1>3, <2>1 DEF TopAddress
<1>4. CASE Level = 2
  <2> DEFINE n == PerLevel1
             a == BackingLevel2
  <2>1. n \in Nat /\ a \in Nat /\ From(n) <= a /\ a < BackingDataBlock(n) BY Level2InGap
  <2>2. n < TotalBlocks
    <3>1. layout.top_level = TopLevel(TotalBlocks) BY <1>1, TableCounts
    <3>2. EntriesPerTable \in Nat BY Sizes DEF E
    <3>3. TopLevel(TotalBlocks) = 2 BY <1>1, <1>4, <3>1
    <3> HIDE DEF n
    <3>4. TotalBlocks <= PerLevel1 => TopLevel(TotalBlocks) \in {0, 1} BY <1>1, <3>2, Sizes DEF TopLevel
    <3> QED BY <1>1, <3>3, <3>4, Sizes DEF n
  <2>3. From(n) \in Nat /\ BackingDataBlock(n) \in Nat BY <2>1, Gaps
  <2> HIDE DEF n, a
  <2>4. n \in 0 .. TotalBlocks - 1 /\ a \in From(n) .. BackingDataBlock(n) BY <1>1, <2>1, <2>2, <2>3
  <2>5. PhysicalBlock(a) = BlockFor(n, a) BY <2>4, PackageFacts DEF Sealed
  <2>6. ~(a >= BackingDataBlock(n)) BY <2>1, <2>3
  <2>7. BlockFor(n, a) = UpperTable(TRUE, n) BY <1>1, <1>4, <2>6 DEF BlockFor, a
  <2>8. UpperTable(TRUE, n) = WholeTree.top BY SealedTree DEF UpperTable
  <2>9. TopAddress = a BY <1>4 DEF TopAddress, a
  <2> QED BY <2>5, <2>7, <2>8, <2>9
<1> QED BY <1>1, <1>2, <1>3, <1>4

-----------------------------------------------------------------------------
(* What the tables list.                                                     *)

LEMMA RollUpLists ==
  ASSUME NEW tables, NEW first, NEW n, NEW h, NEW block,
         NEW i \in Locals, i < n, block = tables[first + i]
  PROVE  Lists(RollUp(tables, first, n, h), i, block)
BY DEF RollUp, Table, Lists, RecordAt, Record

LEMMA RollUpCounts ==
  ASSUME NEW tables, NEW first, NEW n, NEW h
  PROVE  RollUp(tables, first, n, h).blocks_hashed = h
BY DEF RollUp, Table

LEMMA TableLists ==
  ASSUME NEW b \in Nat, NEW T \in Nat, b < T
  PROVE  Lists(TableAfter(Table0(b), T), b % EntriesPerTable, Content(b))
<1> DEFINE t == Table0(b)
           i == b % EntriesPerTable
<1>1. i \in Locals /\ t * E + i = b /\ t * E \in Nat BY Coordinates DEF Locals, E
<1> HIDE DEF t, i
<1>2. TableAfter(t, T).kind = "table" BY DEF TableAfter, Table
<1>3. TableAfter(t, T).records[i] =
    IF t * E + i < T
    THEN Record(Digest(Content(t * E + i)), 128, NextBlock(layout, t * E + i))
    ELSE Record(NoDigest, 0, 0)
  BY <1>1 DEF TableAfter, Table
<1>4. TableAfter(t, T).records[i] = Record(Digest(Content(b)), 128, NextBlock(layout, b)) BY <1>1, <1>3
<1>5. Lists(TableAfter(t, T), i, Content(b)) BY <1>2, <1>4 DEF Lists, RecordAt, Record
<1> QED BY <1>5 DEF t, i

\* The blocks of n level-0 tables, table by table.
BlocksOfTables(first, n, c, T) ==
  [i \in 1 .. n |-> BlocksInLevel0Table(first + i - 1, c, T)]

\* The blocks below a level-1 table, added up table by table: as many as fit
\* below it, or all that are left.
LEMMA BlocksBelow ==
  ASSUME NEW T \in Nat \ {0}, NEW c, c = CeilDiv(T, E), NEW first \in Nat, first < c,
         NEW n, n = Min({E, c - first}), NEW g, g = BlocksOfTables(first, n, c, T)
  PROVE  Total(g) = Min({PerLevel1, T - first * E})
<1> DEFINE R == T - first * E
           S == [i \in 0 .. n |-> IF i * E <= R THEN i * E ELSE R]
<1>1. E \in Nat \ {0} /\ E \in Int /\ PerLevel1 = E * E /\ PerLevel1 \in Nat BY Sizes
<1>2. c \in Nat \ {0} /\ T <= c * E /\ (c - 1) * E < T BY <1>1, CeilBounds
<1>3. n = (IF E <= c - first THEN E ELSE c - first) /\ n \in Nat
  <2>1. c - first \in Int BY <1>2
  <2> QED BY <1>1, <1>2, <2>1, MinPair
<1>4. first * E \in Nat /\ first * E < T /\ R \in Nat
  <2>1. first <= c - 1 /\ c - 1 \in Nat BY <1>2
  <2>2. first * E <= (c - 1) * E BY <1>1, <2>1, MultMonotonic
  <2>3. first * E \in Nat /\ (c - 1) * E \in Nat BY <1>1, <2>1
  <2> QED BY <1>2, <2>2, <2>3
<1>5. ASSUME NEW i \in 1 .. n
      PROVE  /\ i - 1 \in 0 .. n /\ i \in 0 .. n
             /\ S[i] \in Nat
             /\ g[i] \in Nat
             /\ S[i] = S[i - 1] + g[i]
  <2> DEFINE t == first + i
             x == (i - 1) * E
  <2>1. i \in Nat /\ i - 1 \in Nat /\ i - 1 \in 0 .. n /\ i \in 0 .. n /\ i >= 1 BY <1>3
  <2>2. t \in Nat /\ t <= c /\ t >= 1 BY <1>2, <1>3, <2>1
  <2>3. x \in Nat /\ i * E = x + E /\ t * E = first * E + (x + E)
    <3>1. i * E = (i - 1) * E + E BY <1>1, <2>1
    <3>2. (first + i) * E = first * E + i * E BY <1>1, <2>1
    <3> QED BY <1>1, <2>1, <3>1, <3>2
  <2>4. (t - 1) * E = first * E + x BY <1>1, <2>1
  <2>5. S[i] = (IF x + E <= R THEN x + E ELSE R) /\ S[i - 1] = (IF x <= R THEN x ELSE R) BY <2>1, <2>3
  <2>6. g[i] = IF t < c \/ T % E = 0 THEN E ELSE T % E
    <3>1. g[i] = BlocksInLevel0Table(first + i - 1, c, T) BY DEF BlocksOfTables
    <3>2. (first + i - 1) + 1 = t BY <2>1
    <3> QED BY <3>1, <3>2 DEF BlocksInLevel0Table, E
  <2> HIDE DEF t, x, S
  <2>7. CASE t < c
    <3>1. t <= c - 1 /\ c - 1 \in Nat BY <1>2, <2>2, <2>7
    <3>2. t * E <= (c - 1) * E BY <1>1, <2>2, <3>1, MultMonotonic
    <3>3. (c - 1) * E \in Nat /\ t * E \in Nat BY <1>1, <2>2, <3>1
    <3>4. x + E <= R BY <1>1, <1>2, <1>4, <2>3, <3>2, <3>3
    <3>5. S[i] = x + E /\ S[i - 1] = x /\ g[i] = E BY <1>1, <1>4, <2>3, <2>5, <2>6, <2>7, <3>4
    <3> QED BY <1>1, <2>1, <2>3, <3>5
  <2>8. CASE t = c
    <3> DEFINE y == (c - 1) * E
               r == T - y
    <3>1. y \in Nat /\ y < T /\ c * E = y + E /\ y = first * E + x BY <1>1, <1>2, <2>4, <2>8
    <3> HIDE DEF y
    <3>2. r \in Nat /\ 1 <= r /\ r <= E /\ R = x + r BY <1>1, <1>2, <1>4, <2>3, <3>1
    <3> HIDE DEF R
    <3>3. g[i] = r
      <4>1. CASE r = E
        <5>1. c * E = T /\ c \in Nat /\ T <= T /\ T < T + E BY <1>1, <1>2, <3>1, <4>1
        <5>2. T % E = T - c * E BY <1>1, <1>2, <5>1, DivUnique
        <5> QED BY <1>1, <1>2, <2>6, <4>1, <5>1, <5>2
      <4>2. CASE r # E
        <5>4. y <= T /\ T < y + E BY ONLY <1>1, <3>1, <3>2, <4>2
        <5>1. c - 1 \in Nat /\ (c - 1) * E <= T /\ T < (c - 1) * E + E BY <1>2, <5>4 DEF y
        <5> HIDE DEF r
        <5>2. T % E = T - (c - 1) * E BY <1>1, <5>1, DivUnique
        <5>3. T % E = r /\ r # 0 BY <3>2, <5>2 DEF r, y
        <5> QED BY <2>2, <2>6, <2>8, <5>3, <1>2
      <4> QED BY <4>1, <4>2
    <3> HIDE DEF r
    <3>4. S[i] = R /\ S[i - 1] = x BY <1>1, <1>4, <2>3, <2>5, <3>2
    <3> QED BY <1>4, <2>1, <2>3, <3>2, <3>3, <3>4
  <2> QED BY <1>2, <2>2, <2>7, <2>8
<1>6. S[0] = 0 /\ S[n] = (IF n * E <= R THEN n * E ELSE R)
  <2>1. 0 \in 0 .. n /\ n \in 0 .. n /\ 0 * E = 0 BY <1>1, <1>3
  <2> HIDE DEF R
  <2> QED BY <1>4, <2>1
<1>7. DOMAIN S = 0 .. n /\ S = [i \in 0 .. n |-> S[i]] OBVIOUS
<1> HIDE DEF S
<1>8. S \in [0 .. n -> Nat]
  <2>1. \A i \in 0 .. n : i = 0 \/ i \in 1 .. n BY <1>3
  <2> HIDE DEF R
  <2>4. \A i \in 1 .. n : S[i] \in Nat BY <1>5
  <2>5. S[0] = 0 BY <1>6
  <2>2. ASSUME NEW i \in 0 .. n
        PROVE  S[i] \in Nat
    <3>1. CASE i = 0 BY ONLY <2>5, <3>1
    <3>2. CASE i # 0
      <4>1. i \in 1 .. n BY <2>1, <3>2
      <4> QED BY ONLY <2>4, <4>1
    <3> QED BY <3>1, <3>2
  <2>3. \A i \in 0 .. n : S[i] \in Nat BY <2>2
  <2> QED BY <1>7, <2>3
<1>9. HasLen(g, n) BY <1>3 DEF HasLen, BlocksOfTables
<1>10. IsSum(S, g, n) /\ \A k \in 1 .. n : g[k] \in Nat BY <1>5, <1>6, <1>8 DEF IsSum
<1>11. Total(g) = S[n] BY ONLY <1>3, <1>9, <1>10, TotalBy
<1>12. Min({PerLevel1, R}) = IF PerLevel1 <= R THEN PerLevel1 ELSE R
  <2> HIDE DEF R
  <2> QED BY <1>1, <1>4, MinPair
<1>13. S[n] = IF PerLevel1 <= R THEN PerLevel1 ELSE R
  <2>1. CASE n = E BY <1>1, <1>6, <2>1
  <2>2. CASE n # E
    <3>1. n = c - first /\ n < E BY <1>1, <1>2, <1>3, <2>2
    <3>2. n * E = c * E - first * E BY <1>1, <1>2, <3>1
    <3>3. n * E \in Nat /\ c * E \in Nat BY <1>1, <1>2, <1>3
    <3>4. n * E >= R BY <1>2, <1>4, <3>2, <3>3
    <3>5. n * E <= E * E BY <1>1, <1>3, <3>1, MultMonotonic
    <3>6. S[n] = R BY <1>4, <1>6, <3>3, <3>4
    <3>7. R <= PerLevel1 BY <1>1, <1>4, <3>3, <3>4, <3>5
    <3> HIDE DEF R
    <3> QED BY <1>1, <1>4, <3>6, <3>7
  <2> QED BY <2>1, <2>2
<1> QED BY <1>11, <1>12, <1>13

\* What a level-1 table of a large package lists.
LEMMA Level1Lists ==
  ASSUME Planned, layout.top_level = 2, NEW b \in 0 .. TotalBlocks - 1,
         NEW level1, level1 = Level1(TablesAfter(TotalBlocks), TotalBlocks)[Table1(b)]
  PROVE  /\ Lists(level1, Table0(b) % EntriesPerTable, TableAfter(Table0(b), TotalBlocks))
         /\ level1.blocks_hashed = Min({PerLevel1, TotalBlocks - Table1(b) * PerLevel1})
<1> DEFINE T == TotalBlocks
           c == TableCount
           tables == TablesAfter(T)
           t == Table0(b)
           j == Table1(b)
           first == j * E
           n == Min({E, c - first})
           g == [i \in 1 .. n |-> BlocksInLevel0Table(first + i - 1, c, T)]
           h == Total(g)
<1>1. /\ T \in Nat \ {0} /\ c \in Nat \ {0} /\ b \in Nat
      /\ t \in 0 .. c - 1 /\ j \in 0 .. CeilDiv(c, E) - 1
      /\ E \in Nat \ {0} /\ E \in Int /\ c = CeilDiv(T, E)
  BY TableCounts, Sizes DEF TableCount
<1>2. /\ t \in Nat /\ j \in Nat /\ first \in Nat
      /\ first <= t /\ t < first + E /\ t % E = t - first
      /\ j * PerLevel1 = first * E
  BY <1>1, Coordinates
<1>3. tables[t] = TableAfter(t, T) /\ Cardinality(DOMAIN tables) = c
  <2>1. DOMAIN tables = 0 .. c - 1 BY DEF TablesAfter
  <2>2. tables[t] = TableAfter(t, T) BY <1>1 DEF TablesAfter
  <2> QED BY <1>1, <2>1, <2>2, CountOfUpTo
<1> HIDE DEF tables, T, c, t, j
<1>4. level1 = RollUp(tables, first, n, h) BY <1>1, <1>3 DEF Level1, tables, T, j, E
<1> HIDE DEF first
<1>5. first < c /\ c - first \in Int BY <1>1, <1>2
<1>6. n = IF E <= c - first THEN E ELSE c - first BY <1>1, <1>5, MinPair
<1>7. h = Min({PerLevel1, T - first * E})
  <2> HIDE DEF n
  <2>1. n = Min({E, c - first}) /\ g = BlocksOfTables(first, n, c, T) BY DEF n, BlocksOfTables
  <2> HIDE DEF g
  <2> QED BY ONLY <1>1, <1>2, <1>5, <2>1, BlocksBelow DEF h
<1> HIDE DEF h, n
<1>8. level1.blocks_hashed = h BY <1>4, RollUpCounts
<1>9. Lists(level1, t % EntriesPerTable, TableAfter(t, T))
  <2> DEFINE i == t - first
  <2>1. i \in Locals /\ i < n /\ first + i = t BY <1>1, <1>2, <1>5, <1>6 DEF Locals, E
  <2>2. TableAfter(t, T) = tables[first + i] BY <1>3, <2>1
  <2> HIDE DEF i
  <2>3. Lists(RollUp(tables, first, n, h), i, TableAfter(t, T)) BY <2>1, <2>2, RollUpLists
  <2> QED BY <1>2, <1>4, <2>3 DEF i, E
<1> QED BY <1>2, <1>7, <1>8, <1>9 DEF t, T, j

LEMMA TreeVerifies ==
  ASSUME Sealed
  PROVE  HashTreeVerifies
<1> DEFINE T == TotalBlocks
           top == PhysicalBlock(TopAddress)
<1>1. /\ Planned /\ Level = layout.top_level /\ allocated = T
      /\ T \in Nat \ {0} /\ Level \in {0, 1, 2}
      /\ top = WholeTree.top
  BY SealedTree, TableCounts, TopFound
<1>2. descriptor.top_hash_table_hash = Digest(top)
  <2>1. descriptor.top_hash_table_hash = hash_tree.top_hash BY SealedTree DEF Descriptor
  <2> QED BY <1>1, <2>1, SealedTree, WholeTreeFacts
<1>3. Level # 0 => top.blocks_hashed = allocated
  <2>1. CASE Level = 1
    <3>1. WholeTree.top = RollUp(TablesAfter(T), 0, TableCount, T) BY <1>1, <2>1, WholeTreeFacts
    <3> QED BY <1>1, <3>1, RollUpCounts
  <2>2. CASE Level = 2
    <3>1. WholeTree.top = RollUp(Level1(TablesAfter(T), T), 0, CeilDiv(TableCount, E), T)
      BY <1>1, <2>2, WholeTreeFacts
    <3> QED BY <1>1, <3>1, RollUpCounts
  <2> QED BY <1>1, <2>1, <2>2
<1>4. ASSUME NEW b \in 0 .. allocated - 1
      PROVE  LET level0 == PhysicalBlock(BackingLevel0(b))
                 level1 == PhysicalBlock(BackingLevel1(b))
                 group == b \div EntriesPerTable
             IN /\ Lists(level0, b % EntriesPerTable, BlockAt(b))
                /\ Level = 1 => Lists(top, group, level0)
                /\ Level = 2 =>
                     /\ Lists(level1, group % EntriesPerTable, level0)
                     /\ Lists(top, b \div PerLevel1, level1)
                     /\ level1.blocks_hashed =
                          Min({PerLevel1, allocated - (b \div PerLevel1) * PerLevel1})
  <2> DEFINE level0 == PhysicalBlock(BackingLevel0(b))
             level1 == PhysicalBlock(BackingLevel1(b))
             t == Table0(b)
             j == Table1(b)
  <2>1. b \in 0 .. T - 1 /\ b \in Nat /\ b < T BY <1>1
  <2>2. t = b \div EntriesPerTable /\ j = b \div PerLevel1 BY DEF Table0, Table1, E
  <2>3. level0 = TableAfter(t, T) /\ t \in 0 .. TableCount - 1 BY <2>1, Level0Found
  <2>4. j \in 0 .. CeilDiv(TableCount, E) - 1 BY <1>1, <2>1, TableCounts
  <2>5. Lists(level0, b % EntriesPerTable, BlockAt(b))
    BY <1>1, <2>1, <2>3, BlockFound, TableLists DEF Sealed
  <2>6. /\ TableCount \in Nat \ {0} /\ CeilDiv(TableCount, E) \in Nat \ {0} /\ E \in Nat
        /\ Level = 1 => TableCount <= E
        /\ Level = 2 => CeilDiv(TableCount, E) <= E
    BY <1>1, TableCounts, Sizes
  <2>7. TablesAfter(T)[t] = TableAfter(t, T) BY <2>3 DEF TablesAfter
  <2> HIDE DEF t, j, level0, level1, top, T
  <2>8. Level = 1 => Lists(top, t, level0)
    <3> SUFFICES ASSUME Level = 1 PROVE Lists(top, t, level0) OBVIOUS
    <3>1. WholeTree.top = RollUp(TablesAfter(T), 0, TableCount, T) BY <1>1, WholeTreeFacts DEF T
    <3>2. t \in Locals /\ t < TableCount /\ 0 + t = t BY <2>3, <2>6 DEF Locals, E
    <3>3. level0 = TablesAfter(T)[0 + t] BY <2>3, <2>7, <3>2
    <3> QED BY <1>1, <3>1, <3>2, <3>3, RollUpLists
  <2>9. Level = 2 =>
      /\ Lists(level1, t % EntriesPerTable, level0)
      /\ Lists(top, j, level1)
      /\ level1.blocks_hashed = Min({PerLevel1, T - j * PerLevel1})
    <3> SUFFICES ASSUME Level = 2
        PROVE  /\ Lists(level1, t % EntriesPerTable, level0)
               /\ Lists(top, j, level1)
               /\ level1.blocks_hashed = Min({PerLevel1, T - j * PerLevel1})
      OBVIOUS
    <3> DEFINE upper == Level1(TablesAfter(T), T)
    <3>1. WholeTree.top = RollUp(upper, 0, CeilDiv(TableCount, E), T)
          /\ WholeTree.level1 = upper
      BY <1>1, WholeTreeFacts DEF T
    <3> HIDE DEF upper
    <3>2. level1 = upper[j] BY <1>1, <2>1, <3>1, Level1Found DEF level1, j, T
    <3>3. j \in Locals /\ j < CeilDiv(TableCount, E) /\ 0 + j = j BY <2>4, <2>6 DEF Locals, E
    <3>4. level1 = upper[0 + j] BY <3>2, <3>3
    <3>5. Lists(top, j, level1) BY <1>1, <3>1, <3>3, <3>4, RollUpLists
    <3>6. /\ Lists(level1, t % EntriesPerTable, TableAfter(t, T))
          /\ level1.blocks_hashed = Min({PerLevel1, T - j * PerLevel1})
      BY <1>1, <2>1, <3>2, Level1Lists DEF t, j, T, upper
    <3> QED BY <2>3, <3>5, <3>6
  <2> QED BY <1>1, <2>2, <2>5, <2>8, <2>9 DEF level0, level1
<1> HIDE DEF T
<1> QED BY <1>2, <1>3, <1>4 DEF HashTreeVerifies

\* The package of every session, whatever the files and however large the
\* tables: its types, its physical blocks at the addresses a reader computes,
\* and a signed one's blocks reached through digests from the header.
THEOREM PackageIsSound == Spec => []PackageSound
<1>1. IInv => PackageSound
  <2> SUFFICES ASSUME IInv PROVE PackageSound OBVIOUS
  <2>1. TypeOK BY Typed
  <2>2. Done /\ signed /\ spoiled_at = Whole => Sealed BY DEF Sealed, Package, IInv
  <2>3. Done /\ signed /\ spoiled_at = Whole => HashTreeVerifies BY <2>2, TreeVerifies
  <2>4. ~(Done /\ signed /\ spoiled_at = Whole) => HashTreeVerifies BY DEF HashTreeVerifies
  <2> QED BY <2>1, <2>3, <2>4 DEF PackageSound
<1> QED BY Invariant, <1>1, PTL

-----------------------------------------------------------------------------
(* The session implements PartStream.                                        *)

\* The blocks of the package.
Blocks == HeaderBlocks + From(TotalBlocks)

LEMMA Mapped ==
  ASSUME IInv
  PROVE  /\ Blocks \in Nat /\ Blocks * BlockSize \in Nat
         /\ TotalOutputSize(layout) = Blocks * BlockSize
         /\ Received \in Nat
         /\ spoiled_at = Whole => Received <= Blocks
         /\ Done /\ spoiled_at = Whole => Received = Blocks
         /\ phase = "Header" => Received = 0 /\ spoiled_at = Whole
         /\ pc = "hashing" => phase = "Header"
         /\ pc = "streaming" \/ phase # "Header" => hashing_done
<1>1. WInv BY DEF IInv
<1>2. /\ Blocks \in Nat /\ HeaderBlocks \in Nat /\ From(TotalBlocks) \in Nat
      /\ TotalOutputSize(layout) = Blocks * BlockSize
  BY <1>1, OutputSize, HeaderFacts DEF WInv, Blocks
<1>3. physical_cursor \in Nat /\ physical_cursor <= From(TotalBlocks)
  BY <1>1, <1>2, CursorInPackage DEF WInv
<1>4. Len(emitted) \in Nat BY <1>1, SequenceLength DEF WInv, LengthOK, HasLen
<1>5. Received \in Nat BY <1>1, <1>4 DEF Received, WInv, LengthOK
<1>6. spoiled_at = Whole => Received <= Blocks
  BY <1>1, <1>2, <1>3 DEF Received, WInv, LengthOK, CursorsOK, Blocks
<1>7. Done /\ spoiled_at = Whole => Received = Blocks
  BY <1>1, <1>2, <1>3 DEF Received, WInv, LengthOK, CursorsOK, Blocks, Done
<1>8. phase = "Header" => Received = 0 /\ spoiled_at = Whole BY <1>1 DEF Received, WInv, LengthOK
<1>9. Blocks * BlockSize \in Nat BY <1>2, LayoutAssumption
<1> QED BY <1>1, <1>2, <1>5, <1>6, <1>7, <1>8, <1>9 DEF WInv, CursorsOK

LEMMA MappedNext ==
  ASSUME IInv'
  PROVE  /\ Received' \in Nat
         /\ spoiled_at' = Whole => Received' <= Blocks'
         /\ Done' /\ spoiled_at' = Whole => Received' = Blocks'
<1>1. (IInv => /\ Received \in Nat
               /\ spoiled_at = Whole => Received <= Blocks
               /\ Done /\ spoiled_at = Whole => Received = Blocks)'
  BY Mapped, PTL
<1> QED BY <1>1

LEMMA NothingSeen ==
  ASSUME Phase' = Phase, Promised' = Promised, Promised = <<>> \/ Received' = Received
  PROVE  UNCHANGED Stream!vars
<1>1. HandedOver' = HandedOver
  <2>1. CASE Promised = <<>>
    <3>1. DOMAIN Promised = {} BY <2>1
    <3> QED BY <3>1 DEF HandedOver
  <2>2. CASE Received' = Received BY <2>2 DEF HandedOver
  <2> QED BY <2>1, <2>2
<1> QED BY <1>1 DEF Stream!vars

LEMMA FailStep ==
  ASSUME Phase \in {"planning", "streaming"}, Phase' = "failed",
         Promised' = Promised, Promised = <<>> \/ Received' = Received
  PROVE  Stream!Fail
<1>1. HandedOver' = HandedOver
  <2>1. CASE Promised = <<>>
    <3>1. DOMAIN Promised = {} BY <2>1
    <3> QED BY <3>1 DEF HandedOver
  <2>2. CASE Received' = Received BY <2>2 DEF HandedOver
  <2> QED BY <2>1, <2>2
<1> QED BY <1>1 DEF Stream!Fail

LEMMA PublishStep ==
  ASSUME Phase = "planning", Phase' = "streaming", NEW size \in Nat,
         Promised' = <<size>>, Received' = 0
  PROVE  Stream!Publish
<1>1. HandedOver' = [p \in DOMAIN Promised' |-> 0]
  <2>1. 0 * BlockSize = 0 BY LayoutAssumption
  <2> QED BY <2>1 DEF HandedOver
<1>2. Promised' \in Seq(Nat) OBVIOUS
<1> QED BY <1>1, <1>2 DEF Stream!Publish

LEMMA DeliverStep ==
  ASSUME Phase = "streaming", Phase' \in {"streaming", "done"},
         NEW size \in Nat, Promised = <<size>>, Promised' = Promised,
         Received \in Nat, Received' \in Nat, Received <= Received',
         Received' * BlockSize <= size, Phase' = "done" => Received' * BlockSize = size
  PROVE  \E p \in DOMAIN Promised : Stream!Deliver(p)
<1> DEFINE old == Received * BlockSize
           new == Received' * BlockSize
<1>1. old \in Nat /\ new \in Nat /\ old <= new
  <2>1. BlockSize \in Nat BY LayoutAssumption
  <2>2. old <= new BY <2>1, MultMonotonic
  <2>3. \A x \in Nat : x * BlockSize \in Nat BY <2>1
  <2>4. old \in Nat /\ new \in Nat BY <2>3
  <2> HIDE DEF old, new
  <2> QED BY <2>2, <2>4
<1>2. DOMAIN Promised = {1} /\ Promised[1] = size /\ 1 \in DOMAIN Promised OBVIOUS
<1>3. HandedOver = [p \in {1} |-> old] /\ HandedOver' = [p \in {1} |-> new] BY <1>2 DEF HandedOver
<1> HIDE DEF old, new
<1>4. HandedOver[1] = old /\ HandedOver' = [HandedOver EXCEPT ![1] = new] BY <1>3
<1>5. new \in HandedOver[1] .. Promised[1] BY <1>1, <1>2, <1>4 DEF new
<1>6. Phase' = "done" => HandedOver' = Promised'
  <2> SUFFICES ASSUME Phase' = "done" PROVE HandedOver' = <<size>> OBVIOUS
  <2>1. new = size BY DEF new
  <2>2. \A p : p \in 1 .. 1 <=> p \in {1} OBVIOUS
  <2>3. HandedOver' = [p \in 1 .. 1 |-> size] BY <1>3, <2>1, <2>2
  <2>4. HasLen(HandedOver', 1) /\ HandedOver'[1] = size BY <2>3 DEF HasLen
  <2>5. HasLen(<<size>>, 1) /\ <<size>>[1] = size BY SequenceSingle
  <2>6. \A i \in 1 .. 1 : HandedOver'[i] = <<size>>[i] BY <2>4, <2>5
  <2> QED BY <2>4, <2>5, <2>6, SequenceSame
<1>7. /\ \A q \in DOMAIN Promised : q < 1 => HandedOver[q] = Promised[q]
      /\ \A q \in DOMAIN Promised : q > 1 => HandedOver[q] = 0
  BY <1>2
<1>8. Stream!Deliver(1) BY <1>2, <1>4, <1>5, <1>6, <1>7 DEF Stream!Deliver, Stream!Complete
<1> QED BY <1>2, <1>8

\* The steps of the session, one by one.
LEMMA HashingMaps ==
  ASSUME IInv, IInv', HashNextBlock \/ NothingToHash
  PROVE  UNCHANGED Stream!vars \/ Stream!Publish
<1>1. /\ pc = "hashing" /\ layout' = layout /\ emitted' = emitted
      /\ spoiled_at' = spoiled_at /\ phase' = phase
      /\ \/ pc' = "hashing"
         \/ pc' = "streaming" /\ hashing_done'
  <2>1. CASE HashNextBlock BY <2>1 DEF HashNextBlock, openVars, streamVars
  <2>2. CASE NothingToHash BY <2>2 DEF NothingToHash, openVars, streamVars, hashVars
  <2> QED BY <2>1, <2>2
<1>2. phase = "Header" /\ spoiled_at = Whole /\ Received = 0 BY <1>1, Mapped
<1>3. Phase = "planning" /\ Promised = <<>> BY <1>1, <1>2 DEF Phase, Promised
<1>4. CASE pc' = "hashing"
  <2>1. Phase' = "planning" /\ Promised' = <<>> BY <1>1, <1>2, <1>4 DEF Phase, Promised
  <2> QED BY <1>3, <2>1, NothingSeen
<1>5. CASE pc' = "streaming" /\ hashing_done'
  <2>1. Phase' = "streaming" BY <1>1, <1>2, <1>5 DEF Phase, Done
  <2>2. TotalOutputSize(layout)' = TotalOutputSize(layout)
    BY <1>1 DEF TotalOutputSize, TotalPhysicalBlocks
  <2>3. Promised' = <<TotalOutputSize(layout)>> /\ TotalOutputSize(layout) \in Nat
    BY <1>5, <2>2, Mapped DEF Promised
  <2>4. Received' = 0 BY <1>1, <1>2 DEF Received
  <2> QED BY <1>3, <2>1, <2>3, <2>4, PublishStep
<1> QED BY <1>1, <1>4, <1>5

LEMMA HashingFailsMaps ==
  ASSUME IInv, HashingFails
  PROVE  UNCHANGED Stream!vars \/ Stream!Fail
<1>1. /\ pc = "hashing" /\ pc' \in {"hashing", "failed"} /\ ~hashing_done
      /\ hashing_done' = hashing_done /\ spoiled_at' = spoiled_at
  BY DEF HashingFails, Throw, hashVars
<1>2. spoiled_at = Whole BY <1>1, Mapped
<1>3. Phase = "planning" /\ Promised = <<>> /\ Promised' = <<>> BY <1>1, <1>2 DEF Phase, Promised
<1>4. CASE pc' = "hashing"
  <2>1. Phase' = "planning" BY <1>1, <1>2, <1>4 DEF Phase
  <2> QED BY <1>3, <2>1, NothingSeen
<1>5. CASE pc' = "failed"
  <2>1. Phase' = "failed" BY <1>5 DEF Phase
  <2> QED BY <1>3, <2>1, FailStep
<1> QED BY <1>1, <1>4, <1>5

\* A call of next_chunk() that returns.
LEMMA ChunkMaps ==
  ASSUME IInv, IInv', pc = "streaming", pc' = pc, phase \in {"Header", "Body"},
         phase' \in {"Body", "Done"}, layout' = layout, hashing_done' = hashing_done,
         spoiled_at' = spoiled_at, Len(emitted)' >= Len(emitted)
  PROVE  UNCHANGED Stream!vars \/ \E p \in DOMAIN Promised : Stream!Deliver(p)
<1> DEFINE size == TotalOutputSize(layout)
<1>1. size' = size /\ size \in Nat /\ size = Blocks * BlockSize
  BY Mapped DEF TotalOutputSize, TotalPhysicalBlocks
<1>2. hashing_done BY Mapped
<1>3. Promised = <<size>> /\ Promised' = Promised BY <1>1, <1>2 DEF Promised
<1>4. CASE spoiled_at # Whole
  <2>1. Phase = "failed" /\ Phase' = "failed" /\ Received' = Received BY <1>4 DEF Phase, Received
  <2> QED BY <1>3, <2>1, NothingSeen
<1>5. CASE spoiled_at = Whole
  <2>1. Phase = "streaming" /\ Phase' = IF phase' = "Done" THEN "done" ELSE "streaming"
    BY <1>5 DEF Phase, Done
  <2>2. /\ Received \in Nat /\ Received' \in Nat
        /\ Received' <= Blocks /\ (phase' = "Done" => Received' = Blocks)
    <3>1. Blocks' = Blocks
      <4>1. layout' = layout OBVIOUS
      <4> QED BY <4>1 DEF Blocks, HeaderBlocks, TotalBlocks, From
    <3> QED BY <1>5, <3>1, Mapped, MappedNext DEF Done
  <2>3. Received <= Received' BY <1>5, <2>2 DEF Received
  <2>4. Received' * BlockSize <= size BY <1>1, <2>2, Mapped, LayoutAssumption, MultMonotonic
  <2>5. Phase' = "done" => Received' * BlockSize = size BY <1>1, <2>1, <2>2
  <2>6. Phase' \in {"streaming", "done"} BY <2>1
  <2> HIDE DEF size
  <2> QED BY <1>1, <1>3, <2>1, <2>2, <2>3, <2>4, <2>5, <2>6, DeliverStep
<1> QED BY <1>4, <1>5

\* A call of next_chunk() that throws: nobody is to expect the package any more.
LEMMA ChunkFailsMaps ==
  ASSUME IInv, HeaderFails \/ StreamingFails
  PROVE  UNCHANGED Stream!vars \/ Stream!Fail
<1>1. /\ pc = "streaming" /\ layout' = layout /\ hashing_done' = hashing_done
      /\ emitted' = emitted /\ pc' \in {"streaming", "failed"}
      /\ phase # "Done"
      /\ spoiled_at' = IF spoiled_at = Whole THEN Len(emitted) ELSE spoiled_at
  <2>1. CASE HeaderFails BY <2>1 DEF HeaderFails, Spoil, Throw, openVars, hashVars
  <2>2. CASE StreamingFails BY <2>2 DEF StreamingFails, Spoil, Throw, openVars, hashVars, InBody
  <2> QED BY <2>1, <2>2
<1>2. /\ hashing_done /\ Received \in Nat /\ Len(emitted) \in Nat
  BY <1>1, Mapped, SequenceLength DEF IInv, WInv, LengthOK, HasLen
<1>3. Promised' = Promised
  <2>1. TotalOutputSize(layout)' = TotalOutputSize(layout)
    BY <1>1 DEF TotalOutputSize, TotalPhysicalBlocks
  <2> QED BY <1>1, <1>2, <2>1 DEF Promised
<1>4. spoiled_at' # Whole /\ Phase' = "failed" /\ Received' = Received
  BY <1>1, <1>2 DEF Phase, Received, Whole
<1>5. Phase = IF spoiled_at = Whole THEN "streaming" ELSE "failed" BY <1>1 DEF Phase, Done
<1>6. CASE spoiled_at = Whole BY <1>3, <1>4, <1>5, <1>6, FailStep
<1>7. CASE spoiled_at # Whole BY <1>3, <1>4, <1>5, <1>7, NothingSeen
<1> QED BY <1>6, <1>7

LEMMA ReaderMaps ==
  ASSUME UNCHANGED writerVars
  PROVE  UNCHANGED Stream!vars
<1>1. /\ layout' = layout /\ hashing_done' = hashing_done /\ pc' = pc
      /\ phase' = phase /\ emitted' = emitted /\ spoiled_at' = spoiled_at
  BY DEF writerVars, openVars, hashVars, streamVars
<1>2. Phase' = Phase /\ Promised' = Promised /\ Received' = Received
  BY <1>1 DEF Phase, Done, Promised, Received, TotalOutputSize, TotalPhysicalBlocks
<1> QED BY <1>2, NothingSeen

\* The chunks are of one more block, or of the header, or the last call's none.
LEMMA ChunkFacts ==
  ASSUME IInv, EmitHeader \/ EmitUpperTable \/ EmitLevel0Table \/ EmitData \/ Exhausted
  PROVE  /\ pc = "streaming" /\ pc' = pc /\ phase \in {"Header", "Body"}
         /\ phase' \in {"Body", "Done"} /\ layout' = layout /\ hashing_done' = hashing_done
         /\ spoiled_at' = spoiled_at
         /\ Len(emitted)' >= Len(emitted)
<1>1. HasLen(emitted, Len(emitted)) /\ Len(emitted) \in Nat /\ Planned BY DEF IInv, WInv, LengthOK, HasLen
<1>2. CASE EmitHeader
  <2>1. emitted' = emitted \o Header BY <1>2 DEF EmitHeader
  <2>2. HasLen(Header, HeaderBlocks) /\ HeaderBlocks \in Nat BY <1>1, HeaderFacts
  <2>3. HasLen(emitted', Len(emitted) + HeaderBlocks) BY <1>1, <2>1, <2>2, SequenceConcat DEF IsConcat
  <2>4. Len(emitted)' = Len(emitted) + HeaderBlocks BY <2>3, SequenceLength
  <2>5. Len(emitted)' >= Len(emitted) BY <1>1, <2>2, <2>4
  <2> QED BY <1>2, <2>5 DEF EmitHeader, openVars, hashVars
<1>3. ASSUME NEW block, Append1(block)
      PROVE  Len(emitted)' >= Len(emitted)
  <2>1. HasLen(emitted', Len(emitted) + 1) BY <1>1, <1>3, SequenceAppend DEF IsAppend, Append1
  <2>2. Len(emitted)' = Len(emitted) + 1 BY <2>1, SequenceLength
  <2> QED BY <1>1, <2>2
<1>4. CASE EmitUpperTable BY <1>3, <1>4 DEF EmitUpperTable, InBody, StepOver, openVars, hashVars
<1>5. CASE EmitLevel0Table BY <1>3, <1>5 DEF EmitLevel0Table, InBody, StepOver, openVars, hashVars
<1>6. CASE EmitData BY <1>3, <1>6 DEF EmitData, InBody, StepOver, openVars, hashVars
<1>7. CASE Exhausted
  <2>1. emitted' = emitted BY <1>7 DEF Exhausted
  <2>2. Len(emitted)' >= Len(emitted) BY <1>1, <2>1
  <2> QED BY <1>7, <2>2 DEF Exhausted, InBody, openVars, hashVars
<1> QED BY <1>2, <1>4, <1>5, <1>6, <1>7

\* The session implements the abstract stream, up to its liveness: one file of
\* the size the manifest says, whatever calls of hash_next_block() throw, or a
\* failure, when a call of next_chunk() has thrown.
THEOREM Refines == Spec => Stream!Spec
<1>1. Init => Stream!Init
  <2> SUFFICES ASSUME Init PROVE Stream!Init OBVIOUS
  <2>1. pc = "hashing" /\ spoiled_at = Whole BY DEF Init, WriterInit
  <2>2. Phase = "planning" /\ Promised = <<>> BY <2>1 DEF Phase, Promised
  <2>3. HandedOver = <<>> BY <2>2 DEF HandedOver
  <2> QED BY <2>2, <2>3 DEF Stream!Init
<1>2. IInv /\ IInv' /\ [Next]_vars => [Stream!Next]_Stream!vars
  <2> SUFFICES ASSUME IInv, IInv', [Next]_vars PROVE [Stream!Next]_Stream!vars OBVIOUS
  <2>1. CASE HashNextBlock \/ NothingToHash BY <2>1, HashingMaps DEF Stream!Next
  <2>2. CASE HashingFails BY <2>2, HashingFailsMaps DEF Stream!Next
  <2>3. CASE EmitHeader \/ EmitUpperTable \/ EmitLevel0Table \/ EmitData \/ Exhausted
    <3>1. UNCHANGED Stream!vars \/ \E p \in DOMAIN Promised : Stream!Deliver(p)
      BY <2>3, ChunkFacts, ChunkMaps
    <3> QED BY <3>1 DEF Stream!Next
  <2>4. CASE HeaderFails \/ StreamingFails BY <2>4, ChunkFailsMaps DEF Stream!Next
  <2>5. CASE UNCHANGED writerVars BY <2>5, ReaderMaps
  <2>6. ReaderCall => UNCHANGED writerVars
    <3>1. OpenReader => UNCHANGED writerVars BY DEF OpenReader
    <3>2. ASSUME NEW f, NEW offset, NEW len, ReadFileRange(f, offset, len)
          PROVE  UNCHANGED writerVars
      BY <3>2 DEF ReadFileRange
    <3> QED BY <3>1, <3>2 DEF ReaderCall
  <2>7. Stopped \/ UNCHANGED vars => UNCHANGED writerVars BY DEF Stopped, vars
  <2> QED BY <2>1, <2>2, <2>3, <2>4, <2>5, <2>6, <2>7 DEF Next, WriterCall, WriterFails
<1> QED BY Invariant, <1>1, <1>2, PTL DEF Spec, Stream!Spec

-----------------------------------------------------------------------------
(* Chains.                                                                   *)

\* The first copy of a table is the active one, whatever is read for it.
LEMMA FirstCopies ==
  ASSUME WInv, Package, NEW a, NEW i \in Locals
  PROVE  SecondCopy(RecordAt(PhysicalBlock(a), i).status) = 0
<1>1. RecordAt(PhysicalBlock(a), i).status \in {0, 128}
  <2>1. GoodBlock(PhysicalBlock(a)) BY PackageFacts
  <2> QED BY <2>1 DEF GoodBlock, RecordAt, Record
<1>2. SecondCopy(0) = 0 /\ SecondCopy(128) = 0
  <2>1. 0 \div 64 = 0 /\ 128 \div 64 = 2 /\ 0 % 2 = 0 /\ 2 % 2 = 0 OBVIOUS
  <2> QED BY <2>1 DEF SecondCopy
<1> QED BY <1>1, <1>2

\* A reader with the statuses of the package looks for a link in the level-0
\* table of its block.
LEMMA LinkInTable ==
  ASSUME WInv, Package, NEW b \in 0 .. TotalBlocks - 1
  PROVE  LinkOf(b, TopTable, Level1Status(TopTable))
           = RecordAt(PhysicalBlock(BackingLevel0(b)), b % EntriesPerTable).next_block
<1> DEFINE t == b \div EntriesPerTable
           g == b \div PerLevel1
           i == b % EntriesPerTable
           a == BackingLevel0(b)
           top == TopTable
           level1 == Level1Status(top)
           copy == CASE Level = 0 -> 0
                     [] Level = 1 -> SecondCopy(top[t])
                     [] Level = 2 -> SecondCopy(level1[g][i])
<1>1. /\ Level \in {0, 1, 2} /\ Level = layout.top_level /\ allocated = TotalBlocks
      /\ TotalBlocks \in Nat \ {0} /\ TableCount \in Nat /\ b \in Nat
      /\ E \in Nat \ {0} /\ CeilDiv(TableCount, E) \in Nat
      /\ Level = 1 => TableCount <= E
      /\ Level = 2 => CeilDiv(TableCount, E) <= E
      /\ t \in 0 .. TableCount - 1
      /\ g \in 0 .. CeilDiv(TableCount, E) - 1
  BY PackageFacts, TableCounts, Sizes DEF WInv, Table0, Table1, E
<1>2. i \in Locals BY <1>1, Coordinates DEF Locals, E
<1>3. a \in Nat BY <1>1, Level0InGap
<1>4. LinkOf(b, top, level1) = RecordAt(PhysicalBlock(a + copy), i).next_block BY DEF LinkOf
<1>5. copy = 0
  <2>1. CASE Level = 0 BY <2>1
  <2>2. CASE Level = 1
    <3>1. top[t] = RecordAt(PhysicalBlock(TopAddress), t).status
      <4>1. CeilDiv(allocated, EntriesPerTable) = TableCount BY <1>1 DEF TableCount, E
      <4>2. top = [k \in 0 .. TableCount - 1 |-> RecordAt(PhysicalBlock(TopAddress), k).status]
        BY <2>2, <4>1 DEF TopTable
      <4> QED BY <1>1, <4>2
    <3>2. t \in Locals BY <1>1, <2>2 DEF Locals, E
    <3>3. SecondCopy(top[t]) = 0 BY <3>1, <3>2, FirstCopies
    <3> QED BY <2>2, <3>3
  <2>3. CASE Level = 2
    <3>1. \E n : level1[g][i] = RecordAt(PhysicalBlock(n), i).status
      <4>1. g \in DOMAIN top
        <5>1. DOMAIN top = 0 .. CeilDiv(allocated, PerLevel1) - 1 BY <2>3 DEF TopTable
        <5>2. g < CeilDiv(allocated, PerLevel1)
          <6>1. PerLevel1 \in Nat \ {0} /\ b < TotalBlocks BY <1>1, Sizes
          <6> QED BY <1>1, <6>1, CeilAbove
        <5>3. CeilDiv(allocated, PerLevel1) \in Nat
          <6>1. PerLevel1 \in Nat \ {0} /\ allocated \in Nat BY <1>1, Sizes
          <6> QED BY <6>1, CeilIsNat
        <5> QED BY <1>1, <5>1, <5>2, <5>3
      <4> DEFINE n == BackingLevel1(g * PerLevel1) + SecondCopy(top[g])
      <4>2. level1[g] = [k \in Locals |-> RecordAt(PhysicalBlock(n), k).status]
        BY <2>3, <4>1 DEF Level1Status
      <4> HIDE DEF n, top, level1, g, i
      <4>3. level1[g][i] = RecordAt(PhysicalBlock(n), i).status BY <1>2, <4>2
      <4> QED BY <4>3
    <3>2. SecondCopy(level1[g][i]) = 0 BY <1>2, <3>1, FirstCopies
    <3> QED BY <2>3, <3>2
  <2> QED BY <1>1, <2>1, <2>2, <2>3
<1> HIDE DEF copy, a
<1>6. a + copy = a BY <1>3, <1>5
<1> QED BY <1>4, <1>6 DEF a

\* It finds the block that follows.
LEMMA LinkFound ==
  ASSUME WInv, Package, NEW b \in 0 .. TotalBlocks - 1
  PROVE  LinkOf(b, TopTable, Level1Status(TopTable)) = NextBlock(layout, b)
<1> DEFINE t == Table0(b)
           i == b % EntriesPerTable
           start == t * E
           block == Level0Table(start)
<1>1. TotalBlocks \in Nat \ {0} /\ b \in Nat /\ b < TotalBlocks BY TableCounts DEF WInv
<1>2. i \in Locals /\ start + i = b /\ start \in Nat BY <1>1, Coordinates DEF Locals, E
<1>3. /\ PhysicalBlock(BackingLevel0(b)) = block
      /\ start \div EntriesPerTable = t
  BY Level0At
<1>4. RecordAt(block, i).next_block = NextBlock(layout, b)
  <2>1. CASE signed
    <3>1. block = TableAfter(t, TotalBlocks) BY <1>3, <2>1, Level0Found DEF Sealed
    <3> HIDE DEF block, t, i
    <3>2. TableAfter(t, TotalBlocks).kind = "table" BY DEF TableAfter, Table
    <3>3. TableAfter(t, TotalBlocks).records[i] = IF t * E + i < TotalBlocks
        THEN Record(Digest(Content(t * E + i)), 128, NextBlock(layout, t * E + i))
        ELSE Record(NoDigest, 0, 0)
      BY <1>2 DEF TableAfter, Table
    <3>4. TableAfter(t, TotalBlocks).records[i]
        = Record(Digest(Content(b)), 128, NextBlock(layout, b))
      BY <1>1, <1>2, <3>3
    <3> QED BY <3>1, <3>2, <3>4 DEF RecordAt, Record
  <2>2. CASE ~signed
    <3>1. hash_tree = NoTree
      <4>1. hashing_done BY DEF WInv, CursorsOK, Package, Done
      <4> QED BY <2>2, <4>1 DEF WInv, HashOK
    <3> DEFINE R(k) == IF start + k < layout.total_blocks
                       THEN Record(NoDigest, 128, NextBlock(layout, start + k))
                       ELSE Record(NoDigest, 0, 0)
    <3>2. block = Table([k \in Locals |-> R(k)], 0)
      <4>1. block = LET first == (start \div EntriesPerTable) * EntriesPerTable
                    IN Table([k \in Locals |-> IF first + k < layout.total_blocks
                              THEN Record(NoDigest, 128, NextBlock(layout, first + k))
                              ELSE Record(NoDigest, 0, 0)], 0)
        BY <3>1 DEF Level0Table
      <4>2. (start \div EntriesPerTable) * EntriesPerTable = start BY <1>3 DEF E
      <4> HIDE DEF block, start
      <4> QED BY <4>1, <4>2
    <3>3. R(i) = Record(NoDigest, 128, NextBlock(layout, b)) BY <1>1, <1>2 DEF TotalBlocks
    <3> HIDE DEF R, block, i
    <3>4. block.kind = "table" /\ block.records[i] = R(i) BY <1>2, <3>2 DEF Table
    <3> QED BY <3>3, <3>4 DEF RecordAt, Record
  <2> QED BY <2>1, <2>2
<1> QED BY <1>3, <1>4, LinkInTable

FollowEachOther(first, m) ==
  \A k \in 0 .. m - 1 : NextBlock(layout, first + k) = first + k + 1

\* So it walks from block to block, as far as the blocks follow each other.
LEMMA ChainWalks ==
  ASSUME WInv, Package, NEW first \in Nat, NEW n \in Nat, NEW m \in Nat, m <= n,
         first + m < TotalBlocks, FollowEachOther(first, m),
         NEW c, c = Chain(first, n, TopTable, Level1Status(TopTable))
  PROVE  \A k \in 0 .. m : c[k] = first + k /\ c[k] < allocated
<1> DEFINE top == TopTable
           level1 == Level1Status(TopTable)
<1>1. TotalBlocks \in Nat /\ allocated = TotalBlocks BY PackageFacts, TableCounts DEF WInv
<1>2. c[0] = first /\ \A k \in 1 .. n : c[k] = Follow(c[k - 1], top, level1) BY ChainFacts
<1> DEFINE D == {k \in Nat : k <= m => c[k] = first + k}
<1>3. 0 \in D BY <1>2
<1>4. ASSUME NEW k \in Nat, k \in D PROVE k + 1 \in D
  <2> SUFFICES ASSUME k + 1 <= m PROVE c[k + 1] = first + (k + 1) OBVIOUS
  <2>1. /\ k + 1 \in 1 .. n /\ (k + 1) - 1 = k /\ k <= m /\ k \in 0 .. m - 1
        /\ first + k \in 0 .. TotalBlocks - 1
    BY <1>1
  <2>2. c[k] = first + k /\ c[k + 1] = Follow(c[k], top, level1) BY <1>2, <1>4, <2>1
  <2>3. Follow(first + k, top, level1) = NextBlock(layout, first + k) BY <1>1, <2>1, LinkFound DEF Follow
  <2>4. NextBlock(layout, first + k) = first + k + 1 BY <2>1 DEF FollowEachOther
  <2> QED BY <2>2, <2>3, <2>4
<1> HIDE DEF D
<1>5. Nat \subseteq D BY <1>3, <1>4, NatInduct
<1>6. \A k \in 0 .. m : c[k] = first + k BY <1>5 DEF D
<1> QED BY <1>1, <1>6

-----------------------------------------------------------------------------
(* Paths.                                                                    *)

Paths == Seq(Names)

LEMMA UpTo ==
  ASSUME NEW p \in Paths, NEW i \in 0 .. Len(p)
  PROVE  /\ SubSeq(p, 1, i) \in Paths
         /\ Len(SubSeq(p, 1, i)) = i
         /\ \A j \in 1 .. i : SubSeq(p, 1, i)[j] = p[j]
<1>1. Len(p) \in Nat /\ p \in [1 .. Len(p) -> Names] BY LenProperties DEF Paths
<1>2. 1 \in Int /\ i \in Int /\ \A j \in 1 .. i : p[j] \in Names BY <1>1
<1>3. /\ SubSeq(p, 1, i) \in Seq(Names)
      /\ Len(SubSeq(p, 1, i)) = IF 1 <= i THEN i - 1 + 1 ELSE 0
      /\ \A j \in 1 .. i - 1 + 1 : SubSeq(p, 1, i)[j] = p[1 + j - 1]
  BY <1>2, SubSeqProperties
<1>4. \A j \in 1 .. i : j \in 1 .. i - 1 + 1 /\ 1 + j - 1 = j BY <1>2
<1> QED BY <1>1, <1>3, <1>4 DEF Paths

LEMMA SamePath ==
  ASSUME NEW p \in Paths, NEW q \in Paths, Len(p) = Len(q), \A j \in 1 .. Len(p) : p[j] = q[j]
  PROVE  p = q
BY SeqEqual DEF Paths

LEMMA AllOfIt ==
  ASSUME NEW p \in Paths
  PROVE  SubSeq(p, 1, Len(p)) = p
<1>1. Len(p) \in Nat BY LenProperties DEF Paths
<1>2. Len(p) \in 0 .. Len(p) BY <1>1
<1> QED BY <1>2, UpTo, SamePath

\* A way that ends earlier is the beginning of a path.
LEMMA Beginning ==
  ASSUME NEW p \in Paths, NEW q \in Paths, Len(q) <= Len(p), q = SubSeq(p, 1, Len(q))
  PROVE  IsPrefix(q, p)
BY AllOfIt DEF IsPrefix

LEMMA FrontOfWay ==
  ASSUME NEW p \in Paths, NEW i \in 1 .. Len(p)
  PROVE  Front(SubSeq(p, 1, i)) = SubSeq(p, 1, i - 1)
<1> DEFINE q == SubSeq(p, 1, i)
           r == SubSeq(p, 1, i - 1)
<1>1. Len(p) \in Nat BY LenProperties DEF Paths
<1>2. i \in 0 .. Len(p) /\ i - 1 \in 0 .. Len(p) /\ i - 1 \in 0 .. i BY <1>1
<1>3. q \in Paths /\ Len(q) = i /\ \A j \in 1 .. i : q[j] = p[j] BY <1>2, UpTo
<1>4. r \in Paths /\ Len(r) = i - 1 /\ \A j \in 1 .. i - 1 : r[j] = p[j] BY <1>2, UpTo
<1> HIDE DEF q, r
<1> DEFINE s == SubSeq(q, 1, i - 1)
<1>5. s \in Paths /\ Len(s) = i - 1 /\ \A j \in 1 .. i - 1 : s[j] = q[j] BY <1>2, <1>3, UpTo
<1> HIDE DEF s
<1>6. \A j \in 1 .. i - 1 : j \in 1 .. i BY <1>1
<1>7. s = r BY <1>3, <1>4, <1>5, <1>6, SamePath
<1>8. Front(q) = s BY <1>3 DEF Front, s
<1> QED BY <1>7, <1>8 DEF q, r

LEMMA FrontAndLast ==
  ASSUME NEW p \in Paths, p # <<>>
  PROVE  /\ Len(p) \in Nat \ {0}
         /\ Front(p) \in Paths /\ Len(Front(p)) = Len(p) - 1
         /\ Append(Front(p), Last(p)) = p
         /\ Len(p) = 1 => p = <<Last(p)>>
<1> DEFINE n == Len(p)
           q == SubSeq(p, 1, n - 1)
<1>1. n \in Nat /\ p \in [1 .. n -> Names] BY LenProperties DEF Paths
<1>2. n # 0
  <2>1. n = 0 => p = <<>> BY EmptySeq DEF Paths
  <2> QED BY <2>1
<1> HIDE DEF n
<1>3. n - 1 \in 0 .. n BY <1>1, <1>2
<1>4. q \in Paths /\ Len(q) = n - 1 /\ \A j \in 1 .. n - 1 : q[j] = p[j] BY <1>3, UpTo DEF n
<1>5. Front(p) = q /\ Last(p) = p[n] /\ p[n] \in Names BY <1>1, <1>2 DEF Front, Last, n
<1> HIDE DEF q
<1> DEFINE r == Append(q, p[n])
<1>6. /\ r \in Seq(Names) /\ Len(r) = n
      /\ \A j \in 1 .. n - 1 : r[j] = q[j]
      /\ r[n] = p[n]
  BY <1>1, <1>2, <1>4, <1>5, AppendProperties DEF Paths
<1> HIDE DEF r
<1>7. \A j \in 1 .. n : r[j] = p[j] BY <1>1, <1>4, <1>6
<1>8. r = p BY <1>6, <1>7, SamePath DEF n, Paths
<1>9. n = 1 => p = <<Last(p)>>
  <2> SUFFICES ASSUME n = 1 PROVE p = <<Last(p)>> OBVIOUS
  <2>1. p = [j \in 1 .. 1 |-> p[j]] BY <1>1
  <2>2. \A j \in 1 .. 1 : j = 1 OBVIOUS
  <2>3. <<p[1]>> = [j \in 1 .. 1 |-> p[1]] OBVIOUS
  <2> QED BY <1>5, <2>1, <2>2, <2>3
<1> QED BY <1>1, <1>2, <1>4, <1>5, <1>8, <1>9 DEF n, r

-----------------------------------------------------------------------------
(* What a tree is like while it is built.                                    *)

Nodes(nodes) == 1 .. Len(nodes)
FilePath(fs, f) == fs[f].path
IsDir(nodes, n) == nodes[n].is_directory
FileOf(nodes, n) == nodes[n].source_file_index

Distinct(nodes) ==
  \A m, n \in Nodes(nodes) : nodes[m].path = nodes[n].path => m = n

\* A directory precedes what is in it.
Rooted(nodes) ==
  \A n \in Nodes(nodes) :
    /\ nodes[n].path # <<>>
    /\ Len(nodes[n].path) > 1 =>
         \E m \in 1 .. n - 1 : IsDir(nodes, m) /\ nodes[m].path = Front(nodes[n].path)

\* When the first i nodes of file f are added, and all those of files before:
\* directories are above files,
OnTheWay(nodes, fs, f) ==
  \A n \in Nodes(nodes) : IsDir(nodes, n) =>
    \E g \in 1 .. f : /\ Len(nodes[n].path) < Len(FilePath(fs, g))
                      /\ nodes[n].path = SubSeq(FilePath(fs, g), 1, Len(nodes[n].path))

\* and files are those that are complete,
AreFiles(nodes, fs, f, i) ==
  \A n \in Nodes(nodes) : ~IsDir(nodes, n) =>
    /\ FileOf(nodes, n) \in 1 .. f
    /\ FileOf(nodes, n) = f => i = Len(FilePath(fs, f))
    /\ nodes[n].path = FilePath(fs, FileOf(nodes, n))
    /\ nodes[n].file_size = fs[FileOf(nodes, n)].size

\* in their order,
InOrder(nodes) ==
  \A m, n \in Nodes(nodes) :
    ~IsDir(nodes, m) /\ ~IsDir(nodes, n) /\ m < n => FileOf(nodes, m) < FileOf(nodes, n)

\* and all of them.
HasFile(nodes, g) == \E n \in Nodes(nodes) : ~IsDir(nodes, n) /\ FileOf(nodes, n) = g

HasWay(nodes, fs, f, i) ==
  /\ \A g \in 1 .. f - 1 : HasFile(nodes, g)
  /\ i = Len(FilePath(fs, f)) => HasFile(nodes, f)
  /\ \A j \in 1 .. i : j < Len(FilePath(fs, f)) => \E n \in Nodes(nodes) :
           IsDir(nodes, n) /\ nodes[n].path = SubSeq(FilePath(fs, f), 1, j)

TreeOK(nodes, fs, f, i) ==
  /\ Distinct(nodes)
  /\ Rooted(nodes)
  /\ OnTheWay(nodes, fs, f)
  /\ AreFiles(nodes, fs, f, i)
  /\ InOrder(nodes)
  /\ HasWay(nodes, fs, f, i)

\* A list of files whose tree is built.
Sound(fs) == fs \in Seq(FileSet) /\ Apart(fs) /\ \A f \in DOMAIN fs : fs[f].path # <<>>

LEMMA FileFacts ==
  ASSUME NEW fs, Sound(fs), NEW f \in 1 .. Len(fs)
  PROVE  /\ FilePath(fs, f) \in Paths
         /\ Len(FilePath(fs, f)) \in Nat \ {0}
         /\ f \in Nat \ {0} /\ fs[f].size \in Nat
         /\ \A g \in 1 .. Len(fs) : IsPrefix(FilePath(fs, g), FilePath(fs, f)) => g = f
<1>1. DOMAIN fs = 1 .. Len(fs) /\ Len(fs) \in Nat /\ fs[f] \in FileSet
  BY LenProperties, ElementOfSeq DEF Sound
<1>2. FilePath(fs, f) \in Paths /\ fs[f].size \in Nat /\ FilePath(fs, f) # <<>>
  BY <1>1 DEF FileSet, FilePath, Paths, Sound
<1>3. Len(FilePath(fs, f)) \in Nat \ {0} BY <1>2, EmptySeq DEF Paths
<1> QED BY <1>1, <1>2, <1>3 DEF Sound, Apart, FilePath

\* The node that a file adds as its i-th.
IsWayNode(node, fs, f, i) ==
  /\ node \in NodeSet
  /\ node.path = SubSeq(FilePath(fs, f), 1, i) /\ Len(node.path) = i
  /\ node.path \in Paths
  /\ node.is_directory <=> i < Len(FilePath(fs, f))
  /\ node.source_file_index = f
  /\ i = Len(FilePath(fs, f)) => node.file_size = fs[f].size

LEMMA WayNode ==
  ASSUME NEW fs, Sound(fs), NEW f \in 1 .. Len(fs), NEW i \in 1 .. Len(FilePath(fs, f)),
         NEW node, node = NodesTo(fs, f)[i]
  PROVE  IsWayNode(node, fs, f, i)
<1> DEFINE p == FilePath(fs, f)
           n == Len(p)
<1>1. p \in Paths /\ n \in Nat \ {0} /\ f \in DOMAIN fs /\ i \in 1 .. n
  BY FileFacts, LenProperties DEF Sound
<1>2. node \in NodeSet BY <1>1, NodesToFacts DEF Sound, FilePath
<1>3. node = [path |-> SubSeq(p, 1, i), is_directory |-> i < n, source_file_index |-> f,
    file_size |-> IF i < n THEN 0 ELSE fs[f].size]
  BY DEF NodesTo, FilePath
<1> HIDE DEF p
<1>4. i \in 0 .. n BY <1>1
<1>5. SubSeq(p, 1, i) \in Paths /\ Len(SubSeq(p, 1, i)) = i BY <1>1, <1>4, UpTo
<1>6. node.path = SubSeq(p, 1, i) /\ (node.is_directory <=> i < n)
      /\ node.source_file_index = f
  <2> DEFINE d == i < n
             q == SubSeq(p, 1, i)
             s == IF d THEN 0 ELSE fs[f].size
  <2>1. node = [path |-> q, is_directory |-> d, source_file_index |-> f, file_size |-> s] BY <1>3
  <2> HIDE DEF d, q, s
  <2>2. node.path = q /\ node.is_directory = d /\ node.source_file_index = f BY <2>1
  <2> QED BY <2>2 DEF d, q
<1>7. i = n => node.file_size = fs[f].size
  <2> SUFFICES ASSUME i = n PROVE node.file_size = fs[f].size OBVIOUS
  <2>1. ~(i < n) BY <1>1
  <2>2. node.file_size = IF i < n THEN 0 ELSE fs[f].size BY <1>3
  <2> QED BY <2>1, <2>2
<1> QED BY <1>2, <1>5, <1>6, <1>7 DEF IsWayNode, p

\* A path met before is that of a directory on the way.
LEMMA MetBefore ==
  ASSUME NEW fs, Sound(fs), NEW f \in 1 .. Len(fs), NEW i \in 1 .. Len(FilePath(fs, f)),
         NEW nodes \in NodeLists, TreeOK(nodes, fs, f, i - 1),
         NEW n \in Nodes(nodes), nodes[n].path = SubSeq(FilePath(fs, f), 1, i)
  PROVE  IsDir(nodes, n) /\ i < Len(FilePath(fs, f))
<1> DEFINE p == FilePath(fs, f)
           L == Len(p)
           q == nodes[n].path
<1>1. p \in Paths /\ L \in Nat \ {0} /\ f \in Nat \ {0} /\ i \in 1 .. L
      /\ \A g \in 1 .. Len(fs) : IsPrefix(FilePath(fs, g), p) => g = f
  BY FileFacts
<1>2. i \in 0 .. L /\ i - 1 # L /\ i <= L BY <1>1
<1>3. q = SubSeq(p, 1, i) /\ q \in Paths /\ Len(q) = i BY <1>1, <1>2, UpTo
<1>4. Len(fs) \in Nat /\ f <= Len(fs) BY LenProperties DEF Sound
<1> HIDE DEF p, L, q
<1>5. IsDir(nodes, n)
  <2> SUFFICES ASSUME ~IsDir(nodes, n) PROVE FALSE OBVIOUS
  <2> DEFINE g == FileOf(nodes, n)
  <2>1. g \in 1 .. f /\ (g = f => i - 1 = L) /\ q = FilePath(fs, g) BY DEF TreeOK, AreFiles, q, L, p
  <2> HIDE DEF g
  <2>2. g \in 1 .. Len(fs) /\ g # f BY <1>1, <1>2, <1>4, <2>1
  <2>3. IsPrefix(q, p) BY <1>1, <1>2, <1>3, Beginning DEF L
  <2> QED BY <1>1, <2>1, <2>2, <2>3
<1>6. i < L
  <2> SUFFICES ASSUME i = L PROVE FALSE BY <1>1
  <2>1. q = p BY <1>1, <1>3, AllOfIt DEF L
  <2>2. PICK g \in 1 .. f : Len(q) < Len(FilePath(fs, g))
      /\ q = SubSeq(FilePath(fs, g), 1, Len(q))
    BY <1>5 DEF TreeOK, OnTheWay, q
  <2>3. g \in 1 .. Len(fs) BY <1>1, <1>4
  <2>4. FilePath(fs, g) \in Paths /\ Len(FilePath(fs, g)) \in Nat
        /\ \A h \in 1 .. Len(fs) : IsPrefix(FilePath(fs, h), FilePath(fs, g)) => h = g
    BY <2>3, FileFacts
  <2>5. IsPrefix(p, FilePath(fs, g)) BY <1>1, <1>3, <2>1, <2>2, <2>4, Beginning
  <2>6. f = g BY <2>4, <2>5 DEF p
  <2> QED BY <1>1, <1>3, <2>1, <2>2, <2>6 DEF p, L
<1> QED BY <1>5, <1>6 DEF p, L

\* Then nothing is added.
LEMMA NodeKnown ==
  ASSUME NEW fs, Sound(fs), NEW f \in 1 .. Len(fs), NEW i \in 1 .. Len(FilePath(fs, f)),
         NEW nodes \in NodeLists, TreeOK(nodes, fs, f, i - 1),
         NEW n \in Nodes(nodes), nodes[n].path = SubSeq(FilePath(fs, f), 1, i)
  PROVE  TreeOK(nodes, fs, f, i)
<1> DEFINE L == Len(FilePath(fs, f))
<1>1. IsDir(nodes, n) /\ i < L BY MetBefore
<1>2. L \in Nat \ {0} /\ i \in 1 .. L /\ i - 1 # L /\ i # L BY <1>1, FileFacts
<1>3. AreFiles(nodes, fs, f, i) BY <1>2 DEF TreeOK, AreFiles
<1>4. HasWay(nodes, fs, f, i)
  <2>1. \A j \in 1 .. i : j = i \/ j \in 1 .. i - 1 BY <1>2
  <2>2. \A j \in 1 .. i - 1 : j < L =>
      \E m \in Nodes(nodes) : IsDir(nodes, m) /\ nodes[m].path = SubSeq(FilePath(fs, f), 1, j)
    BY DEF TreeOK, HasWay
  <2>3. \A g \in 1 .. f - 1 : HasFile(nodes, g) BY DEF TreeOK, HasWay
  <2> QED BY <1>1, <1>2, <2>1, <2>2, <2>3 DEF HasWay
<1> QED BY <1>3, <1>4 DEF TreeOK

\* A node that is new, behind the others.
IsLonger(r, nodes, node) ==
  /\ r \in NodeLists /\ Len(r) = Len(nodes) + 1
  /\ \A n \in Nodes(nodes) : r[n] = nodes[n]
  /\ r[Len(nodes) + 1] = node

LEMMA NodeAdded ==
  ASSUME NEW nodes \in NodeLists, NEW node \in NodeSet
  PROVE  IsLonger(Append(nodes, node), nodes, node)
BY AppendProperties DEF NodeLists, IsLonger, Nodes

LEMMA NodeNew ==
  ASSUME NEW fs, Sound(fs), NEW f \in 1 .. Len(fs), NEW i \in 1 .. Len(FilePath(fs, f)),
         NEW nodes \in NodeLists, TreeOK(nodes, fs, f, i - 1),
         NEW node, node = NodesTo(fs, f)[i],
         \A n \in Nodes(nodes) : nodes[n].path # node.path, NEW r, IsLonger(r, nodes, node)
  PROVE  TreeOK(r, fs, f, i)
<1> DEFINE p == FilePath(fs, f)
           L == Len(p)
           N == Len(nodes)
<1>1. p \in Paths /\ L \in Nat \ {0} /\ f \in Nat \ {0} /\ i \in 1 .. L /\ i - 1 # L BY FileFacts
<1>2. /\ node.path = SubSeq(p, 1, i) /\ Len(node.path) = i /\ node.path \in Paths
      /\ node.is_directory <=> i < L
      /\ node.source_file_index = f
      /\ i = L => node.file_size = fs[f].size
  <2>1. IsWayNode(node, fs, f, i) BY WayNode
  <2> QED BY <2>1 DEF IsWayNode
<1>3. N \in Nat /\ Nodes(nodes) = 1 .. N BY LenProperties DEF NodeLists, Nodes
<1>4. /\ Nodes(r) = 1 .. N + 1
      /\ \A n \in 1 .. N : r[n] = nodes[n] /\ n \in Nodes(nodes) /\ n \in Nodes(r)
      /\ r[N + 1] = node /\ N + 1 \in Nodes(r)
      /\ \A n \in Nodes(r) : n \in Int /\ (n \in 1 .. N \/ n = N + 1)
  BY <1>3 DEF IsLonger, Nodes
<1> HIDE DEF p, L, N
<1>5. /\ \A n \in 1 .. N : (IsDir(r, n) <=> IsDir(nodes, n)) /\ FileOf(r, n) = FileOf(nodes, n)
      /\ IsDir(r, N + 1) <=> i < L
      /\ FileOf(r, N + 1) = f
  BY <1>2, <1>4 DEF IsDir, FileOf
<1>6. Distinct(r)
  <2>1. ASSUME NEW m \in Nodes(r), NEW n \in Nodes(r), r[m].path = r[n].path
        PROVE  m = n
    <3>1. CASE m \in 1 .. N /\ n \in 1 .. N BY <1>4, <2>1, <3>1 DEF TreeOK, Distinct
    <3>2. CASE m \in 1 .. N /\ n = N + 1 BY <1>4, <2>1, <3>2
    <3>3. CASE m = N + 1 /\ n \in 1 .. N BY <1>4, <2>1, <3>3
    <3>4. CASE m = N + 1 /\ n = N + 1 BY <3>4
    <3> QED BY <1>4, <3>1, <3>2, <3>3, <3>4
  <2> QED BY <2>1 DEF Distinct
<1>7. Rooted(r)
  <2>1. ASSUME NEW n \in 1 .. N
        PROVE  /\ r[n].path # <<>>
               /\ Len(r[n].path) > 1 =>
                    \E m \in 1 .. n - 1 : IsDir(r, m) /\ r[m].path = Front(r[n].path)
    <3>1. /\ nodes[n].path # <<>>
          /\ Len(nodes[n].path) > 1 =>
               \E m \in 1 .. n - 1 : IsDir(nodes, m) /\ nodes[m].path = Front(nodes[n].path)
      BY <1>4 DEF TreeOK, Rooted
    <3>2. \A m \in 1 .. n - 1 : m \in 1 .. N BY <1>3
    <3> QED BY <1>4, <1>5, <3>1, <3>2
  <2>2. r[N + 1].path # <<>>
    <3>1. Len(node.path) # 0 BY <1>1, <1>2
    <3> QED BY <1>4, <3>1, EmptySeq
  <2>3. Len(r[N + 1].path) > 1 =>
      \E m \in 1 .. (N + 1) - 1 : IsDir(r, m) /\ r[m].path = Front(r[N + 1].path)
    <3> SUFFICES ASSUME i > 1
        PROVE  \E m \in 1 .. (N + 1) - 1 : IsDir(r, m) /\ r[m].path = Front(node.path)
      BY <1>2, <1>4
    <3>1. i - 1 \in 1 .. i - 1 /\ i - 1 < L BY <1>1
    <3>2. PICK m \in Nodes(nodes) : IsDir(nodes, m) /\ nodes[m].path = SubSeq(p, 1, i - 1)
      BY <3>1 DEF TreeOK, HasWay, p, L
    <3>3. Front(node.path) = SubSeq(p, 1, i - 1) BY <1>1, <1>2, FrontOfWay DEF L
    <3>4. m \in 1 .. N /\ m \in 1 .. (N + 1) - 1 BY <1>3
    <3> QED BY <1>4, <1>5, <3>2, <3>3, <3>4
  <2> QED BY <1>4, <2>1, <2>2, <2>3 DEF Rooted
<1>8. OnTheWay(r, fs, f)
  <2>1. ASSUME NEW n \in 1 .. N, IsDir(r, n)
        PROVE  \E g \in 1 .. f : /\ Len(r[n].path) < Len(FilePath(fs, g))
                                 /\ r[n].path = SubSeq(FilePath(fs, g), 1, Len(r[n].path))
    <3>1. IsDir(nodes, n) /\ n \in Nodes(nodes) /\ r[n] = nodes[n] BY <1>4, <1>5, <2>1
    <3> QED BY <3>1 DEF TreeOK, OnTheWay
  <2>2. ASSUME IsDir(r, N + 1)
        PROVE  \E g \in 1 .. f : /\ Len(node.path) < Len(FilePath(fs, g))
                                 /\ node.path = SubSeq(FilePath(fs, g), 1, Len(node.path))
    <3>1. f \in 1 .. f /\ i < L BY <1>1, <1>5, <2>2
    <3> QED BY <1>2, <3>1 DEF p, L
  <2> QED BY <1>4, <2>1, <2>2 DEF OnTheWay
<1>9. AreFiles(r, fs, f, i)
  <2>1. ASSUME NEW n \in 1 .. N, ~IsDir(r, n)
        PROVE  /\ FileOf(r, n) \in 1 .. f /\ FileOf(r, n) # f
               /\ r[n].path = FilePath(fs, FileOf(r, n))
               /\ r[n].file_size = fs[FileOf(r, n)].size
    <3>1. ~IsDir(nodes, n) /\ n \in Nodes(nodes) /\ r[n] = nodes[n] /\ FileOf(r, n) = FileOf(nodes, n)
      BY <1>4, <1>5, <2>1
    <3>2. i - 1 # Len(FilePath(fs, f)) BY <1>1 DEF p, L
    <3> QED BY <3>1, <3>2 DEF TreeOK, AreFiles
  <2>2. ASSUME ~IsDir(r, N + 1)
        PROVE  /\ f \in 1 .. f /\ i = Len(FilePath(fs, f))
               /\ node.path = FilePath(fs, f)
               /\ node.file_size = fs[f].size
    <3>1. i = L /\ f \in 1 .. f BY <1>1, <1>5, <2>2
    <3>2. node.path = p BY <1>1, <1>2, <3>1, AllOfIt DEF L
    <3> QED BY <1>2, <3>1, <3>2 DEF L, p
  <2> QED BY <1>4, <1>5, <2>1, <2>2 DEF AreFiles
<1>10. InOrder(r)
  <2>1. ASSUME NEW m \in Nodes(r), NEW n \in Nodes(r), ~IsDir(r, m), ~IsDir(r, n), m < n
        PROVE  FileOf(r, m) < FileOf(r, n)
    <3>1. m \in 1 .. N BY <1>3, <1>4, <2>1
    <3>2. m \in Nodes(nodes) /\ ~IsDir(nodes, m) /\ FileOf(r, m) = FileOf(nodes, m)
      BY <1>4, <1>5, <2>1, <3>1
    <3>3. CASE n \in 1 .. N
      <4>1. n \in Nodes(nodes) /\ ~IsDir(nodes, n) /\ FileOf(r, n) = FileOf(nodes, n)
        BY <1>4, <1>5, <2>1, <3>3
      <4> QED BY <2>1, <3>2, <4>1 DEF TreeOK, InOrder
    <3>4. CASE n = N + 1
      <4>1. FileOf(nodes, m) \in 1 .. f /\ (FileOf(nodes, m) = f => i - 1 = L)
        BY <3>2 DEF TreeOK, AreFiles, L, p
      <4>2. FileOf(r, n) = f BY <1>5, <3>4
      <4> QED BY <1>1, <3>2, <4>1, <4>2
    <3> QED BY <1>4, <3>3, <3>4
  <2> QED BY <2>1 DEF InOrder
<1>11. HasWay(r, fs, f, i)
  <2>1. \A g : HasFile(nodes, g) => HasFile(r, g)
    <3> SUFFICES ASSUME NEW g, NEW n \in Nodes(nodes), ~IsDir(nodes, n), FileOf(nodes, n) = g
        PROVE  HasFile(r, g)
      BY DEF HasFile
    <3>1. n \in 1 .. N /\ n \in Nodes(r) BY <1>3, <1>4
    <3> QED BY <1>5, <3>1 DEF HasFile
  <2>2. \A g \in 1 .. f - 1 : HasFile(r, g) BY <2>1 DEF TreeOK, HasWay
  <2>3. i = Len(FilePath(fs, f)) => HasFile(r, f)
    <3> SUFFICES ASSUME i = L PROVE HasFile(r, f) BY DEF L, p
    <3>1. ~IsDir(r, N + 1) /\ FileOf(r, N + 1) = f BY <1>1, <1>5
    <3> QED BY <1>4, <3>1 DEF HasFile
  <2>4. ASSUME NEW j \in 1 .. i, j < Len(FilePath(fs, f))
        PROVE  \E n \in Nodes(r) : IsDir(r, n) /\ r[n].path = SubSeq(FilePath(fs, f), 1, j)
    <3>1. CASE j = i
      <4>1. IsDir(r, N + 1) /\ r[N + 1].path = SubSeq(FilePath(fs, f), 1, j)
        BY <1>2, <1>4, <1>5, <2>4, <3>1 DEF L, p
      <4> QED BY <1>4, <4>1
    <3>2. CASE j # i
      <4>1. j \in 1 .. i - 1 BY <1>1, <3>2
      <4>2. PICK n \in Nodes(nodes) : IsDir(nodes, n) /\ nodes[n].path = SubSeq(FilePath(fs, f), 1, j)
        BY <2>4, <4>1 DEF TreeOK, HasWay
      <4>3. n \in 1 .. N BY <1>3
      <4>4. n \in Nodes(r) /\ IsDir(r, n) /\ r[n] = nodes[n] BY <1>4, <1>5, <4>2, <4>3
      <4> QED BY <4>2, <4>4
    <3> QED BY <3>1, <3>2
  <2> QED BY <2>2, <2>3, <2>4 DEF HasWay
<1> QED BY <1>6, <1>7, <1>8, <1>9, <1>10, <1>11 DEF TreeOK

LEMMA AddNodeKeepsTree ==
  ASSUME NEW fs, Sound(fs), NEW f \in 1 .. Len(fs), NEW i \in 1 .. Len(FilePath(fs, f)),
         NEW nodes \in NodeLists, TreeOK(nodes, fs, f, i - 1),
         NEW node, node = NodesTo(fs, f)[i]
  PROVE  TreeOK(AddNode(nodes, node), fs, f, i)
<1>1. DOMAIN nodes = Nodes(nodes) BY LenProperties DEF NodeLists, Nodes
<1>2. node \in NodeSet /\ node.path = SubSeq(FilePath(fs, f), 1, i)
  <2>1. IsWayNode(node, fs, f, i) BY WayNode
  <2> QED BY <2>1 DEF IsWayNode
<1>3. CASE \E n \in DOMAIN nodes : nodes[n].path = node.path
  <2>1. AddNode(nodes, node) = nodes BY <1>3 DEF AddNode
  <2>2. PICK n \in Nodes(nodes) : nodes[n].path = SubSeq(FilePath(fs, f), 1, i) BY <1>1, <1>2, <1>3
  <2>3. TreeOK(nodes, fs, f, i) BY <2>2, NodeKnown
  <2> QED BY <2>1, <2>3
<1>4. CASE ~\E n \in DOMAIN nodes : nodes[n].path = node.path
  <2>1. AddNode(nodes, node) = Append(nodes, node) BY <1>4 DEF AddNode
  <2>2. IsLonger(Append(nodes, node), nodes, node) BY <1>2, NodeAdded
  <2>3. \A n \in Nodes(nodes) : nodes[n].path # node.path BY <1>1, <1>4
  <2>4. TreeOK(Append(nodes, node), fs, f, i) BY <2>2, <2>3, NodeNew
  <2> QED BY <2>1, <2>4
<1> QED BY <1>3, <1>4

LEMMA WayKeepsTree ==
  ASSUME NEW fs, Sound(fs), NEW f \in 1 .. Len(fs),
         NEW nodes \in NodeLists, TreeOK(nodes, fs, f, 0)
  PROVE  TreeOK(AddNodes(nodes, NodesTo(fs, f)), fs, f, Len(FilePath(fs, f)))
<1> DEFINE way == NodesTo(fs, f)
           L == Len(FilePath(fs, f))
<1>1. L \in Nat \ {0} /\ f \in DOMAIN fs BY FileFacts, LenProperties DEF Sound
<1>2. HasLen(way, L) /\ \A k \in 1 .. L : way[k] \in NodeSet BY <1>1, NodesToFacts DEF Sound, FilePath
<1> HIDE DEF way, L
<1>3. PICK run : IsAddRun(run, nodes, way, L) /\ AddNodes(nodes, way) = run[L] BY <1>2, AddNodesRun
<1>4. /\ run \in [0 .. L -> NodeLists] /\ run[0] = nodes
      /\ \A k \in 1 .. L : run[k] = AddNode(run[k - 1], way[k])
  BY <1>3 DEF IsAddRun
<1> DEFINE D == {k \in Nat : k <= L => TreeOK(run[k], fs, f, k)}
<1>5. 0 \in D BY <1>4
<1>6. ASSUME NEW k \in Nat, k \in D PROVE k + 1 \in D
  <2> SUFFICES ASSUME k + 1 <= L PROVE TreeOK(run[k + 1], fs, f, k + 1) OBVIOUS
  <2>1. k + 1 \in 1 .. L /\ (k + 1) - 1 = k /\ k <= L /\ k \in 0 .. L BY <1>1
  <2>2. TreeOK(run[k], fs, f, k) /\ run[k] \in NodeLists BY <1>4, <1>6, <2>1
  <2>3. run[k + 1] = AddNode(run[k], way[k + 1]) BY <1>4, <2>1
  <2> DEFINE i == k + 1
             node == way[i]
  <2>4. i \in 1 .. Len(FilePath(fs, f)) /\ i - 1 = k /\ node = NodesTo(fs, f)[i] BY <2>1 DEF L, way
  <2> HIDE DEF i, node, D
  <2>5. TreeOK(run[k], fs, f, i - 1) BY <2>2, <2>4
  <2>6. TreeOK(AddNode(run[k], node), fs, f, i) BY <2>2, <2>4, <2>5, AddNodeKeepsTree
  <2> QED BY <2>3, <2>6 DEF i, node
<1> HIDE DEF D
<1>7. Nat \subseteq D BY <1>5, <1>6, NatInduct
<1>8. TreeOK(run[L], fs, f, L) BY <1>1, <1>7 DEF D
<1> QED BY <1>3, <1>8 DEF way, L

LEMMA NextFileTree ==
  ASSUME NEW fs, Sound(fs), NEW f \in 1 .. Len(fs), f + 1 <= Len(fs),
         NEW nodes, TreeOK(nodes, fs, f, Len(FilePath(fs, f)))
  PROVE  TreeOK(nodes, fs, f + 1, 0)
<1>1. Len(fs) \in Nat /\ f \in Nat /\ f + 1 \in 1 .. Len(fs) BY LenProperties DEF Sound
<1>2. 0 # Len(FilePath(fs, f + 1)) BY <1>1, FileFacts
<1>3. 1 .. f \subseteq 1 .. f + 1 /\ f + 1 \notin 1 .. f
      /\ \A g \in 1 .. (f + 1) - 1 : g = f \/ g \in 1 .. f - 1
  BY <1>1
<1>4. OnTheWay(nodes, fs, f + 1) BY <1>3 DEF TreeOK, OnTheWay
<1>5. AreFiles(nodes, fs, f + 1, 0)
  <2>1. ASSUME NEW n \in Nodes(nodes), ~IsDir(nodes, n)
        PROVE  /\ FileOf(nodes, n) \in 1 .. f
               /\ nodes[n].path = FilePath(fs, FileOf(nodes, n))
               /\ nodes[n].file_size = fs[FileOf(nodes, n)].size
    BY <2>1 DEF TreeOK, AreFiles
  <2>2. \A g \in 1 .. f : g \in 1 .. f + 1 /\ g # f + 1 BY <1>1
  <2> QED BY <2>1, <2>2 DEF AreFiles
<1>6. HasWay(nodes, fs, f + 1, 0)
  <2>1. \A g \in 1 .. (f + 1) - 1 : HasFile(nodes, g) BY <1>3 DEF TreeOK, HasWay
  <2>2. 1 .. 0 = {} OBVIOUS
  <2> QED BY <1>2, <2>1, <2>2 DEF HasWay
<1> QED BY <1>4, <1>5, <1>6 DEF TreeOK

LEMMA TreeBuilt ==
  ASSUME NEW fs, Sound(fs), fs # <<>>
  PROVE  /\ Len(fs) \in Nat \ {0}
         /\ TreeOK(BuildTree(fs), fs, Len(fs), Len(FilePath(fs, Len(fs))))
<1> DEFINE n == Len(fs)
           At(f) == Len(FilePath(fs, f))
<1>1. fs \in Seq(FileSet) /\ n \in Nat \ {0} BY EmptySeq DEF Sound
<1>2. PICK run : IsBuildRun(run, fs) /\ BuildTree(fs) = run[n] BY <1>1, BuildRun
<1>3. /\ run \in [0 .. n -> NodeLists] /\ run[0] = <<>>
      /\ \A f \in 1 .. n : run[f] = AddNodes(run[f - 1], NodesTo(fs, f))
  BY <1>2 DEF IsBuildRun
<1>4. ASSUME NEW f \in 1 .. n, TreeOK(run[f - 1], fs, f, 0)
      PROVE  TreeOK(run[f], fs, f, At(f))
  <2>1. f - 1 \in 0 .. n BY <1>1
  <2>2. run[f - 1] \in NodeLists /\ run[f] = AddNodes(run[f - 1], NodesTo(fs, f)) BY <1>3, <2>1
  <2> QED BY <1>4, <2>2, WayKeepsTree
<1>5. TreeOK(<<>>, fs, 1, 0)
  <2>1. Nodes(<<>>) = {} BY DEF Nodes
  <2>2. 1 \in 1 .. Len(fs) BY <1>1
  <2>3. 0 # Len(FilePath(fs, 1)) BY <2>2, FileFacts
  <2>4. 1 .. 1 - 1 = {} /\ 1 .. 0 = {} OBVIOUS
  <2>5. Distinct(<<>>) /\ Rooted(<<>>) /\ OnTheWay(<<>>, fs, 1)
        /\ AreFiles(<<>>, fs, 1, 0) /\ InOrder(<<>>)
    BY <2>1 DEF Distinct, Rooted, OnTheWay, AreFiles, InOrder
  <2>6. HasWay(<<>>, fs, 1, 0) BY <2>3, <2>4 DEF HasWay
  <2> QED BY <2>5, <2>6 DEF TreeOK
<1> HIDE DEF n, At
<1> DEFINE D == {k \in Nat : k + 1 <= n => TreeOK(run[k], fs, k + 1, 0)}
<1>6. 0 \in D BY <1>3, <1>5
<1>7. ASSUME NEW k \in Nat, k \in D PROVE k + 1 \in D
  <2> SUFFICES ASSUME (k + 1) + 1 <= n PROVE TreeOK(run[k + 1], fs, (k + 1) + 1, 0) OBVIOUS
  <2> DEFINE f == k + 1
  <2>1. f \in 1 .. n /\ f - 1 = k /\ f <= n /\ f + 1 <= n BY <1>1
  <2>2. TreeOK(run[k], fs, f, 0) BY <1>7, <2>1
  <2> HIDE DEF f, D
  <2>3. TreeOK(run[f], fs, f, At(f)) BY <1>4, <2>1, <2>2
  <2>4. TreeOK(run[f], fs, f + 1, 0) BY <2>1, <2>3, NextFileTree DEF n, At
  <2> QED BY <2>4 DEF f
<1> HIDE DEF D
<1>8. Nat \subseteq D BY <1>6, <1>7, NatInduct
<1>9. TreeOK(run[n], fs, n, At(n))
  <2>1. n - 1 \in Nat /\ (n - 1) + 1 = n /\ n <= n /\ n \in 1 .. n BY <1>1
  <2>2. n - 1 \in D BY <1>8, <2>1
  <2>3. TreeOK(run[n - 1], fs, n, 0) BY <2>1, <2>2 DEF D
  <2> QED BY <1>4, <2>1, <2>3
<1> QED BY <1>1, <1>2, <1>9 DEF n, At

-----------------------------------------------------------------------------
(* Entries and their blocks.                                                 *)

FileTree == BuildTree(files)
Entry(n) == layout.entries[n]
TableBlocks == layout.file_table_block_count

\* Where the blocks of each entry are.
IsHandedOut(S) ==
  /\ IsFree(S, FileTree)
  /\ TotalBlocks = TableBlocks + S[Len(FileTree)]
  /\ \A n \in Nodes(FileTree) :
       ~IsDir(FileTree, n) => Entry(n).starting_block_num = TableBlocks + S[n - 1]

LEMMA EntryFacts ==
  ASSUME Planned
  PROVE  /\ FileTree \in NodeLists /\ Len(layout.entries) = Len(FileTree)
         /\ Len(FileTree) \in Nat /\ TableBlocks \in Nat \ {0}
         /\ TableBlocks * EntriesPerBlock \in Nat
         /\ Len(FileTree) <= TableBlocks * EntriesPerBlock
         /\ \A n \in Nodes(FileTree) :
              /\ Entry(n).is_directory = IsDir(FileTree, n)
              /\ Entry(n).name = Last(FileTree[n].path)
              /\ Entry(n).parent_index = ParentIndex(FileTree, FileTree[n])
              /\ Entry(n).file_size = FileTree[n].file_size
              /\ ~IsDir(FileTree, n) => Entry(n).source_file_index = FileOf(FileTree, n)
         /\ \E S : IsHandedOut(S)
<1> DEFINE nodes == FileTree
           N == Len(nodes)
           tb == TableBlocks
<1>1. files \in Seq(FileSet) BY StfsAssumption DEF FileSet, Planned
<1>2. nodes \in NodeLists /\ N \in Nat /\ DOMAIN nodes = 1 .. N
  BY <1>1, BuildTyped, LenProperties DEF FileTree, NodeLists
<1>3. PICK inst \in BOOLEAN : layout = Plan(files, inst) BY DEF Planned
<1>4. /\ layout.entries = PlannedEntries(nodes, tb)
      /\ tb = Max({CeilDiv(N, EntriesPerBlock), 1})
      /\ TotalBlocks = FirstFreeBlock(nodes, N + 1, tb)
  BY <1>3 DEF Plan, FileTree, TableBlocks, TotalBlocks
<1>5. tb \in Nat \ {0} /\ EntriesPerBlock \in Nat \ {0}
  BY PlannedLayout, TableCounts, LayoutAssumption DEF LayoutOK, TotalBlocks, TableBlocks
<1>6. PICK S : /\ IsFree(S, nodes)
               /\ \A n \in 1 .. Len(nodes) + 1 : \A t \in Nat :
                    FirstFreeBlock(nodes, n, t) = t + S[n - 1]
  BY <1>2, FreeBlocks
<1> HIDE DEF nodes, tb
<1>7. N <= tb * EntriesPerBlock
  <2> DEFINE c == CeilDiv(N, EntriesPerBlock)
  <2>1. CASE N = 0
    <3>1. tb * EntriesPerBlock \in Nat BY <1>5
    <3> QED BY <2>1, <3>1
  <2>2. CASE N # 0
    <3>1. c \in Nat \ {0} /\ N <= c * EntriesPerBlock BY <1>2, <1>5, <2>2, CeilBounds
    <3> HIDE DEF c
    <3>2. tb = IF 1 <= c THEN c ELSE 1
      <4>1. Max({c, 1}) = IF 1 <= c THEN c ELSE 1 BY <3>1, MaxPair
      <4> QED BY <1>4, <4>1 DEF c
    <3>3. tb = c BY <3>1, <3>2
    <3> QED BY <3>1, <3>3
  <2> QED BY <2>1, <2>2
<1>8. tb * EntriesPerBlock \in Nat BY <1>5
<1>9. ASSUME NEW n \in Nodes(nodes)
      PROVE  /\ Entry(n) = [name |-> Last(nodes[n].path),
                            is_directory |-> nodes[n].is_directory,
                            parent_index |-> ParentIndex(nodes, nodes[n]),
                            starting_block_num |->
                              IF nodes[n].is_directory THEN 0 ELSE FirstFreeBlock(nodes, n, tb),
                            file_size |-> nodes[n].file_size, source_file_index |->
                              IF nodes[n].is_directory THEN 0 ELSE nodes[n].source_file_index]
             /\ n \in 1 .. N + 1
  BY <1>2, <1>4, <1>9 DEF PlannedEntries, Entry, Nodes
<1>10. \A n \in Nodes(nodes) :
    /\ Entry(n).is_directory = IsDir(nodes, n)
    /\ Entry(n).name = Last(nodes[n].path)
    /\ Entry(n).parent_index = ParentIndex(nodes, nodes[n])
    /\ Entry(n).file_size = nodes[n].file_size
    /\ ~IsDir(nodes, n) => Entry(n).source_file_index = FileOf(nodes, n)
  BY <1>9 DEF IsDir, FileOf
<1>11. \A n \in Nodes(nodes) :
    ~IsDir(nodes, n) => Entry(n).starting_block_num = tb + S[n - 1]
  BY <1>5, <1>6, <1>9 DEF IsDir
<1>12. TotalBlocks = tb + S[N]
  <2>1. N + 1 \in 1 .. N + 1 /\ (N + 1) - 1 = N BY <1>2
  <2> QED BY <1>4, <1>5, <1>6, <2>1
<1>13. IsHandedOut(S) BY <1>6, <1>11, <1>12 DEF IsHandedOut, nodes, tb
<1>14. Len(layout.entries) = N
  <2>1. DOMAIN layout.entries = 1 .. N BY <1>2, <1>4 DEF PlannedEntries
  <2>2. HasLen(layout.entries, Len(layout.entries)) BY PlannedLayout DEF LayoutOK
  <2>3. DOMAIN layout.entries = 1 .. Len(layout.entries) /\ Len(layout.entries) \in Nat
    BY <2>2, SequenceLength DEF HasLen
  <2> QED BY <1>2, <2>1, <2>3
<1> QED BY <1>2, <1>5, <1>7, <1>8, <1>10, <1>13, <1>14 DEF nodes, tb

LEMMA FreeMonotonic ==
  ASSUME NEW nodes \in NodeLists, NEW S, IsFree(S, nodes),
         NEW i \in 0 .. Len(nodes), NEW j \in 0 .. Len(nodes), i <= j
  PROVE  S[i] \in Nat /\ S[j] \in Nat /\ S[i] <= S[j]
<1> DEFINE N == Len(nodes)
           D == {d \in Nat : i + d <= N => S[i] <= S[i + d]}
<1>1. N \in Nat /\ \A n \in 1 .. N : nodes[n] \in NodeSet BY LenProperties, ElementOfSeq DEF NodeLists
<1>2. S \in [0 .. N -> Nat] /\ \A n \in 1 .. N : S[n] = S[n - 1] + NodeBlocks(nodes[n]) BY DEF IsFree
<1>3. \A n \in 1 .. N : NodeBlocks(nodes[n]) \in Nat BY <1>1, NodeBlocksIsNat
<1> HIDE DEF N
<1>4. i \in 0 .. N /\ j \in 0 .. N BY DEF N
<1>5. 0 \in D BY <1>1, <1>2, <1>4
<1>6. ASSUME NEW d \in Nat, d \in D PROVE d + 1 \in D
  <2> SUFFICES ASSUME i + (d + 1) <= N PROVE S[i] <= S[i + (d + 1)] OBVIOUS
  <2> DEFINE n == i + (d + 1)
  <2>1. n \in 1 .. N /\ n - 1 = i + d /\ i + d <= N /\ i + d \in 0 .. N BY <1>1, <1>4
  <2>2. S[i] <= S[i + d] /\ S[i + d] \in Nat /\ S[i] \in Nat BY <1>2, <1>4, <1>6, <2>1
  <2> HIDE DEF n
  <2>3. S[n] = S[i + d] + NodeBlocks(nodes[n]) /\ NodeBlocks(nodes[n]) \in Nat BY <1>2, <1>3, <2>1
  <2> DEFINE x == NodeBlocks(nodes[n])
  <2> HIDE DEF x
  <2>4. S[i] <= S[n] BY <2>2, <2>3 DEF x
  <2> QED BY <2>4 DEF n
<1> HIDE DEF D
<1>7. Nat \subseteq D BY <1>5, <1>6, NatInduct
<1>8. j - i \in D /\ i + (j - i) = j BY <1>1, <1>4, <1>7
<1>9. S[i] <= S[j] BY <1>1, <1>4, <1>8 DEF D
<1> QED BY <1>2, <1>4, <1>9

LEMMA EntryBlocks ==
  ASSUME NEW size \in Nat
  PROVE  /\ EntryBlockCount(size) \in Nat \ {0}
         /\ size <= EntryBlockCount(size) * BlockSize
         /\ size # 0 => (EntryBlockCount(size) - 1) * BlockSize < size
<1>1. BlockSize \in Nat \ {0} BY LayoutAssumption
<1>2. CASE size = 0
  <2>1. EntryBlockCount(size) = 1 BY <1>2 DEF EntryBlockCount
  <2> QED BY <1>1, <1>2, <2>1
<1>3. CASE size # 0
  <2>1. EntryBlockCount(size) = CeilDiv(size, BlockSize) BY <1>3 DEF EntryBlockCount
  <2> QED BY <1>1, <1>3, <2>1, CeilBounds
<1> QED BY <1>2, <1>3

\* The blocks of a file lie behind the file table, and belong to it alone.
LEMMA Owner ==
  ASSUME Planned, NEW n \in Nodes(FileTree), ~IsDir(FileTree, n),
         NEW start, start = Entry(n).starting_block_num,
         NEW count, count = EntryBlockCount(Entry(n).file_size),
         NEW b \in start .. start + count - 1
  PROVE  /\ start \in Nat /\ count \in Nat \ {0}
         /\ TableBlocks <= start /\ start + count <= TotalBlocks
         /\ b \in Nat
         /\ EntryForDataBlock(layout, b) = n
<1> DEFINE N == Len(FileTree)
           tb == TableBlocks
           count0(m) == EntryBlockCount(FileTree[m].file_size)
<1>1. /\ FileTree \in NodeLists /\ Len(layout.entries) = N /\ N \in Nat /\ tb \in Nat \ {0}
      /\ \A m \in Nodes(FileTree) :
           /\ Entry(m).is_directory = IsDir(FileTree, m)
           /\ Entry(m).file_size = FileTree[m].file_size
  BY EntryFacts
<1>2. PICK S : IsHandedOut(S) BY EntryFacts
<1>3. \A m \in 1 .. N : m \in Nodes(FileTree) /\ FileTree[m] \in NodeSet
  BY <1>1, ElementOfSeq, LenProperties DEF Nodes, NodeLists
<1>4. \A m \in 1 .. N : ~IsDir(FileTree, m) =>
    /\ count0(m) \in Nat \ {0}
    /\ S[m] = S[m - 1] + count0(m)
    /\ Entry(m).starting_block_num = tb + S[m - 1]
  <2>1. ASSUME NEW m \in 1 .. N, ~IsDir(FileTree, m)
        PROVE  /\ count0(m) \in Nat \ {0}
               /\ S[m] = S[m - 1] + count0(m)
               /\ Entry(m).starting_block_num = tb + S[m - 1]
    <3>1. FileTree[m].file_size \in Nat BY <1>3 DEF NodeSet
    <3>2. NodeBlocks(FileTree[m]) = count0(m) BY <2>1 DEF NodeBlocks, IsDir
    <3> QED BY <1>2, <1>3, <2>1, <3>1, <3>2, EntryBlocks DEF IsHandedOut, IsFree
  <2> QED BY <2>1
<1>5. \A i, j \in 0 .. N : S[i] \in Nat /\ (i <= j => S[i] <= S[j])
  <2>1. ASSUME NEW i \in 0 .. N, NEW j \in 0 .. N
        PROVE  S[i] \in Nat /\ (i <= j => S[i] <= S[j])
    <3>1. IsFree(S, FileTree) BY <1>2 DEF IsHandedOut
    <3>2. S[i] \in Nat BY <2>1, <3>1 DEF IsFree
    <3> QED BY <1>1, <3>1, <3>2, FreeMonotonic
  <2> QED BY <2>1
<1>6. n \in 1 .. N /\ count = count0(n) BY <1>1 DEF Nodes
<1>7. TotalBlocks = tb + S[N] BY <1>2 DEF IsHandedOut
<1>8. DOMAIN layout.entries = 1 .. N
  <2>1. HasLen(layout.entries, Len(layout.entries)) BY PlannedLayout DEF LayoutOK
  <2> QED BY <1>1, <2>1, SequenceLength
<1> HIDE DEF N, tb, count0
<1>9. /\ n - 1 \in 0 .. N /\ n \in 0 .. N /\ N \in 0 .. N /\ n <= N
      /\ start = tb + S[n - 1] /\ S[n - 1] \in Nat
      /\ count \in Nat \ {0} /\ S[n] = S[n - 1] + count
  BY <1>1, <1>4, <1>5, <1>6
<1>10. S[n] <= S[N] /\ S[n] \in Nat /\ S[N] \in Nat BY <1>5, <1>9
<1>11. start \in Nat /\ tb <= start /\ start + count <= TotalBlocks /\ b \in Nat
  <2> DEFINE x == S[n - 1]
             z == S[N]
             y == S[n]
  <2>1. x \in Nat /\ y \in Nat /\ z \in Nat /\ y = x + count /\ y <= z /\ start = tb + x
        /\ TotalBlocks = tb + z /\ tb \in Nat /\ count \in Nat \ {0}
    BY <1>1, <1>7, <1>9, <1>10
  <2> HIDE DEF x, y, z
  <2>2. start \in Nat /\ tb <= start /\ start + count <= TotalBlocks BY <2>1
  <2>3. b \in Nat BY <2>1, <2>2
  <2> QED BY <2>2, <2>3
<1>12. ASSUME NEW m \in 1 .. N, Owns(Entry(m), b)
    PROVE  m = n
  <2>1. /\ ~IsDir(FileTree, m)
        /\ b >= Entry(m).starting_block_num
        /\ b < Entry(m).starting_block_num + count0(m)
    BY <1>1, <1>3, <1>12 DEF Owns, count0
  <2>2. /\ count0(m) \in Nat /\ S[m] = S[m - 1] + count0(m)
        /\ Entry(m).starting_block_num = tb + S[m - 1]
    BY <1>4, <2>1
  <2>3. m - 1 \in 0 .. N /\ m \in 0 .. N BY <1>1
  <2>4. /\ S[m] \in Nat /\ S[m - 1] \in Nat
        /\ m <= n - 1 => S[m] <= S[n - 1]
        /\ n <= m - 1 => S[n] <= S[m - 1]
    BY <1>5, <1>9, <2>3
  <2>5. tb + S[m - 1] <= b /\ b < tb + S[m]
    <3> DEFINE u == S[m - 1]
               v == S[m]
               w == Entry(m).starting_block_num
               k == count0(m)
    <3>1. /\ b >= w /\ b < w + k /\ v = u + k /\ w = tb + u
          /\ u \in Nat /\ v \in Nat /\ k \in Nat /\ tb \in Nat /\ b \in Nat
      BY <1>1, <1>11, <2>1, <2>2, <2>4
    <3> HIDE DEF u, v, w, k
    <3>2. tb + u <= b /\ b < tb + v BY <3>1
    <3> QED BY <3>2 DEF u, v
  <2>6. tb + S[n - 1] <= b /\ b < tb + S[n] BY <1>1, <1>9, <1>10, SMTT(20)
  <2> DEFINE u == S[m - 1]
             v == S[m]
             x == S[n - 1]
             y == S[n]
  <2>7. /\ tb \in Nat /\ b \in Nat /\ u \in Nat /\ v \in Nat /\ x \in Nat /\ y \in Nat
        /\ tb + u <= b /\ b < tb + v /\ tb + x <= b /\ b < tb + y
        /\ m <= n - 1 => v <= x
        /\ n <= m - 1 => y <= u
    BY <1>1, <1>9, <1>10, <1>11, <2>4, <2>5, <2>6
  <2> HIDE DEF u, v, x, y
  <2>8. ~(m <= n - 1) /\ ~(n <= m - 1) BY <2>7
  <2>9. m \in Int /\ n \in Int BY <1>6
  <2> QED BY <2>8, <2>9
<1>13. Owns(Entry(n), b)
  <2>1. ~Entry(n).is_directory BY <1>1, <1>3, <1>6
  <2> QED BY <1>9, <1>11, <2>1 DEF Owns
<1>14. EntryForDataBlock(layout, b) = n
  <2>1. EntryForDataBlock(layout, b) = CHOOSE m \in 1 .. N : Owns(Entry(m), b)
    BY <1>8 DEF EntryForDataBlock, Entry
  <2> QED BY <1>6, <1>12, <1>13, <2>1
<1> QED BY <1>9, <1>11, <1>14 DEF tb

-----------------------------------------------------------------------------
(* Chains of files and of the file table.                                    *)

LEMMA NodeTyped ==
  ASSUME Planned, NEW n \in Nodes(FileTree)
  PROVE  FileTree[n] \in NodeSet
<1>1. FileTree \in NodeLists BY EntryFacts
<1> DEFINE s == FileTree
<1>2. n \in 1 .. Len(s) BY <1>1, LenProperties DEF Nodes, NodeLists
<1> HIDE DEF s
<1>3. s \in Seq(NodeSet) BY <1>1 DEF s, NodeLists
<1>4. s[n] \in NodeSet BY <1>2, <1>3, ElementOfSeq
<1> QED BY <1>4 DEF s

\* From block q of a file a reader gets to its last.
LEMMA FileChain ==
  ASSUME WInv, Package, NEW n \in Nodes(FileTree), ~IsDir(FileTree, n),
         NEW start, start = Entry(n).starting_block_num,
         NEW count, count = EntryBlockCount(Entry(n).file_size),
         NEW q \in Nat, NEW hops \in Nat, NEW m \in Nat, m <= hops, NEW r, r = q + m, r < count,
         NEW first, first = start + q,
         NEW c, c = Chain(first, hops, TopTable, Level1Status(TopTable))
  PROVE  \A k \in 0 .. m : c[k] = first + k /\ c[k] < allocated
<1> DEFINE tb == TableBlocks
<1>0. Planned /\ TotalBlocks \in Nat BY TableCounts DEF WInv
<1>1. ASSUME NEW b \in start .. start + count - 1
      PROVE  /\ start \in Nat /\ count \in Nat \ {0} /\ tb <= start
             /\ start + count <= TotalBlocks
             /\ b \in Nat /\ EntryForDataBlock(layout, b) = n
  BY <1>0, Owner
<1>2. start \in Nat /\ count \in Nat \ {0} /\ tb <= start /\ start + count <= TotalBlocks
  <2>1. Entry(n).file_size \in Nat
    <3>1. Entry(n).file_size = FileTree[n].file_size BY <1>0, EntryFacts
    <3> QED BY <1>0, <3>1, NodeTyped DEF NodeSet
  <2>2. count \in Nat \ {0} BY <2>1, EntryBlocks
  <2>3. start \in Nat BY <1>0, PlannedLayout, EntryFacts DEF LayoutOK, Entry, Nodes
  <2>4. start \in start .. start + count - 1 BY <2>2, <2>3
  <2> QED BY <1>1, <2>4
<1>3. tb \in Nat \ {0} BY <1>0, EntryFacts
<1> HIDE DEF tb
<1>4. first \in Nat /\ first + m < TotalBlocks BY <1>0, <1>2
<1>5. ASSUME NEW k \in 0 .. m - 1
      PROVE  NextBlock(layout, first + k) = first + k + 1
  <2> DEFINE b == first + k
  <2>1. b \in start .. start + count - 1 /\ b # start + count - 1 /\ b + 1 # tb /\ b >= tb BY <1>2, <1>3
  <2> HIDE DEF b
  <2>2. EntryForDataBlock(layout, b) = n BY <1>1, <2>1
  <2>3. ~IsLastBlockOfChain(layout, b) BY <2>1, <2>2 DEF IsLastBlockOfChain, tb, TableBlocks, Entry
  <2>4. NextBlock(layout, b) = b + 1 BY <2>3 DEF NextBlock
  <2> QED BY <2>4 DEF b
<1>6. FollowEachOther(first, m) BY <1>5 DEF FollowEachOther
<1> QED BY <1>4, <1>6, ChainWalks

\* The file table is found whole.
LEMMA TableChainWalks ==
  ASSUME WInv, Package, NEW m \in Nat, m = TableBlocks - 1, NEW first \in Nat, first = 0,
         NEW n \in Nat, n = m, NEW c, c = TableChain
  PROVE  /\ DOMAIN c = 0 .. m /\ m \in Nat
         /\ \A k \in 0 .. m : c[k] = k /\ c[k] < allocated
<1>1. Planned /\ TotalBlocks \in Nat
      /\ TableBlocks \in Nat \ {0} /\ TableBlocks <= TotalBlocks
  BY PlannedLayout, TableCounts, EntryFacts DEF WInv, LayoutOK, TotalBlocks, TableBlocks
<1>2. c = Chain(0, m, TopTable, Level1Status(TopTable)) /\ DOMAIN c = 0 .. m
  BY TableChainFacts DEF TableBlocks
<1>3. /\ m \in Nat /\ n \in Nat /\ first \in Nat /\ m <= n /\ first + m < TotalBlocks
      /\ c = Chain(first, n, TopTable, Level1Status(TopTable))
  BY <1>1, <1>2
<1>4. ASSUME NEW k \in 0 .. m - 1
      PROVE  NextBlock(layout, first + k) = first + k + 1
  <2>1. first + k = k /\ k + 1 # TableBlocks /\ ~(k >= TableBlocks) BY <1>1
  <2>2. ~IsLastBlockOfChain(layout, k) BY <2>1 DEF IsLastBlockOfChain, TableBlocks
  <2>3. NextBlock(layout, k) = k + 1 BY <2>2 DEF NextBlock
  <2> QED BY <2>1, <2>3
<1>5. FollowEachOther(first, m) BY <1>4 DEF FollowEachOther
<1>6. \A k \in 0 .. m : c[k] = first + k /\ c[k] < allocated BY ONLY WInv, Package, <1>3, <1>5, ChainWalks
<1>7. \A k \in 0 .. m : first + k = k BY <1>3
<1> QED BY <1>2, <1>3, <1>6, <1>7

LEMMA TableWalk ==
  ASSUME WInv, Package
  PROVE  /\ Legal(TableChain)
         /\ \A k \in 0 .. TableBlocks - 1 : TableChain[k] = k
<1> DEFINE m == TableBlocks - 1
           c == TableChain
<1>0. m \in Nat /\ 0 \in Nat BY EntryFacts DEF WInv
<1>1. /\ DOMAIN c = 0 .. m /\ m \in Nat
      /\ \A k \in 0 .. m : c[k] = k /\ c[k] < allocated
  BY <1>0, TableChainWalks
<1> HIDE DEF c, m
<1>2. Legal(c) BY <1>1 DEF Legal
<1> QED BY <1>1, <1>2 DEF m, c

\* Every slot holds its entry.
LEMMA SlotFound ==
  ASSUME WInv, Package, NEW i \in 0 .. TableBlocks * EntriesPerBlock - 1
  PROVE  SlotsOf(TableChain)[i] = IF i < Len(FileTree) THEN <<Slot(Entry(i + 1))>> ELSE <<>>
<1> DEFINE P == EntriesPerBlock
           tb == TableBlocks
           N == Len(FileTree)
           t == i \div P
           n == (i % P) + 1
           start == t * P
           stop == Min({start + P, N})
           block == FileTableBlock(t)
<1>1. /\ Planned /\ P \in Nat \ {0} /\ tb \in Nat \ {0} /\ N \in Nat /\ tb * P \in Nat
      /\ Len(layout.entries) = N /\ TotalBlocks \in Nat /\ tb <= TotalBlocks
      /\ DOMAIN SlotsOf(TableChain) = 0 .. tb * P - 1
  BY PlannedLayout, TableCounts, EntryFacts, LayoutAssumption, TableChainFacts DEF WInv, LayoutOK,
     TotalBlocks, TableBlocks
<1>2. i \in Nat /\ i < tb * P BY <1>1
<1>3. /\ t \in Nat /\ i % P \in 0 .. P - 1 /\ i = start + (i % P) /\ start \in Nat
      /\ n \in 1 .. P /\ start + n = i + 1
  <2> DEFINE r == i % P
  <2> HIDE DEF P
  <2>1. t \in Nat /\ r \in 0 .. P - 1 /\ i = t * P + r BY <1>1, <1>2, DivMod
  <2> HIDE DEF t, r
  <2>2. start \in Nat BY <1>1, <2>1
  <2> HIDE DEF start
  <2>3. i = start + r BY <2>1 DEF start
  <2>4. n = r + 1 BY DEF r
  <2> HIDE DEF n
  <2>5. n \in 1 .. P /\ start + n = i + 1 BY <1>1, <1>2, <2>1, <2>2, <2>3, <2>4
  <2> QED BY <2>1, <2>2, <2>3, <2>5 DEF r
<1>4. t < tb
  <2> HIDE DEF t, n, tb
  <2>1. tb <= t => tb * P <= t * P BY <1>1, <1>3, MultMonotonic
  <2>2. t * P <= i BY <1>3
  <2> QED BY <1>1, <1>2, <1>3, <2>1, <2>2
<1> HIDE DEF tb, t, n, P, N
<1>5. TableChain[t] = t
  <2>1. t \in 0 .. TableBlocks - 1 BY <1>1, <1>3, <1>4 DEF tb
  <2> QED BY <2>1, TableWalk
<1>6. PhysicalBlock(BackingDataBlock(t)) = block
  <2>1. t \in 0 .. TotalBlocks - 1 /\ InFileTable(t) BY <1>1, <1>3, <1>4 DEF InFileTable, tb, TableBlocks
  <2> QED BY <2>1, BlockFound DEF BlockAt, Content
<1>7. SlotsOf(TableChain)[i] = IF block.kind = "listing" /\ n \in DOMAIN block.slots
                               THEN <<block.slots[n]>> ELSE <<>>
  <2>1. i \in DOMAIN SlotsOf(TableChain) BY <1>1 DEF tb, P
  <2>2. PhysicalBlock(BackingDataBlock(TableChain[i \div EntriesPerBlock])) = block BY <1>5, <1>6 DEF t, P
  <2> HIDE DEF block
  <2> QED BY <2>1, <2>2 DEF SlotsOf, n, P
<1>8. block = [kind |-> "listing",
    slots |-> [j \in 1 .. stop - start |-> Slot(layout.entries[start + j])]]
  BY <1>1 DEF FileTableBlock, P
<1> HIDE DEF block
<1>9. n \in 1 .. stop - start <=> i < N
  <2>1. stop = IF start + P <= N THEN start + P ELSE N
    <3> HIDE DEF start
    <3>1. start + P \in Int /\ N \in Int BY <1>1, <1>3
    <3> QED BY <3>1, MinPair
  <2> HIDE DEF stop, start
  <2> QED BY <1>1, <1>2, <1>3, <2>1
<1>10. n \in 1 .. stop - start => block.slots[n] = Slot(Entry(i + 1))
  <2> HIDE DEF stop, start
  <2> QED BY <1>3, <1>8 DEF Entry
<1>11. block.kind = "listing" /\ DOMAIN block.slots = 1 .. stop - start BY <1>8
<1> HIDE DEF stop, start
<1>12. CASE i < N BY <1>7, <1>9, <1>10, <1>11, <1>12 DEF N
<1>13. CASE ~(i < N) BY <1>7, <1>9, <1>11, <1>13 DEF N
<1> QED BY <1>12, <1>13

\* Every byte of a file is in its block.
LEMMA ByteFound ==
  ASSUME WInv, Package, NEW n \in Nodes(FileTree), ~IsDir(FileTree, n),
         NEW start, start = Entry(n).starting_block_num, NEW size, size = Entry(n).file_size,
         NEW q \in Nat, q < EntryBlockCount(size),
         NEW j \in 0 .. BlockSize - 1, q * BlockSize + j < size
  PROVE  ByteOf(BlockAt(start + q), j + 1) = <<FileOf(FileTree, n), q * BlockSize + j>>
<1> DEFINE b == start + q
           B == BlockSize
           block == DataBlock(b)
           count == EntryBlockCount(size)
<1>1. /\ Planned /\ B \in Nat \ {0} /\ TotalBlocks \in Nat /\ TableBlocks \in Nat \ {0}
      /\ Entry(n).source_file_index = FileOf(FileTree, n)
      /\ size = FileTree[n].file_size
  BY TableCounts, EntryFacts, LayoutAssumption DEF WInv
<1>2. size \in Nat BY <1>1, NodeTyped DEF NodeSet
<1>3. count \in Nat \ {0} BY <1>2, EntryBlocks
<1>4. start \in Nat BY <1>1, PlannedLayout, EntryFacts DEF LayoutOK, Entry, Nodes
<1> HIDE DEF count
<1>5. b \in start .. start + count - 1 BY <1>3, <1>4 DEF count
<1>6. /\ TableBlocks <= start /\ start + count <= TotalBlocks
      /\ EntryForDataBlock(layout, b) = n
  BY <1>1, <1>5, Owner DEF count
<1>7. b - start = q /\ b \in 0 .. TotalBlocks - 1 /\ ~(b < TableBlocks) BY <1>1, <1>3, <1>4, <1>5, <1>6
<1>8. BlockAt(b) = block BY <1>7, BlockFound DEF Content, InFileTable, TableBlocks
<1> HIDE DEF b
<1> DEFINE d == q * B
<1>9. d \in Nat /\ d + j < size /\ j \in Nat /\ j + 1 <= B /\ j + 1 \in 1 .. B BY <1>1
<1>10. ToRead(Entry(n), b) = Min({size - d, B}) BY <1>7 DEF ToRead
<1>11. j + 1 <= ToRead(Entry(n), b)
  <2> HIDE DEF d, B
  <2>1. Min({size - d, B}) = IF size - d <= B THEN size - d ELSE B BY <1>1, <1>2, <1>9, MinPair
  <2> QED BY <1>1, <1>2, <1>9, <1>10, <2>1
<1>12. block = [kind |-> "data",
    bytes |-> [i \in 1 .. B |->
      IF i <= ToRead(Entry(n), b) THEN <<FileOf(FileTree, n), d + i - 1>> ELSE Pad]]
  <2>1. (b - Entry(n).starting_block_num) * BlockSize = d BY <1>7
  <2>2. layout.entries[EntryForDataBlock(layout, b)] = Entry(n) BY <1>6 DEF Entry, b
  <2> HIDE DEF d
  <2> QED BY <1>1, <2>1, <2>2 DEF DataBlock
<1> HIDE DEF block, d, B
<1>13. block.kind = "data"
    /\ block.bytes[j + 1] = <<FileOf(FileTree, n), d + (j + 1) - 1>>
  BY <1>9, <1>11, <1>12
<1>14. d + (j + 1) - 1 = d + j BY <1>9
<1> QED BY <1>8, <1>13, <1>14 DEF ByteOf, b, d, B

-----------------------------------------------------------------------------
(* Paths of the entries found.                                               *)

\* What a reader makes of a path, as it is stored.
PathRead(path) == IF IsSafe(path) THEN StoredPath(path) ELSE <<>>

LEMMA StoredIs ==
  ASSUME NEW p \in Paths
  PROVE  /\ StoredPath(p) \in Paths /\ Len(StoredPath(p)) = Len(p)
         /\ \A i \in 1 .. Len(p) : StoredPath(p)[i] = StoredName[p[i]] /\ StoredName[p[i]] \in Names
         /\ IsSafe(p) <=> \A i \in 1 .. Len(p) : StoredName[p[i]] \in SafeNames
<1> DEFINE n == Len(p)
           s == StoredPath(p)
<1>1. n \in Nat /\ p \in [1 .. n -> Names] BY LenProperties DEF Paths
<1>2. DOMAIN p = 1 .. n BY <1>1
<1> HIDE DEF n
<1>3. s = [i \in 1 .. n |-> StoredName[p[i]]] BY <1>2 DEF StoredPath
<1>4. \A i \in 1 .. n : StoredName[p[i]] \in Names BY <1>1, StfsAssumption
<1>5. \A i \in 1 .. n : s[i] = StoredName[p[i]] BY <1>3
<1>6. s \in Seq(Names) /\ Len(s) = n
  <2>1. HasLen(s, n)
    <3>1. s = [i \in 1 .. n |-> s[i]] BY <1>3, <1>5
    <3> HIDE DEF s
    <3> QED BY ONLY <1>1, <3>1 DEF HasLen
  <2>2. \A i \in 1 .. n : s[i] \in Names BY <1>4, <1>5
  <2> HIDE DEF s
  <2>3. s \in Seq(Names) BY ONLY <1>1, <2>1, <2>2, SequenceIsSeq
  <2>4. Len(s) = n BY <1>1, <2>1, SequenceLength
  <2> QED BY <2>3, <2>4
<1>7. Range(s) = {s[i] : i \in 1 .. n}
  <2>1. DOMAIN s = 1 .. n BY <1>3
  <2> HIDE DEF s
  <2> QED BY <2>1 DEF Range
<1>8. IsSafe(p) <=> \A i \in 1 .. n : s[i] \in SafeNames
  <2>1. IsSafe(p) <=> Range(s) \subseteq SafeNames BY DEF IsSafe
  <2> HIDE DEF s
  <2> QED BY <1>7, <2>1
<1> QED BY <1>4, <1>5, <1>6, <1>8 DEF n, Paths

\* It is read name after name.
LEMMA PathReadStep ==
  ASSUME NEW p \in Paths, p # <<>>
  PROVE  PathRead(p) = IF StoredName[Last(p)] \notin SafeNames THEN <<>>
                       ELSE IF Len(p) = 1 THEN <<StoredName[Last(p)]>>
                       ELSE IF PathRead(Front(p)) = <<>> THEN <<>>
                            ELSE Append(PathRead(Front(p)), StoredName[Last(p)])
<1> DEFINE n == Len(p)
           q == Front(p)
           x == Last(p)
           y == StoredName[x]
           s == StoredPath(p)
           t == StoredPath(q)
<1>1. n \in Nat \ {0} /\ q \in Paths /\ Len(q) = n - 1 /\ Append(q, x) = p BY FrontAndLast
<1>2. /\ s \in Paths /\ Len(s) = n /\ \A i \in 1 .. n : s[i] = StoredName[p[i]]
      /\ IsSafe(p) <=> \A i \in 1 .. n : StoredName[p[i]] \in SafeNames
      /\ \A i \in 1 .. n : StoredName[p[i]] \in Names
  BY StoredIs
<1>3. /\ t \in Paths /\ Len(t) = n - 1 /\ \A i \in 1 .. n - 1 : t[i] = StoredName[q[i]]
      /\ IsSafe(q) <=> \A i \in 1 .. n - 1 : StoredName[q[i]] \in SafeNames
  BY <1>1, StoredIs
<1>4. p[n] = x BY DEF Last
<1>5. PathRead(p) = (IF IsSafe(p) THEN s ELSE <<>>) /\ PathRead(q) = (IF IsSafe(q) THEN t ELSE <<>>)
  BY DEF PathRead
<1>6. x \in Names
  <2>1. p \in [1 .. n -> Names] BY LenProperties DEF Paths
  <2>2. n \in 1 .. n BY <1>1
  <2> HIDE DEF n, x
  <2> QED BY <1>4, <2>1, <2>2
<1> HIDE DEF n, q, s, t, x
<1>7. \A i \in 1 .. n - 1 : p[i] = q[i]
  <2>1. \A i \in 1 .. Len(q) : Append(q, x)[i] = q[i] BY <1>1, <1>6, AppendProperties DEF Paths
  <2> QED BY <1>1, <2>1
<1>8. (\A i \in 1 .. n - 1 : i \in 1 .. n) /\ n \in 1 .. n /\ (\A i \in 1 .. n : i \in 1 .. n - 1 \/ i = n)
  BY <1>1
<1>9. IsSafe(p) <=> IsSafe(q) /\ y \in SafeNames BY <1>2, <1>3, <1>4, <1>7, <1>8
<1>10. y \in Names /\ s[n] = y BY <1>2, <1>4, <1>8
<1> HIDE DEF y
<1>11. CASE n = 1
  <2>1. IsSafe(q)
    <3>1. 1 .. n - 1 = {} BY <1>11
    <3> QED BY <1>3, <3>1
  <2>2. s = <<y>>
    <3>1. <<y>> \in Paths /\ Len(<<y>>) = 1 /\ <<y>>[1] = y BY <1>10 DEF Paths
    <3>2. \A j \in 1 .. 1 : s[j] = <<y>>[j] BY <1>10, <1>11, <3>1
    <3> QED BY <1>2, <1>11, <3>1, <3>2, SamePath
  <2> QED BY <1>5, <1>9, <1>11, <2>1, <2>2 DEF n, x, y
<1>12. CASE n # 1
  <2>1. t # <<>>
    <3>1. Len(t) # 0 BY <1>1, <1>3, <1>12
    <3> QED BY <3>1, EmptySeq
  <2>2. s = Append(t, y)
    <3> DEFINE r == Append(t, y)
    <3>1. /\ r \in Seq(Names) /\ Len(r) = Len(t) + 1
          /\ \A i \in 1 .. Len(t) : r[i] = t[i]
          /\ r[Len(t) + 1] = y
      BY <1>3, <1>10, AppendProperties DEF Paths
    <3> HIDE DEF r
    <3>2. Len(r) = n /\ Len(t) + 1 = n BY <1>1, <1>3, <3>1
    <3>3. \A i \in 1 .. n - 1 : s[i] = r[i] BY <1>2, <1>3, <1>7, <1>8, <3>1
    <3>4. s[n] = r[n] BY <1>10, <3>1, <3>2
    <3>5. \A i \in 1 .. n : s[i] = r[i] BY <1>8, <3>3, <3>4
    <3> QED BY <1>2, <3>1, <3>2, <3>5, SamePath DEF r, Paths
  <2> QED BY <1>5, <1>9, <1>12, <2>1, <2>2 DEF n, q, x, y
<1> QED BY <1>11, <1>12

IsDirAt(slots, k) == k \in DOMAIN slots /\ slots[k] # <<>> /\ slots[k][1].is_directory

PathAbove(slots, p, k) ==
  IF slots[k][1].path_indicator < k /\ IsDirAt(slots, slots[k][1].path_indicator)
  THEN p[slots[k][1].path_indicator] ELSE <<>>

PathStep(slots, p, k) ==
  IF slots[k][1].name \notin SafeNames THEN <<>>
  ELSE IF slots[k][1].path_indicator = RootEntryIndex THEN <<slots[k][1].name>>
  ELSE IF PathAbove(slots, p, k) = <<>> THEN <<>>
       ELSE Append(PathAbove(slots, p, k), slots[k][1].name)

ArePaths(slots, p, m) == p = [k \in 0 .. m - 1 |-> PathStep(slots, p, k)]

\* A path depends on those before it.
LEMMA PathDepends ==
  ASSUME NEW M \in Nat, NEW slots, DOMAIN slots = 0 .. M - 1,
         NEW k \in Nat, NEW p, NEW q, \A j \in 0 .. k - 1 : p[j] = q[j]
  PROVE  PathStep(slots, p, k) = PathStep(slots, q, k)
<1> DEFINE x == slots[k][1].path_indicator
<1>1. PathAbove(slots, p, k) = PathAbove(slots, q, k)
  <2>1. CASE x < k /\ IsDirAt(slots, x)
    <3>1. x \in 0 .. k - 1 BY <2>1 DEF IsDirAt
    <3>2. p[x] = q[x] BY <3>1
    <3> QED BY <2>1, <3>2 DEF PathAbove
  <2>2. CASE ~(x < k /\ IsDirAt(slots, x)) BY <2>2 DEF PathAbove
  <2> QED BY <2>1, <2>2
<1> QED BY <1>1 DEF PathStep

LEMMA PathsExist ==
  ASSUME NEW M \in Nat, NEW slots, DOMAIN slots = 0 .. M - 1
  PROVE  \E p : ArePaths(slots, p, M)
<1> DEFINE D == {m \in Nat : \E p : ArePaths(slots, p, m)}
<1>1. 0 \in D
  <2> DEFINE p == [k \in 0 .. 0 - 1 |-> 0]
  <2>1. 0 .. 0 - 1 = {} OBVIOUS
  <2>2. ArePaths(slots, p, 0) BY <2>1 DEF ArePaths
  <2> QED BY <2>2
<1>2. ASSUME NEW m \in Nat, m \in D PROVE m + 1 \in D
  <2>1. PICK p : ArePaths(slots, p, m) BY <1>2
  <2> DEFINE q == [k \in 0 .. (m + 1) - 1 |-> IF k = m THEN PathStep(slots, p, m) ELSE p[k]]
  <2>2. \A k \in 0 .. m - 1 : k \in 0 .. (m + 1) - 1 /\ k # m OBVIOUS
  <2>3. \A k \in 0 .. m - 1 : q[k] = p[k] BY <2>2
  <2>4. ASSUME NEW k \in 0 .. (m + 1) - 1
        PROVE  (IF k = m THEN PathStep(slots, p, m) ELSE p[k]) = PathStep(slots, q, k)
    <3> HIDE DEF q
    <3>1. k \in Nat /\ k <= m /\ \A j \in 0 .. k - 1 : j \in 0 .. m - 1 OBVIOUS
    <3>2. \A j \in 0 .. k - 1 : p[j] = q[j] BY <2>3, <3>1
    <3>3. PathStep(slots, p, k) = PathStep(slots, q, k) BY <3>1, <3>2, PathDepends
    <3>4. k # m => p[k] = PathStep(slots, p, k)
      <4> SUFFICES ASSUME k # m PROVE p[k] = PathStep(slots, p, k) OBVIOUS
      <4>1. k \in 0 .. m - 1 BY <3>1
      <4> QED BY <2>1, <4>1 DEF ArePaths
    <3> QED BY <3>3, <3>4
  <2>5. q = [k \in 0 .. (m + 1) - 1 |-> PathStep(slots, q, k)] BY <2>4
  <2> HIDE DEF q
  <2>6. ArePaths(slots, q, m + 1) BY <2>5 DEF ArePaths
  <2> QED BY <2>6
<1> HIDE DEF D
<1>3. Nat \subseteq D BY <1>1, <1>2, NatInduct
<1> QED BY <1>3 DEF D

\* build_paths computes them.
LEMMA PathRun ==
  ASSUME NEW M \in Nat, NEW slots, DOMAIN slots = 0 .. M - 1
  PROVE  \E p : /\ \A k \in 0 .. M - 1 : p[k] = PathStep(slots, p, k)
                /\ \A k : PathOf(slots, k) = p[k]
<1> DEFINE p == CHOOSE h : h = [k \in 0 .. M - 1 |-> PathStep(slots, h, k)]
<1>1. p = [k \in 0 .. M - 1 |-> PathStep(slots, p, k)] BY PathsExist DEF ArePaths
<1>2. \A k : PathOf(slots, k) = p[k] BY DEF PathOf, PathStep, PathAbove, IsDirAt
<1> HIDE DEF p
<1>3. \A k \in 0 .. M - 1 : p[k] = PathStep(slots, p, k) BY <1>1
<1> QED BY <1>2, <1>3

\* What is known of the tree of the files that were planned.
LEMMA TreeFacts ==
  ASSUME Planned, Apart(files)
  PROVE  /\ Sound(files) /\ Len(files) \in Nat \ {0} /\ DOMAIN files = 1 .. Len(files)
         /\ FileTree \in NodeLists /\ DOMAIN FileTree = Nodes(FileTree)
         /\ Distinct(FileTree) /\ Rooted(FileTree) /\ InOrder(FileTree)
         /\ \A n \in Nodes(FileTree) : ~IsDir(FileTree, n) =>
              /\ FileOf(FileTree, n) \in 1 .. Len(files)
              /\ FileTree[n].path = files[FileOf(FileTree, n)].path
              /\ FileTree[n].file_size = files[FileOf(FileTree, n)].size
         /\ \A f \in 1 .. Len(files) : HasFile(FileTree, f)
<1>1. Sound(files) /\ files # <<>> BY StfsAssumption DEF Sound, Planned, Plannable, FileSet
<1> DEFINE L == Len(files)
           len == Len(FilePath(files, L))
<1>2. L \in Nat \ {0} /\ TreeOK(FileTree, files, L, len) BY <1>1, TreeBuilt DEF FileTree
<1>3. DOMAIN files = 1 .. L BY <1>1, LenProperties DEF Sound
<1>4. FileTree \in NodeLists BY EntryFacts
<1>5. DOMAIN FileTree = Nodes(FileTree) BY <1>4, LenProperties DEF NodeLists, Nodes
<1>6. \A f \in 1 .. L : f \in 1 .. L - 1 \/ f = L BY <1>2
<1> HIDE DEF L
<1>7. \A f \in 1 .. L : HasFile(FileTree, f) BY <1>2, <1>6 DEF TreeOK, HasWay
<1>8. \A n \in Nodes(FileTree) : ~IsDir(FileTree, n) =>
    /\ FileOf(FileTree, n) \in 1 .. L
    /\ FileTree[n].path = files[FileOf(FileTree, n)].path
    /\ FileTree[n].file_size = files[FileOf(FileTree, n)].size
  BY <1>2 DEF TreeOK, AreFiles, FilePath
<1> QED BY <1>1, <1>2, <1>3, <1>4, <1>5, <1>7, <1>8 DEF TreeOK, L

\* A reader finds the slot of a node, with its directory's.
LEMMA NodeSlot ==
  ASSUME WInv, Package, NEW n \in Nodes(FileTree), NEW slots, slots = SlotsOf(TableChain)
  PROVE  /\ slots[n - 1] = <<Slot(Entry(n))>>
         /\ n - 1 \in DOMAIN slots
         /\ n \in Nat \ {0} /\ n <= Len(FileTree)
         /\ slots[n - 1][1].name = StoredName[Last(FileTree[n].path)]
         /\ slots[n - 1][1].is_directory = IsDir(FileTree, n)
         /\ slots[n - 1][1].path_indicator = ParentIndex(FileTree, FileTree[n])
         /\ slots[n - 1][1].starting_block_num = Entry(n).starting_block_num
         /\ slots[n - 1][1].file_size = FileTree[n].file_size
<1> DEFINE N == Len(FileTree)
           M == TableBlocks * EntriesPerBlock
<1>1. /\ Planned /\ N \in Nat /\ M \in Nat /\ N <= M
      /\ Entry(n).is_directory = IsDir(FileTree, n)
      /\ Entry(n).name = Last(FileTree[n].path)
      /\ Entry(n).parent_index = ParentIndex(FileTree, FileTree[n])
      /\ Entry(n).file_size = FileTree[n].file_size
  BY EntryFacts DEF WInv
<1>2. DOMAIN slots = 0 .. M - 1 BY TableChainFacts DEF TableBlocks
<1>3. n \in 1 .. N BY DEF Nodes
<1> HIDE DEF N, M
<1>4. n - 1 \in 0 .. M - 1 /\ n - 1 < N /\ (n - 1) + 1 = n /\ n \in Nat \ {0} /\ n <= N BY <1>1, <1>3
<1>5. slots[n - 1] = <<Slot(Entry(n))>>
  <2> DEFINE i == n - 1
  <2>1. i \in 0 .. TableBlocks * EntriesPerBlock - 1 /\ i < Len(FileTree) /\ i + 1 = n BY <1>4 DEF N, M
  <2> HIDE DEF i
  <2>2. slots[i] = <<Slot(Entry(n))>> BY <2>1, SlotFound
  <2> QED BY <2>2 DEF i
<1>6. slots[n - 1][1] = Slot(Entry(n)) BY <1>5
<1> QED BY <1>1, <1>2, <1>4, <1>5, <1>6 DEF Slot, N

LEMMA PathsFound ==
  ASSUME WInv, Package, Apart(files), NEW slots, slots = SlotsOf(TableChain)
  PROVE  \A n \in Nodes(FileTree) : PathOf(slots, n - 1) = PathRead(FileTree[n].path)
<1> DEFINE N == Len(FileTree)
           M == TableBlocks * EntriesPerBlock
           nodes == FileTree
<1>1. Planned /\ N \in Nat /\ M \in Nat BY EntryFacts DEF WInv
<1>2. DOMAIN slots = 0 .. M - 1 BY TableChainFacts DEF TableBlocks
<1>3. PICK p : /\ \A k \in 0 .. M - 1 : p[k] = PathStep(slots, p, k)
               /\ \A k : PathOf(slots, k) = p[k]
  BY <1>1, <1>2, PathRun
<1> DEFINE D == {k \in Nat : \A n \in Nodes(nodes) : n <= k => p[n - 1] = PathRead(nodes[n].path)}
<1>4. 0 \in D
  <2>1. \A n \in 1 .. N : ~(n <= 0) BY <1>1
  <2> QED BY <2>1 DEF Nodes
<1>5. ASSUME NEW k \in Nat, k \in D PROVE k + 1 \in D
  <2> SUFFICES ASSUME NEW n \in Nodes(nodes), n <= k + 1
      PROVE  p[n - 1] = PathRead(nodes[n].path)
    OBVIOUS
  <2> DEFINE path == nodes[n].path
             i == n - 1
             x == slots[i][1].path_indicator
  <2>1. /\ n \in Nat \ {0} /\ i \in DOMAIN slots
        /\ slots[i][1].name = StoredName[Last(path)]
        /\ x = ParentIndex(nodes, nodes[n])
    BY NodeSlot
  <2>2. /\ path \in Paths /\ path # <<>>
        /\ Len(path) > 1 =>
             \E m \in 1 .. n - 1 : IsDir(nodes, m) /\ nodes[m].path = Front(path)
    BY <1>1, NodeTyped, TreeFacts DEF Rooted, NodeSet, Paths
  <2>3. /\ Len(path) \in Nat \ {0} /\ Len(Front(path)) = Len(path) - 1
        /\ Front(path) \in Paths
    BY <2>2, FrontAndLast
  <2>r. PathRead(path) = IF StoredName[Last(path)] \notin SafeNames THEN <<>>
      ELSE IF Len(path) = 1 THEN <<StoredName[Last(path)]>>
      ELSE IF PathRead(Front(path)) = <<>> THEN <<>>
           ELSE Append(PathRead(Front(path)), StoredName[Last(path)])
    BY <2>2, PathReadStep
  <2>4. p[i] = PathStep(slots, p, i) BY <1>2, <1>3, <2>1
  <2>5. CASE Len(path) = 1
    <3>1. x = RootEntryIndex BY <2>1, <2>5 DEF ParentIndex
    <3> QED BY <2>1, <2>r, <2>4, <2>5, <3>1 DEF PathStep
  <2>6. CASE Len(path) # 1
    <3> DEFINE len == Len(path)
    <3>0. len > 1
      <4>1. len \in Nat \ {0} /\ len # 1 BY <2>3, <2>6
      <4> HIDE DEF len
      <4> QED BY <4>1
    <3> HIDE DEF path
    <3>1. PICK m \in 1 .. n - 1 : IsDir(nodes, m) /\ nodes[m].path = Front(path) BY <2>2, <3>0
    <3> USE DEF path
    <3>2. m \in Nodes(nodes) /\ m <= k /\ m \in Int /\ m - 1 \in Nat /\ m - 1 < i BY <1>1, <2>1 DEF Nodes
    <3>3. x = m - 1
      <4>1. \A l \in Nodes(nodes) : nodes[l].path = Front(path) => l = m
        BY <1>1, <3>1, <3>2, TreeFacts DEF Distinct
      <4>2. DOMAIN nodes = Nodes(nodes) BY <1>1, TreeFacts
      <4>3. (CHOOSE l \in DOMAIN nodes : nodes[l].path = Front(path)) = m BY <3>1, <3>2, <4>1, <4>2
      <4> QED BY <2>1, <2>6, <4>3 DEF ParentIndex
    <3> HIDE DEF nodes, path, i, x, D
    <3>4. /\ m - 1 \in DOMAIN slots /\ slots[m - 1] = <<Slot(Entry(m))>>
          /\ slots[m - 1][1].is_directory
      BY <3>1, <3>2, NodeSlot DEF nodes
    <3>5. IsDirAt(slots, x) BY <3>3, <3>4 DEF IsDirAt
    <3>6. p[m - 1] = PathRead(Front(path)) BY <1>5, <3>1, <3>2 DEF D
    <3>7. PathAbove(slots, p, i) = PathRead(Front(path)) BY <3>2, <3>3, <3>5, <3>6 DEF PathAbove, x
    <3>9. x # RootEntryIndex BY <3>2, <3>3 DEF RootEntryIndex
    <3>10. p[i] = PathRead(path) BY <2>1, <2>r, <2>4, <2>6, <3>7, <3>9 DEF PathStep, x
    <3> QED BY <3>10 DEF i, path
  <2> QED BY <2>5, <2>6
<1> HIDE DEF D
<1>6. Nat \subseteq D BY <1>4, <1>5, NatInduct
<1>7. N \in D /\ \A n \in Nodes(nodes) : n <= N BY <1>1, <1>6 DEF Nodes
<1> QED BY <1>3, <1>7 DEF D

-----------------------------------------------------------------------------
(* The files listed.                                                         *)

ListedEntry(f, n) ==
  [path |-> PathRead(files[f].path), starting_block |-> Entry(n).starting_block_num,
   size |-> files[f].size]

IsNodeOf(n, f) == n \in Nodes(FileTree) /\ ~IsDir(FileTree, n) /\ FileOf(FileTree, n) = f

\* The first c files, which are those among the first n nodes.
ListsFiles(s, c, n) ==
  /\ HasLen(s, c)
  /\ \A f \in 1 .. c : \E m \in 1 .. n : IsNodeOf(m, f) /\ s[f] = ListedEntry(f, m)
  /\ \A m \in 1 .. n : \A f : IsNodeOf(m, f) => f <= c

\* A slot lists the file of its node.
LEMMA SlotLists ==
  ASSUME WInv, Package, Apart(files), NEW slots, slots = SlotsOf(TableChain),
         NEW n \in 1 .. TableBlocks * EntriesPerBlock
  PROVE  /\ \A f : IsNodeOf(n, f) => ListedAt(slots, n - 1) = <<ListedEntry(f, n)>>
         /\ (\A f : ~IsNodeOf(n, f)) => ListedAt(slots, n - 1) = <<>>
<1> DEFINE N == Len(FileTree)
           M == TableBlocks * EntriesPerBlock
<1>1. Planned /\ N \in Nat /\ M \in Nat BY EntryFacts DEF WInv
<1>2. CASE n \in Nodes(FileTree)
  <2>1. /\ slots[n - 1] = <<Slot(Entry(n))>>
        /\ slots[n - 1] # <<>>
        /\ slots[n - 1][1].is_directory = IsDir(FileTree, n)
        /\ slots[n - 1][1].starting_block_num = Entry(n).starting_block_num
        /\ slots[n - 1][1].file_size = FileTree[n].file_size
    BY <1>2, NodeSlot
  <2>2. PathOf(slots, n - 1) = PathRead(FileTree[n].path) BY <1>2, PathsFound
  <2> DEFINE i == n - 1
  <2> HIDE DEF i
  <2>3. CASE IsDir(FileTree, n)
    <3>1. ListedAt(slots, i) = <<>> BY <2>1, <2>3 DEF ListedAt, i
    <3> QED BY <2>3, <3>1 DEF IsNodeOf, i
  <2>4. CASE ~IsDir(FileTree, n)
    <3> DEFINE f == FileOf(FileTree, n)
    <3>1. FileTree[n].path = files[f].path /\ FileTree[n].file_size = files[f].size
      BY <1>1, <1>2, <2>4, TreeFacts
    <3> HIDE DEF f
    <3>2. ListedAt(slots, i) = <<ListedEntry(f, n)>>
      <4>1. ListedAt(slots, i) = <<[path |-> PathOf(slots, i),
          starting_block |-> slots[i][1].starting_block_num, size |-> slots[i][1].file_size]>>
        BY <2>1, <2>4 DEF ListedAt, i
      <4> QED BY <2>1, <2>2, <3>1, <4>1 DEF ListedEntry, i
    <3>3. \A g : IsNodeOf(n, g) <=> g = f BY <1>2, <2>4 DEF IsNodeOf, f
    <3> QED BY <3>2, <3>3 DEF i
  <2> QED BY <2>3, <2>4
<1>3. CASE n \notin Nodes(FileTree)
  <2> DEFINE i == n - 1
  <2>1. ~(i < N) /\ i \in 0 .. M - 1 BY <1>1, <1>3 DEF Nodes
  <2> HIDE DEF i
  <2>2. slots[i] = <<>> BY <2>1, SlotFound DEF M, N
  <2>3. ListedAt(slots, i) = <<>> BY <2>2 DEF ListedAt
  <2> QED BY <1>3, <2>3 DEF IsNodeOf, i
<1> QED BY <1>2, <1>3

\* The file of the next node is the next file.
LEMMA NextListed ==
  ASSUME Planned, Apart(files), NEW n \in Nat, NEW c \in Nat, NEW s, ListsFiles(s, c, n),
         NEW f, IsNodeOf(n + 1, f)
  PROVE  f = c + 1
<1>1. /\ InOrder(FileTree)
      /\ \A g \in 1 .. Len(files) : HasFile(FileTree, g)
      /\ Len(files) \in Nat
      /\ \A m \in Nodes(FileTree) : ~IsDir(FileTree, m) => FileOf(FileTree, m) \in 1 .. Len(files)
  BY TreeFacts
<1>2. f \in 1 .. Len(files) BY <1>1 DEF IsNodeOf
<1>3. \A k, m, g, h : IsNodeOf(k, g) /\ IsNodeOf(m, h) /\ k < m => g < h BY <1>1 DEF IsNodeOf, InOrder
<1>4. f > c
  <2> SUFFICES ASSUME c >= f PROVE FALSE BY <1>1, <1>2
  <2>1. c \in 1 .. c BY <1>1, <1>2
  <2>2. PICK m \in 1 .. n : IsNodeOf(m, c) BY <2>1 DEF ListsFiles
  <2>3. m < n + 1 OBVIOUS
  <2>4. c < f BY <1>3, <2>2, <2>3
  <2> QED BY <1>1, <1>2, <2>4
<1>5. ~(f > c + 1)
  <2> SUFFICES ASSUME f > c + 1 PROVE FALSE OBVIOUS
  <2> DEFINE g == c + 1
  <2>1. g \in 1 .. Len(files) /\ ~(g <= c) /\ g < f /\ g \in Nat BY <1>1, <1>2
  <2> HIDE DEF g
  <2>2. PICK m \in Nodes(FileTree) : IsNodeOf(m, g) BY <1>1, <2>1 DEF HasFile, IsNodeOf
  <2>3. m \in Nat \ {0} BY DEF Nodes
  <2>4. CASE m <= n BY <2>1, <2>2, <2>3, <2>4 DEF ListsFiles
  <2>5. CASE m = n + 1
    <3>1. g = f BY <2>2, <2>5 DEF IsNodeOf
    <3> QED BY <1>2, <2>1, <3>1
  <2>6. CASE n + 1 < m
    <3>1. f < g BY <1>3, <2>2, <2>6
    <3> QED BY <1>2, <2>1, <3>1
  <2> QED BY <2>3, <2>4, <2>5, <2>6
<1> QED BY <1>1, <1>2, <1>4, <1>5

LEMMA ListingGrows ==
  ASSUME Planned, Apart(files), NEW n \in Nat, NEW c \in Nat, NEW s, ListsFiles(s, c, n),
         NEW g, \A f : IsNodeOf(n + 1, f) => g = <<ListedEntry(f, n + 1)>>,
         (\A f : ~IsNodeOf(n + 1, f)) => g = <<>>
  PROVE  \E d \in Nat : ListsFiles(s \o g, d, n + 1)
<1>1. HasLen(s, c) BY DEF ListsFiles
<1> DEFINE r == s \o g
<1>2. \A m \in 1 .. n + 1 : m \in 1 .. n \/ m = n + 1 OBVIOUS
<1>3. 1 .. n \subseteq 1 .. n + 1 /\ n + 1 \in 1 .. n + 1 OBVIOUS
<1>4. CASE \A f : ~IsNodeOf(n + 1, f)
  <2>1. HasLen(g, 0)
    <3>1. <<>> = [i \in 1 .. 0 |-> <<>>[i]] OBVIOUS
    <3> QED BY <1>4, <3>1 DEF HasLen
  <2>2. IsConcat(r, s, c, g, 0) BY <1>1, <2>1, SequenceConcat
  <2> HIDE DEF r
  <2>3. c + 0 = c /\ \A i \in 1 .. c : i <= c OBVIOUS
  <2>4. HasLen(r, c) /\ \A i \in 1 .. c : r[i] = s[i] BY <2>2, <2>3 DEF IsConcat
  <2>5. ListsFiles(r, c, n + 1) BY <1>2, <1>3, <1>4, <2>4 DEF ListsFiles
  <2> QED BY <2>5 DEF r
<1>5. ASSUME NEW f, IsNodeOf(n + 1, f)
      PROVE  \E d \in Nat : ListsFiles(s \o g, d, n + 1)
  <2> DEFINE e == ListedEntry(f, n + 1)
  <2>0. f = c + 1 BY <1>5, NextListed
  <2>1. g = <<e>> BY <1>5
  <2> HIDE DEF e
  <2>2. HasLen(g, 1) /\ g[1] = e BY <2>1, SequenceSingle
  <2>3. IsConcat(r, s, c, g, 1) BY <1>1, <2>2, SequenceConcat
  <2> HIDE DEF r
  <2>4. HasLen(r, c + 1) BY <2>3 DEF IsConcat
  <2>5. \A i \in 1 .. c : r[i] = s[i] BY <2>3 DEF IsConcat
  <2>6. r[c + 1] = e
    <3>1. c + 1 \in 1 .. c + 1 /\ ~(c + 1 <= c) /\ (c + 1) - c = 1 OBVIOUS
    <3> QED BY <2>2, <2>3, <3>1 DEF IsConcat
  <2>7. ASSUME NEW h \in 1 .. c + 1
        PROVE  \E m \in 1 .. n + 1 : IsNodeOf(m, h) /\ r[h] = ListedEntry(h, m)
    <3>1. CASE h \in 1 .. c
      <4>1. PICK m \in 1 .. n : IsNodeOf(m, h) /\ s[h] = ListedEntry(h, m) BY <3>1 DEF ListsFiles
      <4> QED BY <1>3, <2>5, <3>1, <4>1
    <3>2. CASE h = c + 1 BY <1>3, <1>5, <2>0, <2>6, <3>2 DEF e
    <3> QED BY <3>1, <3>2
  <2>8. ASSUME NEW m \in 1 .. n + 1, NEW h, IsNodeOf(m, h)
        PROVE  h <= c + 1
    <3>1. CASE m \in 1 .. n
      <4>1. h <= c BY <2>8, <3>1 DEF ListsFiles
      <4>2. h \in Nat BY <2>8, TreeFacts DEF IsNodeOf
      <4> QED BY <4>1, <4>2
    <3>2. CASE m = n + 1
      <4>1. h = f BY <1>5, <2>8, <3>2 DEF IsNodeOf
      <4> QED BY <2>0, <4>1
    <3> QED BY <1>2, <3>1, <3>2
  <2>9. ListsFiles(r, c + 1, n + 1) BY <2>4, <2>7, <2>8 DEF ListsFiles
  <2>10. c + 1 \in Nat OBVIOUS
  <2> QED BY <2>9, <2>10 DEF r
<1> QED BY <1>4, <1>5

\* The listing is that of the files.
LEMMA ListingFound ==
  ASSUME WInv, Package, Apart(files)
  PROVE  /\ HasLen(Listing, Len(files))
         /\ \A f \in 1 .. Len(files) :
              \E n \in Nodes(FileTree) : IsNodeOf(n, f) /\ Listing[f] = ListedEntry(f, n)
<1> DEFINE M == TableBlocks * EntriesPerBlock
           slots == SlotsOf(TableChain)
           g == [k \in 1 .. M |-> ListedAt(slots, k - 1)]
           L == Len(files)
<1>1. /\ Planned /\ M \in Nat /\ L \in Nat
      /\ Len(FileTree) \in Nat /\ Len(FileTree) <= M
      /\ \A f \in 1 .. L : HasFile(FileTree, f)
      /\ \A m \in Nodes(FileTree) : ~IsDir(FileTree, m) => FileOf(FileTree, m) \in 1 .. L
  BY EntryFacts, TreeFacts DEF WInv
<1>2. DOMAIN slots = 0 .. M - 1 BY TableChainFacts DEF TableBlocks
<1>3. PICK run : IsConcatRun(run, g, M) /\ Listing = run[M]
  <2> HIDE DEF slots, M
  <2>1. \E run : IsConcatRun(run, g, M) /\ FilesIn(slots) = run[M] BY <1>1, <1>2, ListingRun
  <2> QED BY <2>1 DEF Listing, slots
<1>4. run[0] = <<>> /\ \A k \in 1 .. M : run[k] = run[k - 1] \o g[k] BY <1>3 DEF IsConcatRun
<1>5. \A k \in 1 .. M :
    /\ \A f : IsNodeOf(k, f) => g[k] = <<ListedEntry(f, k)>>
    /\ (\A f : ~IsNodeOf(k, f)) => g[k] = <<>>
  BY SlotLists
<1> HIDE DEF g, slots, M, L
<1> DEFINE D == {k \in Nat : k <= M => \E c \in Nat : ListsFiles(run[k], c, k)}
<1>6. 0 \in D
  <2>1. HasLen(<<>>, 0)
    <3>1. <<>> = [i \in 1 .. 0 |-> <<>>[i]] OBVIOUS
    <3> QED BY <3>1 DEF HasLen
  <2>2. ListsFiles(<<>>, 0, 0) BY <2>1 DEF ListsFiles
  <2> QED BY <1>4, <2>2
<1>7. ASSUME NEW k \in Nat, k \in D PROVE k + 1 \in D
  <2> SUFFICES ASSUME k + 1 <= M PROVE \E c \in Nat : ListsFiles(run[k + 1], c, k + 1) OBVIOUS
  <2>1. k + 1 \in 1 .. M /\ (k + 1) - 1 = k /\ k <= M BY <1>1
  <2>2. PICK c \in Nat : ListsFiles(run[k], c, k) BY <1>7, <2>1
  <2> DEFINE e == g[k + 1]
  <2>3. run[k + 1] = run[k] \o e BY <1>4, <2>1
  <2>4. /\ \A f : IsNodeOf(k + 1, f) => e = <<ListedEntry(f, k + 1)>>
        /\ (\A f : ~IsNodeOf(k + 1, f)) => e = <<>>
    BY <1>5, <2>1
  <2> HIDE DEF e, D
  <2>5. \E d \in Nat : ListsFiles(run[k] \o e, d, k + 1) BY <1>1, <2>2, <2>4, ListingGrows
  <2> QED BY <2>3, <2>5
<1> HIDE DEF D
<1>8. Nat \subseteq D BY <1>6, <1>7, NatInduct
<1>9. PICK c \in Nat : ListsFiles(Listing, c, M)
  <2>1. M \in D /\ M <= M BY <1>1, <1>8
  <2> QED BY <1>3, <2>1 DEF D
<1>10. \A m \in Nodes(FileTree) : m \in 1 .. M BY <1>1 DEF Nodes
<1>11. c = L
  <2>1. c <= L
    <3> SUFFICES ASSUME c # 0 PROVE c <= L BY <1>1
    <3>1. c \in 1 .. c OBVIOUS
    <3>2. \E m \in 1 .. M : IsNodeOf(m, c) BY <1>9, <3>1 DEF ListsFiles
    <3>3. c \in 1 .. L BY <1>1, <3>2 DEF IsNodeOf
    <3> QED BY <1>1, <3>3
  <2>2. L <= c
    <3> SUFFICES ASSUME L # 0 PROVE L <= c BY <1>1
    <3>1. L \in 1 .. L BY <1>1
    <3>2. \E m \in Nodes(FileTree) : IsNodeOf(m, L) BY <1>1, <3>1 DEF HasFile, IsNodeOf
    <3> QED BY <1>9, <1>10, <3>2 DEF ListsFiles
  <2> QED BY <1>1, <2>1, <2>2
<1>12. \A f \in 1 .. L :
    \E n \in Nodes(FileTree) : IsNodeOf(n, f) /\ Listing[f] = ListedEntry(f, n)
  <2>1. ASSUME NEW f \in 1 .. L
        PROVE  \E n \in Nodes(FileTree) : IsNodeOf(n, f) /\ Listing[f] = ListedEntry(f, n)
    <3>1. f \in 1 .. c BY <1>11
    <3>2. \E m \in 1 .. M : IsNodeOf(m, f) /\ Listing[f] = ListedEntry(f, m) BY <1>9, <3>1 DEF ListsFiles
    <3> QED BY <3>2 DEF IsNodeOf
  <2> QED BY <2>1
<1>13. HasLen(Listing, L) BY <1>9, <1>11 DEF ListsFiles
<1> QED BY <1>12, <1>13 DEF L

-----------------------------------------------------------------------------
(* What is read.                                                             *)

\* Positions in a file: of the first byte of block q, and of the last byte that
\* a call looks for; how many blocks a chain is followed to it; what the call
\* takes for the i-th byte of its range.
FirstByte(q) == q * BlockSize
LastByte(offset, len) == offset + (IF len = 0 THEN 1 ELSE len) - 1
Hops(from, last) == (last - from) \div BlockSize
ByteRead(c, from, offset, i) ==
  LET at == offset + i - 1 - from
  IN ByteOf(BlockAt(c[at \div BlockSize]), (at % BlockSize) + 1)

\* The block a read ends in.
LEMMA LastBlockRead ==
  ASSUME NEW q \in Nat, NEW from, from = FirstByte(q), NEW last \in Nat, from <= last,
         NEW hops, hops = Hops(from, last), NEW r, r = q + hops
  PROVE  /\ hops \in Nat /\ from \in Nat
         /\ FirstByte(r) <= last
         /\ from + hops * BlockSize = FirstByte(r)
<1> DEFINE B == BlockSize
           x == last - from
<1>0. B \in Nat \ {0} /\ from = q * B BY LayoutAssumption DEF FirstByte
<1>1. from \in Nat BY <1>0
<1>2. x \in Nat BY <1>1
<1>3. hops = x \div B BY DEF Hops
<1> HIDE DEF x, B
<1>4. hops \in Nat /\ hops * B <= x BY <1>0, <1>2, <1>3, DivMod, DivBounds
<1>5. (q + hops) * B = from + hops * B /\ hops * B \in Nat BY <1>0, <1>4
<1> DEFINE y == hops * B
           z == (q + hops) * B
<1>6. y \in Nat /\ z = from + y /\ y <= x BY <1>4, <1>5
<1> HIDE DEF y, z
<1>7. z <= last BY <1>1, <1>2, <1>6 DEF x
<1>8. FirstByte(r) = z BY DEF FirstByte, z, B
<1>9. from + hops * BlockSize = z BY <1>6 DEF y, B
<1> QED BY <1>1, <1>4, <1>7, <1>8, <1>9

\* A byte of the range is in a block of the chain.
LEMMA ByteInChain ==
  ASSUME NEW q \in Nat, NEW from, from = FirstByte(q),
         NEW last \in Nat, NEW pos \in Nat, from <= pos, pos <= last,
         NEW hops, hops = Hops(from, last),
         NEW at, at = pos - from, NEW k, k = at \div BlockSize, NEW j, j = at % BlockSize,
         NEW p, p = q + k
  PROVE  /\ k \in 0 .. hops
         /\ j \in 0 .. BlockSize - 1
         /\ p \in Nat
         /\ p * BlockSize + j = pos
<1> DEFINE B == BlockSize
           x == last - from
<1>0. B \in Nat \ {0} /\ from = q * B BY LayoutAssumption DEF FirstByte
<1>1. from \in Nat /\ from <= last BY <1>0
<1>2. x \in Nat /\ at \in Nat /\ at <= x BY <1>1
<1>3. hops = x \div B /\ k = at \div B /\ j = at % B BY DEF Hops
<1> HIDE DEF x, B
<1>4. k \in Nat /\ hops \in Nat /\ k <= hops
  <2>1. at \div B \in Nat /\ x \div B \in Nat BY <1>0, <1>2, DivMod
  <2>2. at \div B <= x \div B BY <1>0, <1>2, DivMonotonic
  <2>3. k = at \div B /\ hops = x \div B BY <1>3
  <2> QED BY ONLY <2>1, <2>2, <2>3
<1>5. j \in 0 .. B - 1 /\ at = k * B + j BY <1>0, <1>2, <1>3, DivMod
<1>6. (q + k) * B = from + k * B /\ k * B \in Nat
  <2>1. q \in Nat /\ k \in Nat /\ B \in Nat /\ from = q * B BY <1>0, <1>4
  <2>2. (q + k) * B = q * B + k * B /\ k * B \in Nat BY ONLY <2>1
  <2> QED BY <2>1, <2>2
<1> DEFINE y == k * B
           z == (q + k) * B
<1>7. y \in Nat /\ z = from + y /\ at = y + j BY <1>5, <1>6
<1> HIDE DEF y, z
<1>8. z + j = pos
  <2>1. j \in Int BY <1>0, <1>5
  <2> QED BY ONLY <1>1, <1>2, <1>7, <2>1, at = pos - from, pos \in Nat
<1>9. k \in 0 .. hops /\ p \in Nat BY <1>4
<1>10. p * BlockSize = z BY DEF z, B
<1> QED BY <1>5, <1>8, <1>9, <1>10 DEF B

\* A file whose blocks end before its last byte is read is read at its end.
LEMMA BeyondBlocks ==
  ASSUME NEW r \in Nat, NEW count \in Nat, count <= r,
         NEW size \in Nat, size <= count * BlockSize,
         NEW offset \in Nat, NEW len \in Nat, offset + len <= size,
         FirstByte(r) <= LastByte(offset, len)
  PROVE  len = 0 /\ offset = size /\ offset % BlockSize = 0
<1> DEFINE B == BlockSize
           x == count * B
           y == r * B
           last == offset + (IF len = 0 THEN 1 ELSE len) - 1
<1>0. B \in Nat \ {0} BY LayoutAssumption
<1>1. x \in Nat /\ y \in Nat /\ x <= y
  <2> HIDE DEF B
  <2> QED BY <1>0, MultMonotonic
<1>2. size <= x /\ y <= last BY DEF FirstByte, LastByte
<1> HIDE DEF x, y, B
<1>3. len = 0 /\ offset = size /\ offset = y BY <1>1, <1>2
<1>4. offset % B = 0
  <2>1. r * B <= y /\ y < r * B + B /\ y - r * B = 0 BY <1>0, <1>1 DEF y
  <2>2. y % B = y - r * B BY <1>0, <1>1, <2>1, DivUnique
  <2> QED BY <1>3, <2>1, <2>2
<1> QED BY <1>3, <1>4 DEF B

\* The cursor is at the start of a block of its file, or behind the last.
BlockOf(f, q) == listed[f].starting_block + q

IsAt(f, block, pos) ==
  \E q \in Nat : /\ pos = q * BlockSize
                 /\ q < EntryBlockCount(listed[f].size) => block = BlockOf(f, q)

CursorOK ==
  chain_cursor.file \in DOMAIN listed =>
    IsAt(chain_cursor.file, chain_cursor.block, chain_cursor.pos)

AllSafe == \A f \in DOMAIN files : IsSafe(files[f].path)

ReadingOK ==
  /\ reader = "open" => AllSafe
  /\ reader = "rejected" => ~AllSafe
  /\ reader # "open" => chain_cursor = NoCursor /\ last_read = NoRead
  /\ CursorOK
  /\ ReadsReturnTheFile

\* What a reader has listed.
LEMMA OpenedFacts ==
  ASSUME IInv, Apart(files), reader = "open"
  PROVE  /\ WInv /\ Package /\ Planned
         /\ DOMAIN listed = DOMAIN files /\ DOMAIN files = 1 .. Len(files)
         /\ files \in Seq(FileSet)
         /\ \A f \in DOMAIN listed :
              /\ listed[f].path = PathRead(files[f].path) /\ listed[f].size = files[f].size
              /\ files[f].size \in Nat
              /\ \E n : /\ IsNodeOf(n, f) /\ Entry(n).file_size = files[f].size
                        /\ listed[f].starting_block = Entry(n).starting_block_num
<1>1. WInv /\ Package /\ listed = Listing /\ Planned BY DEF IInv, ReaderOK, WInv
<1>2. HasLen(listed, Len(files))
      /\ \A f \in 1 .. Len(files) :
           \E n \in Nodes(FileTree) : IsNodeOf(n, f) /\ listed[f] = ListedEntry(f, n)
  BY <1>1, ListingFound
<1>3. DOMAIN listed = 1 .. Len(files) BY <1>2, SequenceLength
<1>4. /\ DOMAIN files = 1 .. Len(files) /\ files \in Seq(FileSet)
      /\ \A n \in Nodes(FileTree) : ~IsDir(FileTree, n) =>
              FileTree[n].file_size = files[FileOf(FileTree, n)].size
  BY <1>1, TreeFacts DEF Sound
<1>5. \A n \in Nodes(FileTree) : Entry(n).file_size = FileTree[n].file_size BY <1>1, EntryFacts
<1>6. ASSUME NEW f \in DOMAIN listed
      PROVE  /\ listed[f].path = PathRead(files[f].path) /\ listed[f].size = files[f].size
             /\ files[f].size \in Nat
             /\ \E n : /\ IsNodeOf(n, f) /\ Entry(n).file_size = files[f].size
                       /\ listed[f].starting_block = Entry(n).starting_block_num
  <2>1. f \in 1 .. Len(files) BY <1>3
  <2>2. PICK n \in Nodes(FileTree) : IsNodeOf(n, f) /\ listed[f] = ListedEntry(f, n) BY <1>2, <2>1
  <2>3. Entry(n).file_size = files[f].size BY <1>4, <1>5, <2>2 DEF IsNodeOf
  <2>4. files[f].size \in Nat
    <3>1. files[f] \in FileSet BY <1>4, <2>1, ElementOfSeq
    <3> QED BY <3>1 DEF FileSet
  <2> QED BY <2>2, <2>3, <2>4 DEF ListedEntry
<1> QED BY <1>1, <1>3, <1>4, <1>6

\* The listing is accepted if every name is safe.
LEMMA OpenDecides ==
  ASSUME IInv, Apart(files), OpenReader
  PROVE  reader' = IF AllSafe THEN "open" ELSE "rejected"
<1>1. /\ Package /\ reader = "closed"
      /\ IF Legal(TableChain) /\ \A f \in DOMAIN Listing : Listing[f].path # <<>>
         THEN reader' = "open" ELSE reader' = "rejected"
  BY DEF OpenReader, Package, Listing, TableChain
<1>2. WInv /\ Planned BY DEF IInv, WInv
<1>3. Legal(TableChain) BY <1>1, <1>2, TableWalk
<1>4. /\ HasLen(Listing, Len(files))
      /\ \A f \in 1 .. Len(files) :
           \E n \in Nodes(FileTree) : IsNodeOf(n, f) /\ Listing[f] = ListedEntry(f, n)
  BY <1>1, <1>2, ListingFound
<1>5. DOMAIN Listing = 1 .. Len(files) BY <1>4, SequenceLength
<1>6. DOMAIN files = 1 .. Len(files) /\ Sound(files) BY <1>2, TreeFacts
<1>7. ASSUME NEW f \in 1 .. Len(files)
      PROVE  Listing[f].path # <<>> <=> IsSafe(files[f].path)
  <2>1. Listing[f].path = PathRead(files[f].path)
    <3>1. PICK n \in Nodes(FileTree) : Listing[f] = ListedEntry(f, n) BY <1>4
    <3> QED BY <3>1 DEF ListedEntry
  <2>2. StoredPath(files[f].path) # <<>>
    <3>1. files[f].path \in Paths /\ Len(files[f].path) \in Nat \ {0} BY <1>6, FileFacts DEF FilePath
    <3>2. Len(StoredPath(files[f].path)) # 0 BY <3>1, StoredIs
    <3> QED BY <3>2, EmptySeq
  <2> QED BY <2>1, <2>2 DEF PathRead
<1>8. (\A f \in DOMAIN Listing : Listing[f].path # <<>>) <=> AllSafe BY <1>5, <1>6, <1>7 DEF AllSafe
<1> QED BY <1>1, <1>3, <1>8

InFile(f, offset, len) == offset + len <= listed[f].size

\* A range that ends in a block of its file.
LEMMA RangeRead ==
  ASSUME IInv, Apart(files), reader = "open", NEW f \in DOMAIN listed,
         NEW offset \in Nat, NEW len \in Nat, InFile(f, offset, len),
         NEW q \in Nat, NEW from, from = FirstByte(q), from <= offset,
         NEW block, block = BlockOf(f, q), NEW last \in Nat, last = LastByte(offset, len),
         NEW hops \in Nat, hops = Hops(from, last),
         NEW r, r = q + hops, r < EntryBlockCount(listed[f].size),
         NEW c, c = Chain(block, hops, TopTable, Level1Status(TopTable))
  PROVE  /\ Legal(c)
         /\ c[hops] = BlockOf(f, r)
         /\ \A i \in 1 .. len : ByteRead(c, from, offset, i) = <<f, offset + i - 1>>
<1> DEFINE size == files[f].size
           count == EntryBlockCount(size)
<1>1. /\ WInv /\ Package /\ Planned /\ listed[f].size = size /\ size \in Nat
      /\ \E n : /\ IsNodeOf(n, f) /\ Entry(n).file_size = size
                /\ listed[f].starting_block = Entry(n).starting_block_num
  BY OpenedFacts
<1>2. PICK n : /\ IsNodeOf(n, f) /\ Entry(n).file_size = size
               /\ listed[f].starting_block = Entry(n).starting_block_num
  BY <1>1
<1> DEFINE start == Entry(n).starting_block_num
<1>3. n \in Nodes(FileTree) /\ ~IsDir(FileTree, n) /\ FileOf(FileTree, n) = f BY <1>2 DEF IsNodeOf
<1>4. count \in Nat \ {0} /\ q + hops < count BY <1>1, EntryBlocks
<1>5. start \in Nat BY <1>1, <1>3, PlannedLayout, EntryFacts DEF LayoutOK, Nodes, Entry
<1>6. block = start + q BY <1>2 DEF BlockOf
<1> HIDE DEF start, count, size
<1>7. block \in Nat BY <1>5, <1>6
<1>8. c \in [0 .. hops -> Nat] BY <1>1, <1>7, ChainFacts
<1>9. \A k \in 0 .. hops : c[k] = block + k /\ c[k] < allocated
  <2>1. hops <= hops /\ r < count BY <1>4
  <2>2. count = EntryBlockCount(Entry(n).file_size) BY <1>2 DEF count
  <2> QED BY <1>1, <1>3, <1>4, <1>6, <2>1, <2>2, FileChain DEF start
<1>10. Legal(c) BY <1>8, <1>9 DEF Legal
<1>11. c[hops] = BlockOf(f, r)
  <2>1. hops \in 0 .. hops /\ block + hops = start + r BY <1>5, <1>6
  <2>2. c[hops] = start + r BY <1>9, <2>1
  <2> QED BY <1>2, <2>2 DEF start, BlockOf
<1>12. ASSUME NEW i \in 1 .. len
    PROVE  ByteRead(c, from, offset, i) = <<f, offset + i - 1>>
  <2> DEFINE pos == offset + i - 1
             at == offset + i - 1 - from
             k == at \div BlockSize
             j == at % BlockSize
             p == q + k
  <2>1. from \in Nat BY LayoutAssumption DEF FirstByte
  <2>2. pos \in Nat /\ from <= pos /\ pos <= last /\ pos < size
    <3>1. last = offset + len - 1 BY DEF LastByte
    <3>2. offset + len <= size BY <1>1 DEF InFile
    <3> QED BY <1>1, <2>1, <3>1, <3>2
  <2>3. at = pos - from BY <2>1
  <2> HIDE DEF at, pos
  <2>4. /\ k \in 0 .. hops /\ j \in 0 .. BlockSize - 1
        /\ p \in Nat /\ p * BlockSize + j = pos
    BY <2>2, <2>3, ByteInChain
  <2> HIDE DEF k, j
  <2>5. c[k] = start + p /\ p < count
    <3>1. c[k] = block + k BY <1>9, <2>4
    <3>2. k \in Nat /\ k <= hops BY <2>4
    <3> QED BY <1>4, <1>5, <1>6, <3>1, <3>2
  <2> HIDE DEF p
  <2>6. ByteOf(BlockAt(start + p), j + 1) = <<FileOf(FileTree, n), p * BlockSize + j>>
    <3>1. start = Entry(n).starting_block_num /\ size = Entry(n).file_size
          /\ p < EntryBlockCount(size) /\ p * BlockSize + j < size
          /\ j \in 0 .. BlockSize - 1
      BY <1>2, <2>2, <2>4, <2>5 DEF start, count
    <3> QED BY <1>1, <1>3, <2>4, <3>1, ByteFound
  <2>7. ByteOf(BlockAt(c[k]), j + 1) = <<f, pos>> BY <1>3, <2>4, <2>5, <2>6
  <2> QED BY <2>7 DEF ByteRead, at, k, j, pos
<1> QED BY <1>10, <1>11, <1>12

\* A call of read_file_range(), by where its chain begins.
LEMMA ReadRanges ==
  ASSUME IInv, Apart(files), reader = "open", NEW f \in DOMAIN listed,
         NEW offset \in ReadOffsets, NEW len \in ReadLengths, InFile(f, offset, len),
         NEW block, NEW from, IsAt(f, block, from), from <= offset,
         NEW hops, hops = (offset + Max({len, 1}) - 1 - from) \div BlockSize,
         NEW c, c = Chain(block, hops, top_table, level1_status)
  PROVE  /\ Legal(c) =>
              /\ IsAt(f, c[hops], from + hops * BlockSize)
              /\ \A i \in 1 .. len : ByteRead(c, from, offset, i) = <<f, offset + i - 1>>
         /\ ~Legal(c) => len = 0 /\ offset = listed[f].size /\ offset % BlockSize = 0
<1> DEFINE size == listed[f].size
           count == EntryBlockCount(size)
           m == Max({len, 1})
           last == LastByte(offset, len)
<1>1. offset \in Nat /\ len \in Nat /\ BlockSize \in Nat \ {0} BY ReaderAssumption, LayoutAssumption
<1>2. m = IF len = 0 THEN 1 ELSE len
  <2>1. m = IF 1 <= len THEN len ELSE 1 BY <1>1, MaxPair
  <2> QED BY <1>1, <2>1
<1>3. size \in Nat BY OpenedFacts
<1>4. count \in Nat \ {0} /\ size <= count * BlockSize BY <1>3, EntryBlocks
<1>5. PICK q \in Nat : /\ from = q * BlockSize
                       /\ q < count => block = BlockOf(f, q)
  BY DEF IsAt
<1>6. from \in Nat /\ from = FirstByte(q) BY <1>1, <1>5 DEF FirstByte
<1>7. top_table = TopTable /\ level1_status = Level1Status(TopTable) BY DEF IInv, ReaderOK
<1> HIDE DEF m
<1>8. last \in Nat /\ from <= last /\ last = offset + m - 1 BY <1>1, <1>2, <1>6 DEF LastByte
<1> HIDE DEF last, size, count
<1>9. hops = Hops(from, last)
  <2>1. m \in Nat BY <1>1, <1>2
  <2>2. offset + m - 1 - from = last - from BY <1>1, <1>6, <1>8, <2>1
  <2> QED BY <2>2 DEF Hops, m
<1> DEFINE r == q + hops
<1>10. /\ hops \in Nat
       /\ FirstByte(r) <= last
       /\ from + hops * BlockSize = FirstByte(r)
  BY <1>6, <1>8, <1>9, LastBlockRead
<1>11. r \in Nat /\ q <= r BY <1>10
<1>12. CASE r < count
  <2>1. block = BlockOf(f, q) BY <1>4, <1>5, <1>11, <1>12
  <2>2. c = Chain(block, hops, TopTable, Level1Status(TopTable)) BY <1>7
  <2>3. r = q + hops /\ r < EntryBlockCount(listed[f].size) /\ last = LastByte(offset, len)
    BY <1>12 DEF count, size, last
  <2> HIDE DEF r
  <2>4. /\ Legal(c)
        /\ c[hops] = BlockOf(f, r)
        /\ \A i \in 1 .. len : ByteRead(c, from, offset, i) = <<f, offset + i - 1>>
    BY ONLY IInv, Apart(files), reader = "open", f \in DOMAIN listed, InFile(f, offset, len), q \in Nat,
       from <= offset, <1>1, <1>6, <1>8, <1>9, <1>10, <2>1, <2>2, <2>3, RangeRead
  <2>5. IsAt(f, c[hops], from + hops * BlockSize) BY <1>10, <1>11, <2>4 DEF IsAt, FirstByte
  <2> QED BY <2>4, <2>5
<1>13. CASE ~(r < count)
  <2>1. count <= r BY <1>4, <1>11, <1>13
  <2> HIDE DEF r
  <2>2. len = 0 /\ offset = size /\ offset % BlockSize = 0
    <3>1. FirstByte(r) <= LastByte(offset, len) /\ offset + len <= size BY <1>10 DEF last, size, InFile
    <3> QED BY <1>1, <1>3, <1>4, <1>11, <2>1, <3>1, BeyondBlocks
  <2>3. IsAt(f, c[hops], from + hops * BlockSize)
    <3>1. ~(r < EntryBlockCount(listed[f].size)) BY <1>13 DEF count, size
    <3> QED BY <1>10, <1>11, <3>1 DEF IsAt, FirstByte
  <2>4. 1 .. len = {} BY <2>2
  <2> QED BY <2>2, <2>3, <2>4 DEF size
<1> QED BY <1>12, <1>13

\* Where a read begins: at the cursor of the file, or at its first block.
LEMMA ReadBegins ==
  ASSUME IInv, Apart(files), ReadingOK, reader = "open", NEW f \in DOMAIN listed,
         NEW offset \in Nat, NEW start, start = IF CursorServes(f, offset)
                            THEN [block |-> chain_cursor.block, pos |-> chain_cursor.pos]
                            ELSE [block |-> listed[f].starting_block, pos |-> 0]
  PROVE  IsAt(f, start.block, start.pos) /\ start.pos <= offset
<1>1. CASE CursorServes(f, offset)
  <2>1. /\ start.block = chain_cursor.block /\ start.pos = chain_cursor.pos
        /\ chain_cursor.file = f /\ chain_cursor.pos <= offset
    BY <1>1 DEF CursorServes
  <2>2. IsAt(f, chain_cursor.block, chain_cursor.pos) BY <2>1 DEF ReadingOK, CursorOK
  <2> QED BY <2>1, <2>2
<1>2. CASE ~CursorServes(f, offset)
  <2>1. start.block = listed[f].starting_block /\ start.pos = 0 BY <1>2
  <2>2. listed[f].starting_block \in Nat BY ListingTyped DEF IInv, ReaderOK
  <2>3. BlockOf(f, 0) = listed[f].starting_block /\ 0 = 0 * BlockSize
    BY <2>2, LayoutAssumption DEF BlockOf
  <2>4. IsAt(f, listed[f].starting_block, 0) BY <2>3 DEF IsAt
  <2> QED BY <2>1, <2>4
<1> QED BY <1>1, <1>2

LEMMA ReadFileRangeReads ==
  ASSUME IInv, Apart(files), ReadingOK,
         NEW f \in DOMAIN listed, NEW offset \in ReadOffsets, NEW len \in ReadLengths,
         ReadFileRange(f, offset, len)
  PROVE  ReadingOK'
<1> DEFINE start == IF CursorServes(f, offset)
                    THEN [block |-> chain_cursor.block, pos |-> chain_cursor.pos]
                    ELSE [block |-> listed[f].starting_block, pos |-> 0]
           hops == (offset + Max({len, 1}) - 1 - start.pos) \div BlockSize
           chain == Chain(start.block, hops, top_table, level1_status)
           bytes == [i \in 1 .. len |-> ByteRead(chain, start.pos, offset, i)]
           pos == start.pos + hops * BlockSize
<1>1. /\ reader = "open" /\ reader' = reader /\ listed' = listed
      /\ offset + len <= listed[f].size
      /\ IF Legal(chain)
         THEN /\ last_read' = [file |-> f, offset |-> offset, len |-> len, ok |-> TRUE,
                               bytes |-> bytes]
              /\ chain_cursor' = [file |-> f, block |-> chain[hops], pos |-> pos]
         ELSE /\ last_read' = [file |-> f, offset |-> offset, len |-> len, ok |-> FALSE,
                               bytes |-> <<>>]
              /\ chain_cursor' = chain_cursor
  BY DEF ReadFileRange, ByteRead
<1>0. AllSafe' <=> AllSafe BY DEF ReadFileRange, writerVars, openVars, AllSafe
<1>2. offset \in Nat BY ReaderAssumption
<1>3. IsAt(f, start.block, start.pos) /\ start.pos <= offset BY <1>1, <1>2, ReadBegins
<1>4. InFile(f, offset, len) BY <1>1 DEF InFile
<1> HIDE DEF start
<1>5. /\ Legal(chain) =>
              /\ IsAt(f, chain[hops], pos)
              /\ \A i \in 1 .. len :
                   ByteRead(chain, start.pos, offset, i) = <<f, offset + i - 1>>
      /\ ~Legal(chain) => len = 0 /\ offset = listed[f].size /\ offset % BlockSize = 0
  BY <1>1, <1>3, <1>4, ReadRanges
<1> HIDE DEF hops, chain, pos
<1>6. CASE Legal(chain)
  <2>1. bytes = [i \in 1 .. len |-> <<f, offset + i - 1>>] BY <1>5, <1>6
  <2> HIDE DEF bytes
  <2>2. /\ last_read'.ok /\ last_read'.file = f /\ last_read'.offset = offset
        /\ last_read'.len = len /\ last_read'.bytes = bytes
    BY <1>1, <1>6
  <2>3. ReadsReturnTheFile' BY <2>1, <2>2 DEF ReadsReturnTheFile
  <2>4. /\ chain_cursor'.file = f /\ chain_cursor'.block = chain[hops]
        /\ chain_cursor'.pos = pos
    BY <1>1, <1>6
  <2>5. CursorOK' BY <1>1, <1>5, <1>6, <2>4 DEF CursorOK, IsAt, BlockOf
  <2> QED BY <1>0, <1>1, <2>3, <2>5 DEF ReadingOK
<1>7. CASE ~Legal(chain)
  <2>1. /\ ~last_read'.ok /\ last_read'.file = f /\ last_read'.offset = offset
        /\ last_read'.len = len
    BY <1>1, <1>7
  <2>2. ReadsReturnTheFile' BY <1>1, <1>5, <1>7, <2>1 DEF ReadsReturnTheFile
  <2>3. CursorOK' BY <1>1, <1>7 DEF ReadingOK, CursorOK, IsAt, BlockOf
  <2> QED BY <1>0, <1>1, <2>2, <2>3 DEF ReadingOK
<1> QED BY <1>6, <1>7

LEMMA InitReading == Init => ReadingOK
<1> SUFFICES ASSUME Init PROVE ReadingOK OBVIOUS
<1>1. /\ reader = "closed" /\ listed = <<>> /\ chain_cursor = NoCursor
      /\ last_read = NoRead
  BY DEF Init, ReaderInit
<1>2. CursorOK BY <1>1 DEF CursorOK
<1>3. ReadsReturnTheFile
  <2>1. 1 .. 0 = {} OBVIOUS
  <2>2. <<>> = [i \in 1 .. 0 |-> <<-1, 0 + i - 1>>] BY <2>1
  <2>3. /\ last_read.ok /\ last_read.file = -1 /\ last_read.offset = 0
        /\ last_read.len = 0 /\ last_read.bytes = <<>>
    BY <1>1 DEF NoRead
  <2> QED BY <2>2, <2>3 DEF ReadsReturnTheFile
<1> QED BY <1>1, <1>2, <1>3 DEF ReadingOK

\* The source's files stay what they are.
LEMMA FilesStay ==
  ASSUME [Next]_vars
  PROVE  files' = files
<1>1. UNCHANGED vars => files' = files BY DEF vars, writerVars, openVars
<1>2. WriterCall \/ WriterFails => files' = files
  BY DEF WriterCall, WriterFails, HashNextBlock, NothingToHash, EmitHeader, EmitUpperTable,
     EmitLevel0Table, EmitData, Exhausted, HashingFails, HeaderFails, StreamingFails, Spoil, openVars
<1>3. OpenReader => files' = files BY DEF OpenReader, writerVars, openVars
<1>4. ASSUME NEW f, NEW offset, NEW len, ReadFileRange(f, offset, len)
      PROVE  files' = files
  BY <1>4 DEF ReadFileRange, writerVars, openVars
<1> QED BY <1>1, <1>2, <1>3, <1>4 DEF Next, ReaderCall, Stopped

LEMMA NextReading ==
  ASSUME IInv, Apart(files), ReadingOK, [Next]_vars
  PROVE  ReadingOK'
<1>0. AllSafe' <=> AllSafe BY FilesStay DEF AllSafe
<1>1. CASE UNCHANGED readerVars
  <2>1. /\ reader' = reader /\ listed' = listed /\ chain_cursor' = chain_cursor
        /\ last_read' = last_read
    BY <1>1 DEF readerVars
  <2>2. CursorOK' BY <2>1 DEF ReadingOK, CursorOK, IsAt, BlockOf
  <2>3. ReadsReturnTheFile' BY <2>1 DEF ReadingOK, ReadsReturnTheFile
  <2> QED BY <1>0, <2>1, <2>2, <2>3 DEF ReadingOK
<1>2. CASE OpenReader
  <2>1. reader' = IF AllSafe THEN "open" ELSE "rejected" BY <1>2, OpenDecides
  <2>2. chain_cursor = NoCursor /\ last_read = NoRead
        /\ chain_cursor' = chain_cursor /\ last_read' = last_read
    BY <1>2 DEF OpenReader, ReadingOK
  <2>3. DOMAIN listed' \subseteq Nat
    <3>1. /\ listed' = IF AllSafe THEN Listing ELSE listed
          /\ listed = <<>> /\ Package /\ WInv /\ Planned
      BY <1>2, <2>1 DEF OpenReader, Package, Listing, TableChain, IInv, WInv, ReaderOK
    <3>2. DOMAIN Listing = 1 .. Len(files) BY <3>1, ListingFound, SequenceLength
    <3>3. DOMAIN <<>> = {} OBVIOUS
    <3> QED BY <3>1, <3>2, <3>3
  <2>4. CursorOK'
    <3>1. chain_cursor'.file \notin Nat BY <2>2 DEF NoCursor
    <3> QED BY <2>3, <3>1 DEF CursorOK
  <2>5. ReadsReturnTheFile' BY <2>2 DEF ReadsReturnTheFile, ReadingOK, NoRead
  <2> QED BY <1>0, <2>1, <2>2, <2>4, <2>5 DEF ReadingOK
<1>3. ASSUME NEW f \in DOMAIN listed, NEW offset \in ReadOffsets, NEW len \in ReadLengths,
             ReadFileRange(f, offset, len)
      PROVE  ReadingOK'
  BY <1>3, ReadFileRangeReads
<1>4. UNCHANGED vars => UNCHANGED readerVars BY DEF vars
<1> QED BY <1>1, <1>2, <1>3, <1>4 DEF Next, ReaderCall, Stopped

\* What is listed then are the files.
LEMMA ReadsThemAll ==
  ASSUME IInv, Apart(files), ReadingOK
  PROVE  ContentRoundTrips
<1>1. ListingRoundTrips
  <2>s. ASSUME reader = "open"
        PROVE  [f \in DOMAIN listed |-> [path |-> listed[f].path, size |-> listed[f].size]] =
                 [f \in DOMAIN files |-> [path |-> StoredPath(files[f].path), size |-> files[f].size]]
    <3>1. /\ DOMAIN listed = DOMAIN files
          /\ \A f \in DOMAIN listed :
               listed[f].path = PathRead(files[f].path) /\ listed[f].size = files[f].size
      BY <2>s, OpenedFacts
    <3>2. \A f \in DOMAIN files : PathRead(files[f].path) = StoredPath(files[f].path)
      BY <2>s DEF ReadingOK, AllSafe, PathRead
    <3> QED BY <3>1, <3>2
  <2> QED BY <2>s DEF ListingRoundTrips, ReadingOK, AllSafe
<1> QED BY <1>1 DEF ContentRoundTrips, ReadingOK

\* A package that is opened is accepted exactly if all its names are safe as
\* they are stored; it then lists the source's files under their paths, with
\* the names cut as they are stored, in their order, and gives their bytes,
\* whatever was read before; as long as no file of the source is named like
\* another or lies below one.
THEOREM ContentSurvives == Spec => []ContentRoundTrips
<1> DEFINE RInv == Apart(files) => ReadingOK
<1>1. Init => RInv BY InitReading
<1>2. IInv /\ RInv /\ [Next]_vars => RInv'
  <2> SUFFICES ASSUME IInv, RInv, [Next]_vars, Apart(files)' PROVE ReadingOK' OBVIOUS
  <2>1. Apart(files) BY FilesStay DEF Apart
  <2> QED BY <2>1, NextReading
<1>3. IInv /\ RInv => ContentRoundTrips BY ReadsThemAll DEF ContentRoundTrips
<1> HIDE DEF RInv
<1> QED BY Invariant, <1>1, <1>2, <1>3, PTL DEF Spec
=============================================================================
