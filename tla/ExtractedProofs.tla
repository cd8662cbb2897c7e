-------------------------- MODULE ExtractedProofs ---------------------------
(***************************************************************************)
(* Proofs about ExtractedWriter, the view of files it reads and the walk   *)
(* over directory tables it starts from, for every disc, listing, chunk    *)
(* size and order of calls; and about JsReader, the cache through which a  *)
(* disc is read, for every source, block size, cap and threshold.          *)
(*                                                                         *)
(* The walk (ReadRoot) is a fold over regions still to visit. Its          *)
(* invariant pairs every entry listed so far with the node of a visited    *)
(* table it was made of; that the walk ends is a count: each turn marks a  *)
(* sector or takes a region off the stack.                                 *)
(*                                                                         *)
(* The inductive invariant of the session says where its files come from   *)
(* (SourceOK, FilesOK), that nothing of a session is there before it opens *)
(* (IdleOK), where it stands in the file it is reading or patching         *)
(* (PlaceOK), and how much of that file has arrived (ArrivedOK). From it   *)
(* follow that every file arrives whole, that the session is a PartStream, *)
(* and that the view behind it is a FileStore.                             *)
(*                                                                         *)
(* JsReader: the cache holds the right bytes and never reports a false end *)
(* of file, a fetch respects the cap on resident blocks, and eviction goes *)
(* by the reads that callers have seen succeed. Its invariant, CacheInv,   *)
(* adds to what the run checks how far a running call has come (CallOK)    *)
(* and that the ticks the code evicts by are those of the callers' reads   *)
(* (TicksAreReads). The two facts about eviction rest on a counting        *)
(* argument: the number of candidates colder than a block is a rank that   *)
(* no two candidates share, so that evicting the blocks of rank below n    *)
(* evicts exactly n of them, and the coldest ones.                         *)
(***************************************************************************)
EXTENDS ExtractedWriter, JsReader, CommonLemmas

-----------------------------------------------------------------------------
(* The elements of a sequence that are kept                                  *)

\* No path occurs twice.
DistinctPaths(s) == \A i, j \in DOMAIN s : s[i].path = s[j].path => i = j

\* The states on the way through filter().
IsKeptRun(run, elements, set, n, V) ==
  /\ run \in [0 .. n -> Seq(V)]
  /\ run[0] = <<>>
  /\ \A k \in 1 .. n : run[k] = IF elements[k] \in set THEN Append(run[k - 1], elements[k])
                                ELSE run[k - 1]

LEMMA KeptRun ==
  ASSUME NEW n, NEW elements, HasLen(elements, n), NEW set, NEW V,
         \A k \in 1 .. n : elements[k] \in V
  PROVE  \E run : IsKeptRun(run, elements, set, n, V) /\ Kept(elements, set) = run[n]
<1> DEFINE S == Seq(V)
           Step(x, e) == IF e \in set THEN Append(x, e) ELSE x
           H == [k \in 1 .. n |-> [x \in S |-> Step(x, elements[k])]]
           iter == CHOOSE f : f = [s \in SUBSET (1 .. n) |->
                     IF s = {} THEN <<>> ELSE Step(f[s \ {Max(s)}], elements[Max(s)])]
<1>1. n \in Nat /\ DOMAIN elements = 1 .. n BY SequenceLength DEF HasLen
<1>2. Kept(elements, set) = iter[1 .. n] BY <1>1 DEF Kept, FoldLeft, MapThenFoldSet
<1>3. <<>> \in S /\ \A k \in 1 .. n : \A x \in S : Step(x, elements[k]) \in S BY AppendProperties
<1> HIDE DEF S
<1>4. /\ H \in [1 .. n -> [S -> S]]
      /\ \A k \in 1 .. n : \A x \in S : H[k][x] = Step(x, elements[k])
  BY <1>3
<1> HIDE DEF H, Step
<1>5. ASSUME NEW s \in SUBSET (1 .. n), s # {}
      PROVE  s \ {Max(s)} \in SUBSET (1 .. n) /\ Max(s) \in 1 .. n
  BY <1>1, <1>5, MaxOfUpTo
<1>6. PICK F \in [SUBSET (1 .. n) -> S] : IsStepFold(F, <<>>, H, n) BY <1>1, <1>3, <1>4, StepFoldExists
<1>7. F = [s \in SUBSET (1 .. n) |->
    IF s = {} THEN <<>> ELSE Step(F[s \ {Max(s)}], elements[Max(s)])]
  <2>1. F = [s \in SUBSET (1 .. n) |-> IF s = {} THEN <<>> ELSE H[Max(s)][F[s \ {Max(s)}]]]
    BY <1>6 DEF IsStepFold
  <2>2. \A s \in SUBSET (1 .. n) : (IF s = {} THEN <<>> ELSE H[Max(s)][F[s \ {Max(s)}]])
      = (IF s = {} THEN <<>> ELSE Step(F[s \ {Max(s)}], elements[Max(s)]))
    BY <1>4, <1>5, <1>6
  <2> QED BY <2>1, <2>2
<1>8. iter = [s \in SUBSET (1 .. n) |->
    IF s = {} THEN <<>> ELSE Step(iter[s \ {Max(s)}], elements[Max(s)])]
  BY <1>7
<1> HIDE DEF iter
<1>9. Iterates(iter, <<>>, H, n, S)
  <2>1. iter[{}] = <<>> BY <1>8
  <2>2. ASSUME NEW s \in SUBSET (1 .. n), s # {}, iter[s \ {Max(s)}] \in S
        PROVE  iter[s] = H[Max(s)][iter[s \ {Max(s)}]]
    <3>1. iter[s] = Step(iter[s \ {Max(s)}], elements[Max(s)]) BY <1>8, <2>2
    <3> QED BY <3>1, <1>4, <1>5, <2>2
  <2> QED BY <2>1, <2>2 DEF Iterates
<1>10. PICK run : IsFoldRun(run, <<>>, H, n, S) /\ iter[1 .. n] = run[n]
  BY ONLY <1>1, <1>3, <1>4, <1>9, FoldRuns
<1>11. IsKeptRun(run, elements, set, n, V)
  <2>1. run \in [0 .. n -> S] /\ run[0] = <<>> /\ \A k \in 1 .. n : run[k] = H[k][run[k - 1]]
    BY <1>10 DEF IsFoldRun
  <2>2. \A k \in 1 .. n : run[k - 1] \in S BY <1>1, <2>1
  <2>3. \A k \in 1 .. n : run[k] = Step(run[k - 1], elements[k]) BY <1>4, <2>1, <2>2
  <2> QED BY <2>1, <2>3 DEF IsKeptRun, S, Step
<1> QED BY <1>2, <1>10, <1>11

\* Files in the order of their listing, none of them twice.
InOrder(s) == \A i, j \in DOMAIN s : i < j => s[i].fs_index < s[j].fs_index

\* What is kept is in the set and comes from the elements, in their order.
IsKept(r, elements, set) ==
  /\ r \in Seq({e \in Range(elements) : e \in set})
  /\ InOrder(elements) => InOrder(r)

LEMMA KeptIsKept ==
  ASSUME NEW n, NEW elements, HasLen(elements, n), NEW set
  PROVE  IsKept(Kept(elements, set), elements, set)
<1> DEFINE V == Range(elements)
           W == {e \in Range(elements) : e \in set}
<1>1. n \in Nat /\ DOMAIN elements = 1 .. n BY SequenceLength DEF HasLen
<1>2. \A k \in 1 .. n : elements[k] \in V BY <1>1 DEF Range
<1> HIDE DEF V
<1>3. PICK run : IsKeptRun(run, elements, set, n, V) /\ Kept(elements, set) = run[n] BY <1>2, KeptRun
<1>4. /\ run[0] = <<>>
      /\ \A k \in 1 .. n : run[k] = IF elements[k] \in set THEN Append(run[k - 1], elements[k])
                                    ELSE run[k - 1]
  BY <1>3 DEF IsKeptRun
<1>5. \A k \in 1 .. n : elements[k] \in set => elements[k] \in W BY <1>2 DEF V
<1> HIDE DEF W
<1> DEFINE Good(k) == /\ run[k] \in Seq(W)
                      /\ \A a \in DOMAIN run[k] : \E i \in 1 .. k : run[k][a] = elements[i]
                      /\ InOrder(elements) => InOrder(run[k])
           D == {k \in Nat : k <= n => Good(k)}
<1>6. 0 \in D
  <2>1. <<>> \in Seq(W) /\ DOMAIN <<>> = {} OBVIOUS
  <2> QED BY <1>4, <2>1 DEF InOrder
<1>7. ASSUME NEW k \in Nat, k \in D PROVE k + 1 \in D
  <2> SUFFICES ASSUME k + 1 <= n PROVE Good(k + 1) OBVIOUS
  <2>1. k + 1 \in 1 .. n /\ (k + 1) - 1 = k /\ k <= n /\ k + 1 \in Nat
        /\ \A i \in 1 .. k : i \in 1 .. k + 1 /\ i \in 1 .. n /\ i # k + 1
    BY <1>1
  <2>2. Good(k) BY <1>7, <2>1
  <2> HIDE DEF Good
  <2>3. CASE elements[k + 1] \notin set
    <3>1. run[k + 1] = run[k] BY <1>4, <2>1, <2>3
    <3> QED BY <2>1, <2>2, <3>1 DEF Good
  <2>4. CASE elements[k + 1] \in set
    <3> DEFINE s == run[k]
               e == elements[k + 1]
               m == Len(s)
    <3>1. run[k + 1] = Append(s, e) BY <1>4, <2>1, <2>4
    <3>2. s \in Seq(W) /\ e \in W BY <1>5, <2>1, <2>2, <2>4 DEF Good
    <3>3. /\ \A a \in DOMAIN s : \E i \in 1 .. k : s[a] = elements[i]
          /\ InOrder(elements) => InOrder(s)
      BY <2>2 DEF Good
    <3>e. e = elements[k + 1] OBVIOUS
    <3> HIDE DEF s, e
    <3>4. /\ Append(s, e) \in Seq(W) /\ DOMAIN Append(s, e) = 1 .. m + 1
          /\ DOMAIN s = 1 .. m /\ m \in Nat
          /\ \A a \in 1 .. m : Append(s, e)[a] = s[a]
          /\ Append(s, e)[m + 1] = e
      BY <3>2, AppendProperties
    <3>5. \A a \in 1 .. m + 1 : \E i \in 1 .. k + 1 : Append(s, e)[a] = elements[i]
      <4>1. \A a \in 1 .. m + 1 : a \in 1 .. m \/ a = m + 1 BY <3>4
      <4> QED BY <4>1, <3>3, <3>4, <3>e, <2>1
    <3>6. ASSUME InOrder(elements) PROVE InOrder(Append(s, e))
      <4>1. ASSUME NEW a \in 1 .. m PROVE s[a].fs_index < e.fs_index
        <5>1. PICK i \in 1 .. k : s[a] = elements[i] BY <3>3, <3>4
        <5>2. i < k + 1 BY <2>1
        <5> QED BY <5>1, <5>2, <3>6, <1>1, <2>1, <3>e DEF InOrder
      <4>2. \A a, b \in 1 .. m : a < b => s[a].fs_index < s[b].fs_index BY <3>3, <3>4, <3>6 DEF InOrder
      <4>3. \A a, b \in 1 .. m + 1 : a < b => a \in 1 .. m /\ (b \in 1 .. m \/ b = m + 1) BY <3>4
      <4>4. \A a, b \in 1 .. m + 1 :
          a < b => Append(s, e)[a].fs_index < Append(s, e)[b].fs_index
        BY <4>1, <4>2, <4>3, <3>4
      <4> QED BY <4>4, <3>4 DEF InOrder
    <3> QED BY <3>1, <3>4, <3>5, <3>6 DEF Good
  <2> QED BY <2>3, <2>4
<1> HIDE DEF D
<1>8. n \in D BY <1>1, <1>6, <1>7, NatInduct
<1>9. Good(n) BY <1>1, <1>8 DEF D
<1> QED BY <1>3, <1>9 DEF IsKept, W

-----------------------------------------------------------------------------
(* The walk over the directory tables of a disc.                             *)

Name == STRING
Node == [name : Name, is_directory : BOOLEAN, sector : Nat, size : Nat]
Entry == [path : Seq(Name) \ {<<>>}, is_directory : BOOLEAN, sector : Nat, size : Nat]
Region == [path : Seq(Name), sector : Nat, size : Nat]
WalkSet == [entries : Seq(Entry), stack : Seq(Region), visited : SUBSET Nat, ok : BOOLEAN]

LEMMA AppendDistinct ==
  ASSUME NEW V, NEW s \in Seq(V), NEW e \in V, DistinctPaths(s),
         \A x \in Range(s) : x.path # e.path
  PROVE  DistinctPaths(Append(s, e))
<1> DEFINE r == Append(s, e)
           n == Len(s)
<1>1. /\ DOMAIN r = 1 .. n + 1 /\ DOMAIN s = 1 .. n /\ n \in Nat
      /\ \A i \in 1 .. n : r[i] = s[i]
      /\ r[n + 1] = e
  BY AppendProperties
<1> HIDE DEF r, n
<1>2. \A i \in 1 .. n + 1 : i \in 1 .. n \/ i = n + 1 BY <1>1
<1>3. \A i, j \in 1 .. n : s[i].path = s[j].path => i = j BY <1>1 DEF DistinctPaths
<1>4. \A i \in 1 .. n : s[i].path # e.path BY <1>1 DEF Range
<1>5. \A i, j \in 1 .. n + 1 : r[i].path = r[j].path => i = j BY <1>1, <1>2, <1>3, <1>4
<1> QED BY <1>1, <1>5 DEF DistinctPaths, r

\* What a visit to a node makes of the walk.
IsVisit(v, w, parent, node) ==
  LET e == DirectoryEntry(parent, node)
      region == [path |-> Append(parent, node.name), sector |-> node.sector, size |-> node.size]
  IN /\ v \in WalkSet /\ e \in Entry /\ region \in Region
     /\ v.entries = Append(w.entries, e) /\ v.ok = w.ok
     /\ \/ /\ node.is_directory /\ node.size # 0 /\ node.sector \notin w.visited
           /\ v.stack = Append(w.stack, region) /\ v.visited = w.visited \cup {node.sector}
        \/ /\ ~(node.is_directory /\ node.size # 0 /\ node.sector \notin w.visited)
           /\ v.stack = w.stack /\ v.visited = w.visited

LEMMA VisitNodeIs ==
  ASSUME NEW w \in WalkSet, NEW parent \in Seq(Name), NEW node \in Node
  PROVE  IsVisit(VisitNode(w, parent, node), w, parent, node)
<1> DEFINE e == DirectoryEntry(parent, node)
           p == Append(parent, node.name)
           region == [path |-> p, sector |-> node.sector, size |-> node.size]
           descend == node.is_directory /\ node.size # 0 /\ node.sector \notin w.visited
           v == VisitNode(w, parent, node)
<1>1. /\ w.entries \in Seq(Entry) /\ w.stack \in Seq(Region) /\ w.visited \in SUBSET Nat
      /\ w.ok \in BOOLEAN /\ w = [entries |-> w.entries, stack |-> w.stack,
                                  visited |-> w.visited, ok |-> w.ok]
  BY DEF WalkSet
<1>2. /\ node.name \in Name /\ node.is_directory \in BOOLEAN
      /\ node.sector \in Nat /\ node.size \in Nat
  BY DEF Node
<1>3. p \in Seq(Name) \ {<<>>} BY <1>2, AppendedPath
<1>4. e \in Entry /\ region \in Region BY <1>2, <1>3 DEF Entry, Region, DirectoryEntry
<1>a. v = [w EXCEPT !.entries = Append(@, e),
    !.stack = IF descend THEN Append(@, region) ELSE @,
    !.visited = IF descend THEN @ \cup {node.sector} ELSE @]
  BY DEF VisitNode
<1> HIDE DEF e, p, v, region, descend
<1>5. /\ v.entries = Append(w.entries, e) /\ v.ok = w.ok
      /\ v.stack = (IF descend THEN Append(w.stack, region) ELSE w.stack)
      /\ v.visited = (IF descend THEN w.visited \cup {node.sector} ELSE w.visited)
      /\ v = [entries |-> v.entries, stack |-> v.stack, visited |-> v.visited, ok |-> v.ok]
  BY <1>1, <1>a
<1>6. Append(w.entries, e) \in Seq(Entry) /\ Append(w.stack, region) \in Seq(Region)
  BY <1>1, <1>4, AppendProperties
<1>7. w.visited \cup {node.sector} \in SUBSET Nat BY <1>1, <1>2
<1>8. v \in WalkSet
  <2>1. /\ v.entries \in Seq(Entry) /\ v.stack \in Seq(Region)
        /\ v.visited \in SUBSET Nat /\ v.ok \in BOOLEAN
    BY <1>1, <1>5, <1>6, <1>7
  <2> QED BY <2>1, <1>5 DEF WalkSet
<1> QED BY <1>4, <1>5, <1>8 DEF IsVisit, e, p, v, region, descend

\* The walks on the way through one table.
IsTableRun(run, w, parent, table) ==
  /\ run \in [0 .. Len(table) -> WalkSet]
  /\ run[0] = w
  /\ \A k \in 1 .. Len(table) : run[k] = VisitNode(run[k - 1], parent, table[k])

LEMMA TableRun ==
  ASSUME NEW w \in WalkSet, NEW parent \in Seq(Name), NEW table \in Seq(Node)
  PROVE  \E run : /\ IsTableRun(run, w, parent, table)
                  /\ VisitNodes(w, parent, table) = run[Len(table)]
<1> DEFINE n == Len(table)
           H == [k \in 1 .. n |-> [x \in WalkSet |-> VisitNode(x, parent, table[k])]]
           iter == CHOOSE f : f = [s \in SUBSET (1 .. n) |->
                     IF s = {} THEN w ELSE VisitNode(f[s \ {Max(s)}], parent, table[Max(s)])]
<1>1. n \in Nat /\ DOMAIN table = 1 .. n /\ \A k \in 1 .. n : table[k] \in Node
  BY SeqIsSequence DEF HasLen
<1>2. VisitNodes(w, parent, table) = iter[1 .. n] BY <1>1 DEF VisitNodes, FoldLeft, MapThenFoldSet
<1> HIDE DEF n
<1>3. \A k \in 1 .. n : \A x \in WalkSet : VisitNode(x, parent, table[k]) \in WalkSet
  BY <1>1, VisitNodeIs DEF IsVisit
<1>4. /\ H \in [1 .. n -> [WalkSet -> WalkSet]]
      /\ \A k \in 1 .. n : \A x \in WalkSet : H[k][x] = VisitNode(x, parent, table[k])
  BY <1>3
<1> HIDE DEF H
<1>5. ASSUME NEW s \in SUBSET (1 .. n), s # {}
      PROVE  s \ {Max(s)} \in SUBSET (1 .. n) /\ Max(s) \in 1 .. n
  BY <1>1, <1>5, MaxOfUpTo
<1>6. PICK F \in [SUBSET (1 .. n) -> WalkSet] : IsStepFold(F, w, H, n) BY <1>1, <1>4, StepFoldExists
<1>7. F = [s \in SUBSET (1 .. n) |->
    IF s = {} THEN w ELSE VisitNode(F[s \ {Max(s)}], parent, table[Max(s)])]
  <2>1. F = [s \in SUBSET (1 .. n) |-> IF s = {} THEN w ELSE H[Max(s)][F[s \ {Max(s)}]]]
    BY <1>6 DEF IsStepFold
  <2>2. \A s \in SUBSET (1 .. n) : (IF s = {} THEN w ELSE H[Max(s)][F[s \ {Max(s)}]])
      = (IF s = {} THEN w ELSE VisitNode(F[s \ {Max(s)}], parent, table[Max(s)]))
    BY <1>4, <1>5, <1>6
  <2> QED BY <2>1, <2>2
<1>8. iter = [s \in SUBSET (1 .. n) |->
    IF s = {} THEN w ELSE VisitNode(iter[s \ {Max(s)}], parent, table[Max(s)])]
  BY <1>7
<1> HIDE DEF iter
<1>9. Iterates(iter, w, H, n, WalkSet)
  <2>1. iter[{}] = w BY <1>8
  <2>2. ASSUME NEW s \in SUBSET (1 .. n), s # {}, iter[s \ {Max(s)}] \in WalkSet
        PROVE  iter[s] = H[Max(s)][iter[s \ {Max(s)}]]
    <3>1. iter[s] = VisitNode(iter[s \ {Max(s)}], parent, table[Max(s)]) BY <1>8, <2>2
    <3> QED BY <3>1, <1>4, <1>5, <2>2
  <2> QED BY <2>1, <2>2 DEF Iterates
<1>10. PICK run : IsFoldRun(run, w, H, n, WalkSet) /\ iter[1 .. n] = run[n]
  <2> DEFINE S == WalkSet
  <2>1. n \in Nat /\ w \in S /\ H \in [1 .. n -> [S -> S]] /\ Iterates(iter, w, H, n, S)
    BY <1>1, <1>4, <1>9
  <2> HIDE DEF S
  <2>2. \E run : IsFoldRun(run, w, H, n, S) /\ iter[1 .. n] = run[n] BY ONLY <2>1, FoldRuns
  <2> QED BY <2>2 DEF S
<1>11. IsTableRun(run, w, parent, table)
  <2>1. /\ run \in [0 .. n -> WalkSet] /\ run[0] = w
        /\ \A k \in 1 .. n : run[k] = H[k][run[k - 1]]
    BY <1>10 DEF IsFoldRun
  <2>2. \A k \in 1 .. n : run[k - 1] \in WalkSet
    <3>1. \A k \in 1 .. n : k - 1 \in 0 .. n BY <1>1
    <3> QED BY <2>1, <3>1
  <2>3. \A k \in 1 .. n : run[k] = VisitNode(run[k - 1], parent, table[k]) BY <1>4, <2>1, <2>2
  <2> QED BY <2>1, <2>3 DEF IsTableRun, n
<1> QED BY <1>2, <1>10, <1>11 DEF n

\* The entry of a node, the j-th of the table of a region.
EntryAt(disc, x) == DirectoryEntry(x[1].path, disc.tables[x[1].sector][x[2]])

NodesOf(disc, Q) == {x \in Q \X Nat : x[2] \in DOMAIN disc.tables[x[1].sector]}

RootRegion(disc) == [path |-> <<>>, sector |-> disc.root.sector, size |-> disc.root.size]

Names(e, r) == e.is_directory /\ e.size # 0 /\ e.path = r.path /\ e.sector = r.sector /\ e.size = r.size

\* Regions with tables, whose nodes are visited or being visited (Q), and those
\* on the stack: all under paths and at sectors of their own.
RegionsApart(disc, w, Q) ==
  /\ Q \in SUBSET Region
  /\ \A q \in Q : q.sector \in DOMAIN disc.tables
  /\ \A p, q \in Q : p.path = q.path \/ p.sector = q.sector => p = q
  /\ \A q \in Q : \A r \in Range(w.stack) : q.path # r.path /\ q.sector # r.sector
  /\ \A a, b \in DOMAIN w.stack :
       w.stack[a].path = w.stack[b].path \/ w.stack[a].sector = w.stack[b].sector => a = b

\* The entries are those of the nodes seen, and every region is the root or
\* has been named by one of them.
EntriesMatch(disc, w, Q, Seen) ==
  /\ Seen \subseteq NodesOf(disc, Q)
  /\ Range(w.entries) = {EntryAt(disc, x) : x \in Seen}
  /\ DistinctPaths(w.entries)
  /\ \A r \in Q \cup Range(w.stack) :
       r = RootRegion(disc) \/ \E e \in Range(w.entries) : Names(e, r)

\* What has been visited is the regions, holds the directories found, and is
\* in every set that is closed.
VisitedMatch(disc, w, Q) ==
  /\ w.visited = {r.sector : r \in Q \cup Range(w.stack)}
  /\ disc.root.sector \in w.visited
  /\ \A e \in Range(w.entries) : e.is_directory /\ e.size # 0 => e.sector \in w.visited
  /\ \A C \in SUBSET Nat : IsClosed(disc, C) => w.visited \subseteq C

WalkInv(disc, w, Q, Seen) ==
  /\ w \in WalkSet
  /\ RegionsApart(disc, w, Q)
  /\ EntriesMatch(disc, w, Q, Seen)
  /\ VisitedMatch(disc, w, Q)

LEMMA ImageTables ==
  ASSUME NEW disc, IsImage(disc), NEW sector \in DOMAIN disc.tables
  PROVE  /\ disc.tables[sector] \in Seq(Node)
         /\ \A i, j \in DOMAIN disc.tables[sector] :
              disc.tables[sector][i].name = disc.tables[sector][j].name => i = j
BY DEF IsImage, Node, TableNode, Name

LEMMA NewEntry ==
  ASSUME NEW disc, IsImage(disc), NEW w, NEW Q, NEW Seen, WalkInv(disc, w, Q, Seen),
         NEW r \in Q, NEW j \in DOMAIN disc.tables[r.sector], <<r, j>> \notin Seen
  PROVE  /\ \A x \in Range(w.entries) : x.path # EntryAt(disc, <<r, j>>).path
         /\ \A q \in Q \cup Range(w.stack) : q.path # EntryAt(disc, <<r, j>>).path
<1> DEFINE node(y) == disc.tables[y[1].sector][y[2]]
           x == <<r, j>>
<1>1. RegionsApart(disc, w, Q) /\ EntriesMatch(disc, w, Q, Seen) BY DEF WalkInv
<1>2. Q \in SUBSET Region /\ Seen \subseteq NodesOf(disc, Q) /\ \A q \in Q : q.sector \in DOMAIN disc.tables
  BY <1>1 DEF RegionsApart, EntriesMatch
<1>3. ASSUME NEW y, y[1] \in Q, y[2] \in DOMAIN disc.tables[y[1].sector]
      PROVE  /\ node(y).name \in Name /\ y[1].path \in Seq(Name)
             /\ EntryAt(disc, y).path = Append(y[1].path, node(y).name)
             /\ EntryAt(disc, y).path # <<>>
  <2>1. disc.tables[y[1].sector] \in Seq(Node) BY <1>2, <1>3, ImageTables
  <2>2. node(y) \in Node BY <2>1, <1>3, SeqIsSequence
  <2>3. node(y).name \in Name /\ y[1].path \in Seq(Name) BY <2>2, <1>2, <1>3 DEF Node, Region
  <2>4. EntryAt(disc, y).path = Append(y[1].path, node(y).name) BY DEF EntryAt, DirectoryEntry
  <2> HIDE DEF node
  <2> QED BY <2>3, <2>4, AppendedPath
<1>4. x[1] = r /\ x[2] = j OBVIOUS
<1>5. ASSUME NEW y \in Seen
      PROVE  EntryAt(disc, y).path # EntryAt(disc, x).path
  <2> SUFFICES ASSUME EntryAt(disc, y).path = EntryAt(disc, x).path PROVE FALSE OBVIOUS
  <2>1. y[1] \in Q /\ y[2] \in DOMAIN disc.tables[y[1].sector] /\ y = <<y[1], y[2]>> BY <1>2 DEF NodesOf
  <2>2. /\ node(y).name \in Name /\ y[1].path \in Seq(Name)
        /\ EntryAt(disc, y).path = Append(y[1].path, node(y).name)
    BY <1>3, <2>1
  <2>3. /\ node(x).name \in Name /\ x[1].path \in Seq(Name)
        /\ EntryAt(disc, x).path = Append(x[1].path, node(x).name)
    BY <1>3, <1>4
  <2>4. y[1].path = x[1].path /\ node(y).name = node(x).name
    <3> DEFINE a == node(y).name
               b == node(x).name
               p == y[1].path
               q == x[1].path
    <3>1. a \in Name /\ b \in Name /\ p \in Seq(Name) /\ q \in Seq(Name) /\ Append(p, a) = Append(q, b)
      BY <2>2, <2>3
    <3> HIDE DEF a, b, p, q
    <3>2. p = q /\ a = b BY ONLY <3>1, AppendedSame
    <3> QED BY <3>2 DEF a, b, p, q
  <2>5. y[1] = r BY <1>1, <1>4, <2>1, <2>4 DEF RegionsApart
  <2>6. y[2] = j BY <1>2, <1>4, <2>1, <2>4, <2>5, ImageTables
  <2> QED BY <2>1, <2>5, <2>6
<1>6. \A e \in Range(w.entries) : e.path # EntryAt(disc, x).path BY <1>1, <1>5 DEF EntriesMatch
<1>7. ASSUME NEW q \in Q \cup Range(w.stack)
      PROVE  q.path # EntryAt(disc, x).path
  <2>1. CASE q = RootRegion(disc) BY <1>3, <1>4, <2>1 DEF RootRegion
  <2>2. CASE \E e \in Range(w.entries) : Names(e, q) BY <1>6, <2>2 DEF Names
  <2> QED BY <1>1, <2>1, <2>2 DEF EntriesMatch
<1> QED BY <1>6, <1>7

\* A visit to a node that has not been seen.
LEMMA VisitNodeInv ==
  ASSUME NEW disc, IsImage(disc), NEW w, NEW Q, NEW Seen, WalkInv(disc, w, Q, Seen),
         NEW r \in Q, NEW j \in DOMAIN disc.tables[r.sector], <<r, j>> \notin Seen
  PROVE  WalkInv(disc, VisitNode(w, r.path, disc.tables[r.sector][j]), Q, Seen \cup {<<r, j>>})
<1> DEFINE node == disc.tables[r.sector][j]
           x == <<r, j>>
           e == DirectoryEntry(r.path, node)
           p == Append(r.path, node.name)
           region == [path |-> p, sector |-> node.sector, size |-> node.size]
           v == VisitNode(w, r.path, node)
           T == Seen \cup {x}
<1> SUFFICES WalkInv(disc, v, Q, T) OBVIOUS
<1>1. /\ w \in WalkSet /\ RegionsApart(disc, w, Q) /\ EntriesMatch(disc, w, Q, Seen)
      /\ VisitedMatch(disc, w, Q)
  BY DEF WalkInv
<1>2. /\ Q \in SUBSET Region /\ r.sector \in DOMAIN disc.tables /\ r \in Region BY <1>1 DEF RegionsApart
<1>3. disc.tables[r.sector] \in Seq(Node) BY <1>2, ImageTables
<1>4. node \in Node /\ j \in Nat /\ node \in Range(disc.tables[r.sector])
  <2>1. DOMAIN disc.tables[r.sector] = 1 .. Len(disc.tables[r.sector])
        /\ \A i \in 1 .. Len(disc.tables[r.sector]) : disc.tables[r.sector][i] \in Node
    BY <1>3, SeqIsSequence
  <2> QED BY <2>1 DEF Range
<1>5. EntryAt(disc, x) = e /\ x[1] = r /\ x[2] = j BY DEF EntryAt
<1>6. /\ \A y \in Range(w.entries) : y.path # e.path
      /\ \A q \in Q \cup Range(w.stack) : q.path # e.path
  BY <1>5, NewEntry
<1>7. /\ e.path = p /\ e.is_directory = node.is_directory /\ e.sector = node.sector /\ e.size = node.size
      /\ region.path = p /\ region.sector = node.sector /\ region.size = node.size
  BY DEF DirectoryEntry
<1>8. r.path \in Seq(Name) BY <1>2 DEF Region
<1>9. IsVisit(v, w, r.path, node) BY <1>1, <1>4, <1>8, VisitNodeIs
<1> HIDE DEF node, v
<1>10. /\ v \in WalkSet /\ e \in Entry /\ region \in Region
       /\ v.entries = Append(w.entries, e)
       /\ \/ /\ node.is_directory /\ node.size # 0 /\ node.sector \notin w.visited
             /\ v.stack = Append(w.stack, region) /\ v.visited = w.visited \cup {node.sector}
          \/ /\ ~(node.is_directory /\ node.size # 0 /\ node.sector \notin w.visited)
             /\ v.stack = w.stack /\ v.visited = w.visited
  BY <1>9 DEF IsVisit
<1> HIDE DEF e, p, region
<1>11. w.entries \in Seq(Entry) /\ w.stack \in Seq(Region) /\ w.visited \in SUBSET Nat BY <1>1 DEF WalkSet
<1>12. Range(v.entries) = Range(w.entries) \cup {e} /\ DistinctPaths(v.entries)
  <2>1. Range(Append(w.entries, e)) = Range(w.entries) \cup {e} BY <1>10, <1>11, AppendRange
  <2>2. DistinctPaths(w.entries) BY <1>1 DEF EntriesMatch
  <2>3. DistinctPaths(Append(w.entries, e)) BY <1>6, <1>10, <1>11, <2>2, AppendDistinct
  <2> QED BY <1>10, <2>1, <2>3
<1>13. T \subseteq NodesOf(disc, Q) /\ Range(v.entries) = {EntryAt(disc, y) : y \in T}
  <2>1. Seen \subseteq NodesOf(disc, Q) /\ Range(w.entries) = {EntryAt(disc, y) : y \in Seen}
    BY <1>1 DEF EntriesMatch
  <2>2. x \in NodesOf(disc, Q) BY <1>4, <1>5 DEF NodesOf
  <2> QED BY <1>5, <1>12, <2>1, <2>2
<1>14. node.sector \in Nat /\ node.size \in Nat /\ node.is_directory \in BOOLEAN BY <1>4 DEF Node
<1>15. ASSUME NEW C \in SUBSET Nat, IsClosed(disc, C), node.is_directory, node.size # 0
    PROVE  node.sector \in C
  <2>1. r.sector \in C BY <1>1, <1>15 DEF VisitedMatch
  <2>2. node \in Subdirectories(disc, C) BY <1>2, <1>4, <1>15, <2>1 DEF Subdirectories
  <2> QED BY <1>15, <2>2 DEF IsClosed
<1>16. CASE ~(node.is_directory /\ node.size # 0 /\ node.sector \notin w.visited)
  <2>1. v.stack = w.stack /\ v.visited = w.visited BY <1>10, <1>16
  <2>2. RegionsApart(disc, v, Q) BY <1>1, <2>1 DEF RegionsApart
  <2>3. EntriesMatch(disc, v, Q, T) BY <1>1, <1>12, <1>13, <2>1 DEF EntriesMatch
  <2>4. VisitedMatch(disc, v, Q) BY <1>1, <1>7, <1>12, <1>16, <2>1 DEF VisitedMatch
  <2> QED BY <1>10, <2>2, <2>3, <2>4 DEF WalkInv
<1>17. CASE node.is_directory /\ node.size # 0 /\ node.sector \notin w.visited
  <2>1. v.stack = Append(w.stack, region) /\ v.visited = w.visited \cup {node.sector} BY <1>10, <1>17
  <2>2. Range(v.stack) = Range(w.stack) \cup {region} BY <1>10, <1>11, <2>1, AppendRange
  <2>3. w.visited = {q.sector : q \in Q \cup Range(w.stack)} BY <1>1 DEF VisitedMatch
  <2>4. \A q \in Q \cup Range(w.stack) : q.path # region.path /\ q.sector # region.sector
    BY <1>6, <1>7, <1>17, <2>3
  <2>5. RegionsApart(disc, v, Q)
    <3> DEFINE n == Len(w.stack)
               s == v.stack
    <3>1. /\ DOMAIN w.stack = 1 .. n /\ n \in Nat /\ DOMAIN s = 1 .. n + 1
          /\ \A a \in 1 .. n : s[a] = w.stack[a]
          /\ s[n + 1] = region
      <4>1. HasLen(w.stack, n) /\ DOMAIN w.stack = 1 .. n BY <1>11, SeqIsSequence
      <4> HIDE DEF n
      <4>2. IsAppend(Append(w.stack, region), w.stack, n, region) BY ONLY <4>1, SequenceAppend
      <4>3. n \in Nat /\ \A a \in 1 .. n : a \in 1 .. n + 1 /\ a <= n /\ ~(n + 1 <= n) BY <4>1 DEF HasLen
      <4>4. n + 1 \in 1 .. n + 1 /\ ~(n + 1 <= n) BY <4>3
      <4>5. DOMAIN s = 1 .. n + 1 BY <2>1, <4>2, SequenceLength DEF IsAppend
      <4> QED BY <2>1, <4>1, <4>2, <4>3, <4>4, <4>5 DEF IsAppend
    <3> HIDE DEF n, s
    <3>2. \A a \in 1 .. n + 1 : a \in 1 .. n \/ a = n + 1 BY <3>1
    <3>3. \A a \in 1 .. n : w.stack[a].path # region.path /\ w.stack[a].sector # region.sector
      BY <2>4, <3>1 DEF Range
    <3>4. \A a, b \in 1 .. n : w.stack[a].path = w.stack[b].path \/ w.stack[a].sector = w.stack[b].sector => a = b
      BY <1>1, <3>1 DEF RegionsApart
    <3>5. \A a, b \in 1 .. n + 1 : s[a].path = s[b].path \/ s[a].sector = s[b].sector => a = b
      BY <3>1, <3>2, <3>3, <3>4
    <3>6. \A q \in Q : \A z \in Range(v.stack) : q.path # z.path /\ q.sector # z.sector
      BY <1>1, <2>2, <2>4 DEF RegionsApart
    <3>7. /\ Q \in SUBSET Region /\ \A q \in Q : q.sector \in DOMAIN disc.tables
          /\ \A a, b \in Q : a.path = b.path \/ a.sector = b.sector => a = b
      BY <1>1 DEF RegionsApart
    <3> QED BY <3>1, <3>5, <3>6, <3>7 DEF RegionsApart, s
  <2>6. EntriesMatch(disc, v, Q, T)
    <3>1. Names(e, region) BY <1>7, <1>17 DEF Names
    <3>2. \A z \in Q \cup Range(v.stack) :
        z = RootRegion(disc) \/ \E y \in Range(v.entries) : Names(y, z)
      BY <1>1, <1>12, <2>2, <3>1 DEF EntriesMatch
    <3> QED BY <1>12, <1>13, <3>2 DEF EntriesMatch
  <2>7. VisitedMatch(disc, v, Q)
    <3>1. v.visited = {q.sector : q \in Q \cup Range(v.stack)} BY <1>7, <2>1, <2>2, <2>3
    <3>2. \A y \in Range(v.entries) : y.is_directory /\ y.size # 0 => y.sector \in v.visited
      BY <1>1, <1>7, <1>12, <2>1 DEF VisitedMatch
    <3>3. \A C \in SUBSET Nat : IsClosed(disc, C) => v.visited \subseteq C
      BY <1>1, <1>15, <1>17, <2>1 DEF VisitedMatch
    <3>4. disc.root.sector \in v.visited BY <1>1, <2>1 DEF VisitedMatch
    <3> QED BY <3>1, <3>2, <3>3, <3>4 DEF VisitedMatch
  <2> QED BY <1>10, <2>5, <2>6, <2>7 DEF WalkInv
<1> QED BY <1>16, <1>17

\* A visit to the table on top of the stack.
LEMMA VisitTableInv ==
  ASSUME NEW disc, IsImage(disc), NEW w, NEW Q, WalkInv(disc, w, Q, NodesOf(disc, Q)),
         w.stack # <<>>, RegionReadable(disc, Last(w.stack))
  PROVE  /\ Last(w.stack) \in Region \ Q
         /\ VisitTable(disc, w).ok = w.ok
         /\ WalkInv(disc, VisitTable(disc, w), Q \cup {Last(w.stack)},
                    NodesOf(disc, Q \cup {Last(w.stack)}))
<1> DEFINE r == Last(w.stack)
           popped == [w EXCEPT !.stack = Front(@)]
           table == disc.tables[r.sector]
           n == Len(table)
           Seen(k) == NodesOf(disc, Q) \cup {<<r, i>> : i \in 1 .. k}
           P == Q \cup {r}
<1>1. /\ w \in WalkSet /\ RegionsApart(disc, w, Q) /\ EntriesMatch(disc, w, Q, NodesOf(disc, Q))
      /\ VisitedMatch(disc, w, Q)
  BY DEF WalkInv
<1>2. /\ w.entries \in Seq(Entry) /\ w.stack \in Seq(Region) /\ w.visited \in SUBSET Nat
      /\ w.ok \in BOOLEAN /\ w = [entries |-> w.entries, stack |-> w.stack,
                                  visited |-> w.visited, ok |-> w.ok]
  BY <1>1 DEF WalkSet
<1>3. /\ r \in Region /\ Front(w.stack) \in Seq(Region)
      /\ Range(w.stack) = Range(Front(w.stack)) \cup {r}
      /\ DOMAIN Front(w.stack) = 1 .. Len(w.stack) - 1 /\ DOMAIN w.stack = 1 .. Len(w.stack)
      /\ Len(w.stack) \in Nat \ {0}
      /\ \A i \in 1 .. Len(w.stack) - 1 : Front(w.stack)[i] = w.stack[i]
      /\ r = w.stack[Len(w.stack)]
  BY <1>2, PoppedStack
<1>4. r.sector \in DOMAIN disc.tables BY DEF RegionReadable
<1>5. table \in Seq(Node) /\ n \in Nat /\ DOMAIN table = 1 .. n
  BY <1>4, ImageTables, SeqIsSequence DEF HasLen
<1>6. r.path \in Seq(Name) BY <1>3 DEF Region
<1>7. /\ popped \in WalkSet /\ popped.entries = w.entries /\ popped.stack = Front(w.stack)
      /\ popped.visited = w.visited /\ popped.ok = w.ok
  BY <1>2, <1>3 DEF WalkSet
<1>8. VisitTable(disc, w) = VisitNodes(popped, r.path, table) BY DEF VisitTable
<1> HIDE DEF popped, n
<1>9. \A q \in Q : q.path # r.path /\ q.sector # r.sector BY <1>1, <1>3 DEF RegionsApart
<1>10. r \notin Q BY <1>9
<1>11. \A z \in Range(popped.stack) : z.path # r.path /\ z.sector # r.sector
  <2> DEFINE m == Len(w.stack)
             s == w.stack
             f == popped.stack
  <2>1. /\ m \in Nat \ {0} /\ DOMAIN s = 1 .. m /\ DOMAIN f = 1 .. m - 1
        /\ \A i \in 1 .. m - 1 : f[i] = s[i]
        /\ r = s[m]
    BY <1>3, <1>7
  <2>2. \A a, b \in 1 .. m : s[a].path = s[b].path \/ s[a].sector = s[b].sector => a = b
    BY <1>1, <2>1 DEF RegionsApart
  <2> HIDE DEF m, s, f
  <2>3. m \in 1 .. m /\ \A i \in 1 .. m - 1 : i \in 1 .. m /\ i # m BY <2>1
  <2>r. \A a, b \in 1 .. m : a # b => s[a].path # s[b].path /\ s[a].sector # s[b].sector BY <2>2
  <2>4. \A i \in 1 .. m - 1 : s[i].path # s[m].path /\ s[i].sector # s[m].sector BY <2>3, <2>r
  <2>5. \A z \in Range(f) : \E i \in 1 .. m - 1 : z = s[i] BY <2>1 DEF Range
  <2> QED BY <2>1, <2>4, <2>5 DEF f
<1>12. RegionsApart(disc, popped, P)
  <2>1. /\ P \in SUBSET Region /\ \A q \in P : q.sector \in DOMAIN disc.tables
    BY <1>1, <1>3, <1>4 DEF RegionsApart
  <2>2. \A a, b \in P : a.path = b.path \/ a.sector = b.sector => a = b BY <1>1, <1>9 DEF RegionsApart
  <2>3. \A q \in P : \A z \in Range(popped.stack) : q.path # z.path /\ q.sector # z.sector
    BY <1>1, <1>3, <1>7, <1>11 DEF RegionsApart
  <2>4. \A a, b \in DOMAIN popped.stack :
      popped.stack[a].path = popped.stack[b].path \/ popped.stack[a].sector = popped.stack[b].sector => a = b
    <3>1. \A a \in DOMAIN popped.stack : a \in DOMAIN w.stack /\ popped.stack[a] = w.stack[a]
      BY <1>3, <1>7
    <3> QED BY <1>1, <3>1 DEF RegionsApart
  <2> QED BY <2>1, <2>2, <2>3, <2>4 DEF RegionsApart
<1>13. P \cup Range(popped.stack) = Q \cup Range(w.stack) BY <1>3, <1>7
<1>14. WalkInv(disc, popped, P, Seen(0))
  <2>1. Seen(0) = NodesOf(disc, Q) OBVIOUS
  <2>2. NodesOf(disc, Q) \subseteq NodesOf(disc, P) BY DEF NodesOf
  <2>3. EntriesMatch(disc, popped, P, Seen(0)) BY <1>1, <1>7, <1>13, <2>1, <2>2 DEF EntriesMatch
  <2>4. VisitedMatch(disc, popped, P) BY <1>1, <1>7, <1>13 DEF VisitedMatch
  <2> QED BY <1>7, <1>12, <2>3, <2>4 DEF WalkInv
<1>15. PICK run : IsTableRun(run, popped, r.path, table) /\ VisitNodes(popped, r.path, table) = run[n]
  BY <1>5, <1>6, <1>7, TableRun DEF n
<1>16. /\ run[0] = popped
       /\ \A k \in 1 .. n : run[k - 1] \in WalkSet /\ run[k] = VisitNode(run[k - 1], r.path, table[k])
  <2>1. \A k \in 1 .. n : k - 1 \in 0 .. n BY <1>5
  <2> QED BY <1>15, <2>1 DEF IsTableRun, n
<1> DEFINE D == {k \in Nat : k <= n => WalkInv(disc, run[k], P, Seen(k)) /\ run[k].ok = w.ok}
<1>17. 0 \in D BY <1>7, <1>14, <1>16
<1>18. ASSUME NEW k \in Nat, k \in D PROVE k + 1 \in D
  <2> SUFFICES ASSUME k + 1 <= n
      PROVE  WalkInv(disc, run[k + 1], P, Seen(k + 1)) /\ run[k + 1].ok = w.ok
    OBVIOUS
  <2>1. k + 1 \in 1 .. n /\ (k + 1) - 1 = k /\ k <= n /\ k + 1 \notin 1 .. k BY <1>5
  <2>2. WalkInv(disc, run[k], P, Seen(k)) /\ run[k].ok = w.ok BY <1>18, <2>1
  <2>3. run[k + 1] = VisitNode(run[k], r.path, table[k + 1]) /\ run[k] \in WalkSet BY <1>16, <2>1
  <2>4. <<r, k + 1>> \notin Seen(k) BY <1>10, <2>1 DEF NodesOf
  <2>5. Seen(k + 1) = Seen(k) \cup {<<r, k + 1>>}
    <3>1. 1 .. k + 1 = (1 .. k) \cup {k + 1} OBVIOUS
    <3> QED BY <3>1
  <2>6. r \in P /\ k + 1 \in DOMAIN disc.tables[r.sector] BY <1>5, <2>1
  <2>7. table[k + 1] \in Node BY <1>5, <2>1, ElementOfSeq DEF n
  <2>8. IsVisit(run[k + 1], run[k], r.path, table[k + 1]) BY <1>6, <2>3, <2>7, VisitNodeIs
  <2> HIDE DEF Seen, P, r
  <2>9. WalkInv(disc, VisitNode(run[k], r.path, disc.tables[r.sector][k + 1]), P,
      Seen(k) \cup {<<r, k + 1>>})
    BY <2>2, <2>4, <2>6, VisitNodeInv
  <2> QED BY <2>2, <2>3, <2>5, <2>8, <2>9 DEF IsVisit
<1> HIDE DEF D
<1>19. n \in D BY <1>5, <1>17, <1>18, NatInduct
<1>20. WalkInv(disc, run[n], P, Seen(n)) /\ run[n].ok = w.ok BY <1>5, <1>19 DEF D
<1>21. Seen(n) = NodesOf(disc, P)
  <2>1. \A i \in 1 .. n : i \in Nat OBVIOUS
  <2>2. \A x \in NodesOf(disc, P) : x = <<x[1], x[2]>> /\ x[1] \in P /\ x[2] \in DOMAIN disc.tables[x[1].sector] /\ x[2] \in Nat
    BY DEF NodesOf
  <2>3. NodesOf(disc, P) \subseteq Seen(n) BY <1>5, <2>2 DEF NodesOf
  <2>4. Seen(n) \subseteq NodesOf(disc, P) BY <1>5, <2>1 DEF NodesOf
  <2> QED BY <2>3, <2>4
<1>22. VisitTable(disc, w) = run[n] BY <1>8, <1>15
<1> QED BY <1>3, <1>10, <1>20, <1>21, <1>22

\* The walks that have visited whole tables.
WalkOver(disc, w, Q) == WalkInv(disc, w, Q, NodesOf(disc, Q))

GoodWalks(disc) == {w \in WalkSet : \E Q : WalkOver(disc, w, Q)}

VisitNext(disc, w) == IF w.ok /\ w.stack # <<>> THEN VisitTable(disc, w) ELSE w

\* A step of the walk: a table, unless it cannot be read or none is left.
IsStep(disc, v, w, Q) ==
  \/ v = w /\ ~(w.ok /\ w.stack # <<>>)
  \/ /\ w.ok /\ w.stack # <<>> /\ RegionReadable(disc, Last(w.stack)) /\ v.ok
     /\ Last(w.stack) \in Region \ Q
     /\ WalkOver(disc, v, Q \cup {Last(w.stack)})
  \/ /\ w.ok /\ w.stack # <<>> /\ ~RegionReadable(disc, Last(w.stack)) /\ ~v.ok
     /\ v.stack = w.stack
     /\ WalkOver(disc, v, Q)

LEMMA VisitNextIs ==
  ASSUME NEW disc, IsImage(disc), NEW w, NEW Q, WalkOver(disc, w, Q)
  PROVE  IsStep(disc, VisitNext(disc, w), w, Q)
<1> DEFINE v == VisitNext(disc, w)
<1>1. CASE ~(w.ok /\ w.stack # <<>>) BY <1>1 DEF VisitNext, IsStep
<1>2. CASE w.ok /\ w.stack # <<>> /\ RegionReadable(disc, Last(w.stack))
  <2>1. v = VisitTable(disc, w) BY <1>2 DEF VisitNext
  <2>2. /\ Last(w.stack) \in Region \ Q
        /\ VisitTable(disc, w).ok = w.ok
        /\ WalkInv(disc, VisitTable(disc, w), Q \cup {Last(w.stack)},
                   NodesOf(disc, Q \cup {Last(w.stack)}))
    BY <1>2, VisitTableInv DEF WalkOver
  <2> QED BY <1>2, <2>1, <2>2 DEF IsStep, WalkOver
<1>3. CASE w.ok /\ w.stack # <<>> /\ ~RegionReadable(disc, Last(w.stack))
  <2>1. v = [w EXCEPT !.ok = FALSE] BY <1>3 DEF VisitNext, VisitTable
  <2>2. w \in WalkSet BY DEF WalkOver, WalkInv
  <2>3. /\ v \in WalkSet /\ v.entries = w.entries /\ v.stack = w.stack
        /\ v.visited = w.visited /\ v.ok = FALSE
    BY <2>1, <2>2 DEF WalkSet
  <2> HIDE DEF v
  <2>4. RegionsApart(disc, v, Q) BY <2>3 DEF WalkOver, WalkInv, RegionsApart
  <2>5. EntriesMatch(disc, v, Q, NodesOf(disc, Q)) BY <2>3 DEF WalkOver, WalkInv, EntriesMatch
  <2>6. VisitedMatch(disc, v, Q) BY <2>3 DEF WalkOver, WalkInv, VisitedMatch
  <2>7. WalkOver(disc, v, Q) BY <2>3, <2>4, <2>5, <2>6 DEF WalkOver, WalkInv
  <2>8. IsStep(disc, v, w, Q) BY <1>3, <2>3, <2>7 DEF IsStep
  <2> QED BY <2>8 DEF v
<1> QED BY <1>1, <1>2, <1>3

LEMMA VisitNextGood ==
  ASSUME NEW disc, IsImage(disc), NEW w \in GoodWalks(disc)
  PROVE  VisitNext(disc, w) \in GoodWalks(disc)
<1>1. PICK Q : WalkOver(disc, w, Q) BY DEF GoodWalks
<1>2. IsStep(disc, VisitNext(disc, w), w, Q) BY <1>1, VisitNextIs
<1>3. \E P : WalkOver(disc, VisitNext(disc, w), P) BY <1>1, <1>2 DEF IsStep
<1> QED BY <1>3 DEF GoodWalks, WalkOver, WalkInv

\* The walks after one step, two steps and so on.
IsWalkRun(run, disc, w, n) ==
  /\ run \in [0 .. n -> GoodWalks(disc)]
  /\ run[0] = w
  /\ \A k \in 1 .. n : run[k] = VisitNext(disc, run[k - 1])

LEMMA WalkRun ==
  ASSUME NEW disc, IsImage(disc), NEW w \in GoodWalks(disc), NEW n \in Nat
  PROVE  \E run : IsWalkRun(run, disc, w, n) /\ VisitTables(disc, w, n) = run[n]
<1> DEFINE S == GoodWalks(disc)
           g == [i \in 1 .. n |-> i]
           H == [k \in 1 .. n |-> [x \in S |-> VisitNext(disc, x)]]
           iter == CHOOSE f : f = [s \in SUBSET (1 .. n) |->
                     IF s = {} THEN w ELSE VisitNext(disc, f[s \ {Max(s)}])]
<1>1. DOMAIN g = 1 .. n OBVIOUS
<1>2. VisitTables(disc, w, n) = iter[1 .. n] BY <1>1 DEF VisitTables, VisitNext, FoldLeft, MapThenFoldSet
<1>3. w \in S /\ \A x \in S : VisitNext(disc, x) \in S BY VisitNextGood
<1> HIDE DEF S
<1>4. /\ H \in [1 .. n -> [S -> S]]
      /\ \A k \in 1 .. n : \A x \in S : H[k][x] = VisitNext(disc, x)
  BY <1>3
<1> HIDE DEF H
<1>5. ASSUME NEW s \in SUBSET (1 .. n), s # {}
      PROVE  s \ {Max(s)} \in SUBSET (1 .. n) /\ Max(s) \in 1 .. n
  BY <1>1, <1>5, MaxOfUpTo
<1>6. PICK F \in [SUBSET (1 .. n) -> S] : IsStepFold(F, w, H, n) BY <1>3, <1>4, StepFoldExists
<1>7. F = [s \in SUBSET (1 .. n) |->
    IF s = {} THEN w ELSE VisitNext(disc, F[s \ {Max(s)}])]
  <2>1. F = [s \in SUBSET (1 .. n) |-> IF s = {} THEN w ELSE H[Max(s)][F[s \ {Max(s)}]]]
    BY <1>6 DEF IsStepFold
  <2>2. \A s \in SUBSET (1 .. n) : (IF s = {} THEN w ELSE H[Max(s)][F[s \ {Max(s)}]])
      = (IF s = {} THEN w ELSE VisitNext(disc, F[s \ {Max(s)}]))
    BY <1>4, <1>5, <1>6
  <2> QED BY <2>1, <2>2
<1>8. iter = [s \in SUBSET (1 .. n) |->
    IF s = {} THEN w ELSE VisitNext(disc, iter[s \ {Max(s)}])]
  BY <1>7
<1> HIDE DEF iter
<1>9. Iterates(iter, w, H, n, S)
  <2>1. iter[{}] = w BY <1>8
  <2>2. ASSUME NEW s \in SUBSET (1 .. n), s # {}, iter[s \ {Max(s)}] \in S
        PROVE  iter[s] = H[Max(s)][iter[s \ {Max(s)}]]
    <3>1. iter[s] = VisitNext(disc, iter[s \ {Max(s)}]) BY <1>8, <2>2
    <3> QED BY <3>1, <1>4, <1>5, <2>2
  <2> QED BY <2>1, <2>2 DEF Iterates
<1>10. PICK run : IsFoldRun(run, w, H, n, S) /\ iter[1 .. n] = run[n]
  BY ONLY <1>3, <1>4, <1>9, n \in Nat, FoldRuns
<1>11. IsWalkRun(run, disc, w, n)
  <2>1. /\ run \in [0 .. n -> S] /\ run[0] = w
        /\ \A k \in 1 .. n : run[k] = H[k][run[k - 1]]
    BY <1>10 DEF IsFoldRun
  <2>2. \A k \in 1 .. n : run[k - 1] \in S
    <3>1. \A k \in 1 .. n : k - 1 \in 0 .. n OBVIOUS
    <3> QED BY <2>1, <3>1
  <2>3. \A k \in 1 .. n : run[k] = VisitNext(disc, run[k - 1]) BY <1>4, <2>1, <2>2
  <2> QED BY <2>1, <2>3 DEF IsWalkRun, S
<1> QED BY <1>2, <1>10, <1>11

-----------------------------------------------------------------------------
(* The walk from the root.                                                   *)

StartWalk(disc) ==
  [entries |-> <<>>, stack |-> <<RootRegion(disc)>>, visited |-> {disc.root.sector}, ok |-> TRUE]

LEMMA StartWalkOver ==
  ASSUME NEW disc, IsImage(disc), disc.root.size # 0
  PROVE  WalkOver(disc, StartWalk(disc), {})
<1> DEFINE w == StartWalk(disc)
           r == RootRegion(disc)
<1>1. disc.root.sector \in Nat /\ disc.root.size \in Nat BY DEF IsImage
<1>2. r \in Region /\ r.sector = disc.root.sector
  <2>1. <<>> \in Seq(Name) OBVIOUS
  <2> QED BY <1>1, <2>1 DEF Region, RootRegion
<1> HIDE DEF r
<1>3. <<r>> \in Seq(Region) /\ DOMAIN <<r>> = {1} /\ <<r>>[1] = r BY <1>2
<1>4. <<>> \in Seq(Entry) /\ DOMAIN <<>> = {} OBVIOUS
<1>5. /\ w.entries = <<>> /\ w.stack = <<r>> /\ w.visited = {disc.root.sector} /\ w.ok
      /\ w \in WalkSet
  BY <1>1, <1>3, <1>4 DEF StartWalk, WalkSet, r
<1> HIDE DEF w
<1>6. Range(w.stack) = {r} /\ Range(w.entries) = {} BY <1>3, <1>4, <1>5 DEF Range
<1>7. RegionsApart(disc, w, {}) BY <1>3, <1>5 DEF RegionsApart
<1>8. NodesOf(disc, {}) = {} BY DEF NodesOf
<1>9. EntriesMatch(disc, w, {}, {}) BY <1>4, <1>5, <1>6, <1>8 DEF EntriesMatch, DistinctPaths, r
<1>10. VisitedMatch(disc, w, {}) BY <1>2, <1>5, <1>6 DEF VisitedMatch, IsClosed
<1> QED BY <1>5, <1>7, <1>8, <1>9, <1>10 DEF WalkOver, WalkInv, w

\* After i steps, as long as there is a table to visit, i have been; the walk
\* fails with the table it cannot read.
OuterInv(disc, w, Q, i) ==
  /\ WalkOver(disc, w, Q)
  /\ \A q \in Q : RegionReadable(disc, q)
  /\ IsFiniteSet(Q)
  /\ w.ok /\ w.stack # <<>> => Cardinality(Q) = i
  /\ ~w.ok => w.stack # <<>> /\ ~RegionReadable(disc, Last(w.stack))

LEMMA OuterStep ==
  ASSUME NEW disc, IsImage(disc), NEW w, NEW Q, NEW i \in Nat, OuterInv(disc, w, Q, i)
  PROVE  \E P : OuterInv(disc, VisitNext(disc, w), P, i + 1)
<1> DEFINE v == VisitNext(disc, w)
           r == Last(w.stack)
<1>1. IsStep(disc, v, w, Q) BY VisitNextIs DEF OuterInv
<1> HIDE DEF v
<1>2. CASE v = w /\ ~(w.ok /\ w.stack # <<>>) BY <1>2 DEF OuterInv, v
<1>3. CASE /\ w.ok /\ w.stack # <<>> /\ RegionReadable(disc, r) /\ v.ok
           /\ r \in Region \ Q
           /\ WalkOver(disc, v, Q \cup {r})
  <2>1. IsFiniteSet(Q) /\ Cardinality(Q) = i BY <1>3 DEF OuterInv
  <2> HIDE DEF r
  <2>2. IsFiniteSet(Q \cup {r}) /\ Cardinality(Q \cup {r}) = i + 1 BY <1>3, <2>1, FS_AddElement
  <2>3. OuterInv(disc, v, Q \cup {r}, i + 1) BY <1>3, <2>2 DEF OuterInv
  <2> QED BY <2>3 DEF v
<1>4. CASE /\ w.ok /\ w.stack # <<>> /\ ~RegionReadable(disc, r) /\ ~v.ok
           /\ v.stack = w.stack
           /\ WalkOver(disc, v, Q)
  <2>1. OuterInv(disc, v, Q, i + 1) BY <1>4 DEF OuterInv
  <2> QED BY <2>1 DEF v
<1> QED BY <1>1, <1>2, <1>3, <1>4 DEF IsStep

\* The walk ends: it has visited tables that can be read, and all it found,
\* or has met one that cannot.
WalkEnds(disc, w, Q) ==
  /\ WalkOver(disc, w, Q)
  /\ \A q \in Q : RegionReadable(disc, q)
  /\ w.ok => w.stack = <<>>
  /\ ~w.ok => w.stack # <<>> /\ ~RegionReadable(disc, Last(w.stack))

LEMMA ReadRootEnds ==
  ASSUME NEW disc, IsImage(disc), disc.root.size # 0
  PROVE  \E Q : WalkEnds(disc, ReadRoot(disc), Q)
<1> DEFINE T == DOMAIN disc.tables
           n == Cardinality(T) + 1
           w == StartWalk(disc)
<1>1. IsFiniteSet(T) /\ Cardinality(T) \in Nat /\ n \in Nat BY FS_CardinalityType DEF IsImage
<1>2. ReadRoot(disc) = VisitTables(disc, w, n) BY DEF ReadRoot, StartWalk, RootRegion
<1>3. WalkOver(disc, w, {}) /\ w \in GoodWalks(disc) BY StartWalkOver DEF GoodWalks, WalkOver, WalkInv
<1>4. w.ok BY DEF StartWalk
<1> HIDE DEF w, n
<1>5. PICK run : IsWalkRun(run, disc, w, n) /\ VisitTables(disc, w, n) = run[n] BY <1>1, <1>3, WalkRun
<1>6. run[0] = w /\ \A k \in 1 .. n : run[k] = VisitNext(disc, run[k - 1]) BY <1>5 DEF IsWalkRun
<1> DEFINE D == {k \in Nat : k <= n => \E Q : OuterInv(disc, run[k], Q, k)}
<1>7. 0 \in D
  <2>1. OuterInv(disc, w, {}, 0) BY <1>3, <1>4, FS_EmptySet DEF OuterInv
  <2> QED BY <1>6, <2>1
<1>8. ASSUME NEW k \in Nat, k \in D PROVE k + 1 \in D
  <2> SUFFICES ASSUME k + 1 <= n PROVE \E Q : OuterInv(disc, run[k + 1], Q, k + 1) OBVIOUS
  <2>1. k + 1 \in 1 .. n /\ (k + 1) - 1 = k /\ k <= n BY <1>1
  <2>2. PICK Q : OuterInv(disc, run[k], Q, k) BY <1>8, <2>1
  <2>3. run[k + 1] = VisitNext(disc, run[k]) BY <1>6, <2>1
  <2> QED BY <2>2, <2>3, OuterStep
<1> HIDE DEF D
<1>9. n \in D BY <1>1, <1>7, <1>8, NatInduct
<1>10. PICK Q : OuterInv(disc, run[n], Q, n) BY <1>1, <1>9 DEF D
<1>11. Cardinality(Q) <= Cardinality(T)
  <2> DEFINE f == [q \in Q |-> q.sector]
  <2>1. /\ \A q \in Q : q.sector \in T
        /\ \A p, q \in Q : p.sector = q.sector => p = q
    BY <1>10 DEF OuterInv, WalkOver, WalkInv, RegionsApart
  <2>2. f \in Injection(Q, T) BY <2>1 DEF Injection, IsInjective
  <2> HIDE DEF f
  <2> QED BY <1>1, <2>2, FS_Injection
<1>12. Cardinality(Q) # n
  <2>1. Cardinality(Q) \in Nat BY <1>10, FS_CardinalityType DEF OuterInv
  <2> QED BY <1>1, <1>11, <2>1 DEF n
<1>13. WalkEnds(disc, run[n], Q) BY <1>10, <1>12 DEF OuterInv, WalkEnds
<1> QED BY <1>2, <1>5, <1>13

-----------------------------------------------------------------------------
(* The walk is complete.                                                     *)

\* An entry of the walk is that of a node of a table that has been visited.
IsEntryOf(disc, e, q, node) ==
  /\ q \in Region /\ q.sector \in DOMAIN disc.tables
  /\ node \in Range(disc.tables[q.sector]) /\ node \in Node
  /\ e = DirectoryEntry(q.path, node)
  /\ Front(e.path) = q.path /\ Last(e.path) = node.name /\ e.path # <<>>
  /\ e.is_directory = node.is_directory /\ e.sector = node.sector /\ e.size = node.size

LEMMA NodeEntry ==
  ASSUME NEW disc, IsImage(disc), NEW q \in Region, q.sector \in DOMAIN disc.tables,
         NEW node \in Range(disc.tables[q.sector])
  PROVE  IsEntryOf(disc, DirectoryEntry(q.path, node), q, node)
<1>1. node \in Node
  <2>1. disc.tables[q.sector] \in Seq(Node) BY ImageTables
  <2> QED BY <2>1, SeqIsSequence DEF Range
<1>2. node.name \in Name /\ q.path \in Seq(Name) BY <1>1 DEF Node, Region
<1> DEFINE e == DirectoryEntry(q.path, node)
<1>3. /\ e.path = Append(q.path, node.name) /\ e.is_directory = node.is_directory
      /\ e.sector = node.sector /\ e.size = node.size
  BY DEF DirectoryEntry
<1>4. /\ Append(q.path, node.name) # <<>> /\ Front(Append(q.path, node.name)) = q.path
      /\ Last(Append(q.path, node.name)) = node.name
  BY <1>2, AppendedPath
<1> HIDE DEF e
<1>5. IsEntryOf(disc, e, q, node) BY <1>1, <1>3, <1>4 DEF IsEntryOf, e
<1> QED BY <1>5 DEF e

LEMMA WalkEntries ==
  ASSUME NEW disc, IsImage(disc), NEW w, NEW Q, WalkOver(disc, w, Q)
  PROVE  /\ \A e \in Range(w.entries) : \E q \in Q : \E node \in Range(disc.tables[q.sector]) :
              IsEntryOf(disc, e, q, node)
         /\ \A q \in Q : \A node \in Range(disc.tables[q.sector]) :
              DirectoryEntry(q.path, node) \in Range(w.entries)
<1>1. /\ Range(w.entries) = {EntryAt(disc, x) : x \in NodesOf(disc, Q)}
      /\ Q \in SUBSET Region /\ \A q \in Q : q.sector \in DOMAIN disc.tables
  BY DEF WalkOver, WalkInv, EntriesMatch, RegionsApart
<1>2. ASSUME NEW e \in Range(w.entries)
      PROVE  \E q \in Q : \E node \in Range(disc.tables[q.sector]) : IsEntryOf(disc, e, q, node)
  <2>1. PICK x \in NodesOf(disc, Q) : e = EntryAt(disc, x) BY <1>1
  <2> DEFINE q == x[1]
             node == disc.tables[q.sector][x[2]]
  <2>2. q \in Q /\ x[2] \in DOMAIN disc.tables[q.sector] BY DEF NodesOf
  <2>3. e = DirectoryEntry(q.path, node) BY <2>1 DEF EntryAt
  <2>4. node \in Range(disc.tables[q.sector]) BY <2>2 DEF Range
  <2> HIDE DEF q, node
  <2>5. IsEntryOf(disc, e, q, node) BY <1>1, <2>2, <2>3, <2>4, NodeEntry
  <2> QED BY <2>2, <2>4, <2>5
<1>3. ASSUME NEW q \in Q, NEW node \in Range(disc.tables[q.sector])
      PROVE  DirectoryEntry(q.path, node) \in Range(w.entries)
  <2>1. disc.tables[q.sector] \in Seq(Node) BY <1>1, ImageTables
  <2>2. PICK j \in DOMAIN disc.tables[q.sector] : node = disc.tables[q.sector][j] BY DEF Range
  <2>3. j \in Nat BY <2>1, SeqIsSequence DEF HasLen
  <2>4. <<q, j>> \in NodesOf(disc, Q) BY <2>2, <2>3 DEF NodesOf
  <2>5. EntryAt(disc, <<q, j>>) = DirectoryEntry(q.path, node) BY <2>2 DEF EntryAt
  <2> QED BY <1>1, <2>4, <2>5
<1> QED BY <1>2, <1>3

\* The sectors a table may be at, of which those that can be reached are a part.
KnownSectors(disc) ==
  {disc.root.sector} \cup {node.sector : node \in Subdirectories(disc, DOMAIN disc.tables)}

LEMMA ReachedIs ==
  ASSUME NEW disc, IsImage(disc)
  PROVE  /\ KnownSectors(disc) \subseteq Nat
         /\ ReachedTables(disc) \subseteq KnownSectors(disc)
         /\ \A S \in SUBSET KnownSectors(disc) : IsClosed(disc, S) => ReachedTables(disc) \subseteq S
         /\ \A s \in KnownSectors(disc) :
              (\A S \in SUBSET KnownSectors(disc) : IsClosed(disc, S) => s \in S)
                => s \in ReachedTables(disc)
<1>1. KnownSectors(disc) \subseteq Nat
  <2>1. ASSUME NEW node \in Subdirectories(disc, DOMAIN disc.tables) PROVE node.sector \in Nat
    <3>1. PICK s \in DOMAIN disc.tables : node \in Range(disc.tables[s]) BY DEF Subdirectories
    <3>2. node \in Node BY <3>1, ImageTables, SeqIsSequence DEF Range
    <3> QED BY <3>2 DEF Node
  <2> QED BY <2>1 DEF KnownSectors, IsImage
<1> QED BY <1>1 DEF ReachedTables, KnownSectors

\* What the walk has visited can be reached, under a size it is named with and,
\* of the listing, a directory that names it.
LEMMA VisitedReached ==
  ASSUME NEW disc, IsImage(disc), disc.root.size # 0, NEW w, NEW Q, WalkOver(disc, w, Q),
         NEW r \in Q \cup Range(w.stack)
  PROVE  /\ r.sector \in ReachedTables(disc)
         /\ r.size \in NamedSizes(disc, r.sector)
         /\ r.path \in DirsAt(disc, w, r.sector)
<1>1. /\ w.visited = {q.sector : q \in Q \cup Range(w.stack)}
      /\ \A C \in SUBSET Nat : IsClosed(disc, C) => w.visited \subseteq C
  BY DEF WalkOver, WalkInv, VisitedMatch
<1>2. \A q \in Q \cup Range(w.stack) :
    q = RootRegion(disc) \/ \E e \in Range(w.entries) : Names(e, q)
  BY DEF WalkOver, WalkInv, EntriesMatch
<1>3. ASSUME NEW q \in Q \cup Range(w.stack)
      PROVE  q.sector \in ReachedTables(disc)
  <2>1. q.sector \in KnownSectors(disc)
    <3>1. CASE q = RootRegion(disc) BY <3>1 DEF RootRegion, KnownSectors
    <3>2. CASE \E e \in Range(w.entries) : Names(e, q)
      <4>1. PICK e \in Range(w.entries) : Names(e, q) BY <3>2
      <4>2. PICK p \in Q : \E node \in Range(disc.tables[p.sector]) : IsEntryOf(disc, e, p, node)
        BY <4>1, WalkEntries
      <4>3. PICK node \in Range(disc.tables[p.sector]) : IsEntryOf(disc, e, p, node) BY <4>2
      <4>4. node \in Subdirectories(disc, DOMAIN disc.tables) /\ node.sector = q.sector
        BY <4>1, <4>3 DEF Names, IsEntryOf, Subdirectories
      <4> QED BY <4>4 DEF KnownSectors
    <3> QED BY <1>2, <3>1, <3>2
  <2>2. q.sector \in w.visited BY <1>1
  <2> QED BY <1>1, <2>1, <2>2, ReachedIs
<1>4. CASE r = RootRegion(disc) BY <1>3, <1>4 DEF RootRegion, NamedSizes, DirsAt, IfRoot
<1>5. CASE \E e \in Range(w.entries) : Names(e, r)
  <2>1. PICK e \in Range(w.entries) : Names(e, r) BY <1>5
  <2>2. PICK p \in Q : \E node \in Range(disc.tables[p.sector]) : IsEntryOf(disc, e, p, node)
    BY <2>1, WalkEntries
  <2>3. PICK node \in Range(disc.tables[p.sector]) : IsEntryOf(disc, e, p, node) BY <2>2
  <2>4. p.sector \in ReachedTables(disc) BY <1>3
  <2>5. /\ node \in Subdirectories(disc, ReachedTables(disc))
        /\ node.sector = r.sector /\ node.size = r.size
    BY <2>1, <2>3, <2>4 DEF Names, IsEntryOf, Subdirectories
  <2>6. r.size \in NamedSizes(disc, r.sector) BY <2>5 DEF NamedSizes
  <2>7. r.path \in DirsAt(disc, w, r.sector) BY <2>1 DEF DirsAt, Names
  <2> QED BY <1>3, <2>6, <2>7
<1> QED BY <1>2, <1>4, <1>5

\* A walk that ends well has visited all that can be reached.
LEMMA ReachedVisited ==
  ASSUME NEW disc, IsImage(disc), disc.root.size # 0, NEW w, NEW Q, WalkOver(disc, w, Q),
         w.stack = <<>>
  PROVE  \A s \in ReachedTables(disc) : \E q \in Q : q.sector = s
<1>1. Range(w.stack) = {} BY DEF Range
<1>2. /\ w.visited = {q.sector : q \in Q} /\ disc.root.sector \in w.visited
      /\ \A e \in Range(w.entries) : e.is_directory /\ e.size # 0 => e.sector \in w.visited
  BY <1>1 DEF WalkOver, WalkInv, VisitedMatch
<1>3. w.visited \subseteq KnownSectors(disc) BY <1>2, VisitedReached, ReachedIs
<1>4. ASSUME NEW node \in Subdirectories(disc, w.visited) PROVE node.sector \in w.visited
  <2>1. PICK q \in Q : node \in Range(disc.tables[q.sector]) /\ q.sector \in DOMAIN disc.tables
    BY <1>2 DEF Subdirectories
  <2>2. DirectoryEntry(q.path, node) \in Range(w.entries) BY <2>1, WalkEntries
  <2>3. node.is_directory /\ node.size # 0 BY DEF Subdirectories
  <2> QED BY <1>2, <2>2, <2>3 DEF DirectoryEntry
<1>5. IsClosed(disc, w.visited) BY <1>2, <1>4 DEF IsClosed
<1>6. ReachedTables(disc) \subseteq w.visited BY <1>3, <1>5, ReachedIs
<1> QED BY <1>2, <1>6

\* The directory that a table was visited under has its nodes, the other ones
\* that name it have none.
LEMMA FoundNodes ==
  ASSUME NEW disc, IsImage(disc), NEW w, NEW Q, WalkOver(disc, w, Q), NEW q \in Q
  PROVE  /\ FoundIn(w, q.path) = Range(disc.tables[q.sector])
         /\ \A other \in DirsAt(disc, w, q.sector) \ {q.path} : FoundIn(w, other) = {}
<1>1. /\ Q \in SUBSET Region /\ \A p \in Q : p.sector \in DOMAIN disc.tables
      /\ \A a, b \in Q : a.path = b.path \/ a.sector = b.sector => a = b
  BY DEF WalkOver, WalkInv, RegionsApart
<1>2. /\ DistinctPaths(w.entries)
      /\ \A r \in Q \cup Range(w.stack) :
           r = RootRegion(disc) \/ \E e \in Range(w.entries) : Names(e, r)
  BY DEF WalkOver, WalkInv, EntriesMatch
<1> DEFINE rec(e) == [name |-> Last(e.path), is_directory |-> e.is_directory,
                      sector |-> e.sector, size |-> e.size]
<1>3. ASSUME NEW e, NEW p, NEW node, IsEntryOf(disc, e, p, node)
      PROVE  rec(e) = node
  BY <1>3 DEF IsEntryOf, Node
<1>4. ASSUME NEW e \in Range(w.entries), Front(e.path) = q.path
      PROVE  rec(e) \in Range(disc.tables[q.sector])
  <2>1. PICK p \in Q : \E node \in Range(disc.tables[p.sector]) : IsEntryOf(disc, e, p, node)
    BY WalkEntries
  <2>2. PICK node \in Range(disc.tables[p.sector]) : IsEntryOf(disc, e, p, node) BY <2>1
  <2>3. p = q BY <1>1, <1>4, <2>2 DEF IsEntryOf
  <2> QED BY <1>3, <2>2, <2>3
<1>5. ASSUME NEW node \in Range(disc.tables[q.sector])
      PROVE  \E e \in {x \in Range(w.entries) : Front(x.path) = q.path} : node = rec(e)
  <2> DEFINE e == DirectoryEntry(q.path, node)
  <2>1. e \in Range(w.entries) BY WalkEntries
  <2>2. IsEntryOf(disc, e, q, node) BY <1>1, NodeEntry
  <2> HIDE DEF e
  <2>3. Front(e.path) = q.path /\ rec(e) = node BY <1>3, <2>2 DEF IsEntryOf
  <2> QED BY <2>1, <2>3
<1>6. FoundIn(w, q.path) = Range(disc.tables[q.sector])
  <2>1. FoundIn(w, q.path) = {rec(e) : e \in {x \in Range(w.entries) : Front(x.path) = q.path}}
    BY DEF FoundIn
  <2> HIDE DEF rec
  <2> QED BY <1>4, <1>5, <2>1
<1>7. ASSUME NEW other \in DirsAt(disc, w, q.sector) \ {q.path}, NEW e \in Range(w.entries),
             Front(e.path) = other
      PROVE  FALSE
  <2>1. PICK p \in Q : \E node \in Range(disc.tables[p.sector]) : IsEntryOf(disc, e, p, node)
    BY WalkEntries
  <2>2. PICK node \in Range(disc.tables[p.sector]) : IsEntryOf(disc, e, p, node) BY <2>1
  <2>3. p.path = other BY <1>7, <2>2 DEF IsEntryOf
  <2>4. p.sector # q.sector BY <1>1, <1>7, <2>3
  <2>5. \A y \in Range(w.entries) : y.path # <<>> BY WalkEntries DEF IsEntryOf
  <2>6. \A y, z \in Range(w.entries) : y.path = z.path => y = z BY <1>2 DEF DistinctPaths, Range
  <2>7. \/ other = <<>> /\ q.sector = disc.root.sector
        \/ \E y \in Range(w.entries) : y.sector = q.sector /\ y.path = other
    BY <1>7 DEF DirsAt, IfRoot
  <2>8. CASE p = RootRegion(disc)
    <3>1. p.sector = disc.root.sector /\ other = <<>> BY <2>3, <2>8 DEF RootRegion
    <3> QED BY <3>1, <2>4, <2>5, <2>7
  <2>9. CASE \E y \in Range(w.entries) : Names(y, p)
    <3>1. PICK y \in Range(w.entries) : Names(y, p) BY <2>9
    <3>2. y.path = other /\ y.sector = p.sector BY <3>1, <2>3 DEF Names
    <3> QED BY <3>2, <2>4, <2>5, <2>6, <2>7
  <2> QED BY <1>2, <2>8, <2>9
<1> QED BY <1>6, <1>7 DEF FoundIn

\* A region's readability is that of its sector and size.
LEMMA ReadableAt ==
  ASSUME NEW disc, NEW r
  PROVE  RegionReadable(disc, [sector |-> r.sector, size |-> r.size]) <=> RegionReadable(disc, r)
BY DEF RegionReadable

\* The walk over the directory tables of every image is complete.
THEOREM WalkComplete ==
  ASSUME IsImage(image)
  PROVE  WalkIsComplete
<1> DEFINE w == ReadRoot(image)
           R == ReachedTables(image)
           Readable(sector, size) == RegionReadable(image, [sector |-> sector, size |-> size])
           Complete ==
             /\ w.ok => w.stack = <<>>
             /\ (\A sector \in R : \A size \in NamedSizes(image, sector) :
                   Readable(sector, size)) => w.ok
             /\ w.ok =>
                  /\ \A sector \in R :
                       /\ \E size \in NamedSizes(image, sector) : Readable(sector, size)
                       /\ \E dir \in DirsAt(image, w, sector) :
                            /\ FoundIn(w, dir) = Range(image.tables[sector])
                            /\ \A other \in DirsAt(image, w, sector) \ {dir} : FoundIn(w, other) = {}
                  /\ \A e \in Range(w.entries) : \E sector \in R :
                       Front(e.path) \in DirsAt(image, w, sector)
                  /\ \A i, j \in DOMAIN w.entries : w.entries[i].path = w.entries[j].path => i = j
<1> SUFFICES Complete BY DEF WalkIsComplete
<1>1. CASE image.root.size = 0
  <2>1. w.entries = <<>> /\ w.stack = <<>> /\ w.ok BY <1>1 DEF ReadRoot
  <2>2. R = {}
    <3>1. {} \in SUBSET KnownSectors(image) /\ IsClosed(image, {}) BY <1>1 DEF IsClosed, Subdirectories
    <3> QED BY <3>1, ReachedIs
  <2>3. Range(<<>>) = {} /\ DOMAIN <<>> = {} BY DEF Range
  <2> HIDE DEF w, R
  <2> QED BY <2>1, <2>2, <2>3
<1>2. CASE image.root.size # 0
  <2>1. PICK Q : WalkEnds(image, w, Q) BY <1>2, ReadRootEnds
  <2> HIDE DEF w
  <2>2. /\ WalkOver(image, w, Q) /\ \A q \in Q : RegionReadable(image, q)
        /\ w.ok => w.stack = <<>>
        /\ ~w.ok => w.stack # <<>> /\ ~RegionReadable(image, Last(w.stack))
    BY <2>1 DEF WalkEnds
  <2>3. \A r \in Q \cup Range(w.stack) :
      /\ r.sector \in R /\ r.size \in NamedSizes(image, r.sector)
      /\ r.path \in DirsAt(image, w, r.sector)
    BY <1>2, <2>2, VisitedReached
  <2> HIDE DEF R
  <2>4. ASSUME ~w.ok
        PROVE  \E sector \in R : \E size \in NamedSizes(image, sector) : ~Readable(sector, size)
    <3>1. w.stack \in Seq(Region) /\ w.stack # <<>> BY <2>2, <2>4 DEF WalkOver, WalkInv, WalkSet
    <3>2. Last(w.stack) \in Range(w.stack) BY <3>1, PoppedStack
    <3>3. ~Readable(Last(w.stack).sector, Last(w.stack).size) BY <2>2, <2>4, ReadableAt
    <3> QED BY <2>3, <3>2, <3>3
  <2>5. ASSUME w.ok, NEW sector \in R
        PROVE  /\ \E size \in NamedSizes(image, sector) : Readable(sector, size)
               /\ \E dir \in DirsAt(image, w, sector) :
                    /\ FoundIn(w, dir) = Range(image.tables[sector])
                    /\ \A other \in DirsAt(image, w, sector) \ {dir} : FoundIn(w, other) = {}
    <3>1. PICK q \in Q : q.sector = sector BY <1>2, <2>2, <2>5, ReachedVisited DEF R
    <3>2. Readable(sector, q.size) BY <2>2, <3>1, ReadableAt
    <3>3. /\ FoundIn(w, q.path) = Range(image.tables[sector])
          /\ \A other \in DirsAt(image, w, sector) \ {q.path} : FoundIn(w, other) = {}
      BY <2>2, <3>1, FoundNodes
    <3> QED BY <2>3, <3>1, <3>2, <3>3
  <2>6. ASSUME NEW e \in Range(w.entries)
        PROVE  \E sector \in R : Front(e.path) \in DirsAt(image, w, sector)
    <3>1. PICK q \in Q : \E node \in Range(image.tables[q.sector]) : IsEntryOf(image, e, q, node)
      BY <2>2, WalkEntries
    <3>2. Front(e.path) = q.path BY <3>1 DEF IsEntryOf
    <3> QED BY <2>3, <3>2
  <2>7. \A i, j \in DOMAIN w.entries : w.entries[i].path = w.entries[j].path => i = j
    BY <2>2 DEF WalkOver, WalkInv, EntriesMatch, DistinctPaths
  <2> HIDE DEF Readable
  <2> QED BY <2>2, <2>4, <2>5, <2>6, <2>7
<1> QED BY <1>1, <1>2

-----------------------------------------------------------------------------
(* What a probe finds on a disc.                                             *)

\* The first position that passes a test.
LEMMA SelectedIs ==
  ASSUME NEW n \in Nat, NEW I \in SUBSET (1 .. n), NEW x, x = IF I # {} THEN Min(I) ELSE 0
  PROVE  /\ x \in 0 .. n
         /\ x # 0 => x \in I
         /\ x = 0 => I = {}
<1>1. I # {} => Min(I) \in I
  <2>1. ASSUME I # {} PROVE Min(I) \in I
    <3>1. I \in SUBSET Int /\ 1 \in Int /\ \A y \in I : 1 <= y OBVIOUS
    <3> QED BY ONLY <2>1, <3>1, IntMin
  <2> QED BY <2>1
<1>2. CASE I = {}
  <2>1. x = 0 BY <1>2
  <2> QED BY <1>2, <2>1
<1>3. CASE I # {}
  <2>1. x = Min(I) /\ x \in I BY <1>1, <1>3
  <2>2. x \in 1 .. n BY <2>1
  <2> QED BY <1>3, <2>1, <2>2
<1> QED BY <1>2, <1>3

LEMMA TypeFound ==
  ASSUME NEW disc, IsoType(disc) # NoType
  PROVE  IsoType(disc) \in DOMAIN RootOffset /\ HasVolume(disc, IsoType(disc))
<1> DEFINE Test(type) == HasVolume(disc, type)
           I == {i \in 1 .. Len(ProbeOrder) : Test(ProbeOrder[i])}
           at == SelectInSeq(ProbeOrder, Test)
<1>1. Len(ProbeOrder) = 4 /\ \A i \in 1 .. 4 : ProbeOrder[i] \in DOMAIN RootOffset
  BY XdvdfsAssumption DEF ProbeOrder
<1>2. at = IF I # {} THEN Min(I) ELSE 0 BY DEF SelectInSeq
<1>3. I \in SUBSET (1 .. 4) BY <1>1
<1> HIDE DEF I, at
<1>4. at # 0 => at \in I BY <1>2, <1>3, SelectedIs
<1>5. at # 0 /\ IsoType(disc) = ProbeOrder[at] BY DEF IsoType, at
<1> QED BY <1>1, <1>3, <1>4, <1>5 DEF I

\* What a reader sees is an image.
LEMMA StreamIsImage ==
  ASSUME NEW disc \in Images, IsoType(disc) # NoType
  PROVE  IsImage(Stream(disc)) /\ ImageOffset(disc) \in Nat
<1> DEFINE o == ImageOffset(disc)
           length == ((disc.length - o) \div SectorSize) * SectorSize
           magics == {type \in DOMAIN RootOffset : \E known \in disc.magics :
                        RootOffset[known] = o + RootOffset[type]}
           s == Stream(disc)
<1>1. IsImage(disc) /\ disc.container \in {"raw", "packed"} BY ExtractedAssumption
<1>2. o = RootOffset[IsoType(disc)] \/ o = 0 BY <1>1 DEF ImageOffset
<1>3. /\ IsoType(disc) \in DOMAIN RootOffset
      /\ RootOffset[IsoType(disc)] + DescriptorEnd <= disc.length
  BY TypeFound DEF HasVolume
<1>4. o \in Nat /\ DescriptorEnd \in Nat /\ SectorSize \in Nat \ {0} /\ disc.length \in Nat
  BY <1>1, <1>2, <1>3, XdvdfsAssumption DEF IsImage
<1>5. disc.length - o \in Nat BY <1>2, <1>3, <1>4
<1>6. length \in Nat
  <2>1. (disc.length - o) \div SectorSize \in Nat BY <1>4, <1>5, DivBounds
  <2> QED BY <1>4, <2>1
<1>7. {"magics", "length", "root", "tables"} \subseteq DOMAIN disc BY <1>1 DEF IsImage
<1>a. s = [disc EXCEPT !.length = length, !.magics = magics] BY DEF Stream
<1> HIDE DEF s, length, magics
<1>8. /\ s.length = length /\ s.magics = magics /\ s.root = disc.root /\ s.tables = disc.tables
      /\ DOMAIN s = DOMAIN disc
  BY <1>7, <1>a
<1>9. magics \subseteq DOMAIN RootOffset BY DEF magics
<1>10. IsImage(s) BY <1>1, <1>6, <1>8, <1>9 DEF IsImage
<1> QED BY <1>2, <1>4, <1>10 DEF s

\* A probe lists entries under paths of their own.
IsProbe(p, disc) ==
  /\ p.entries \in Seq(Entry)
  /\ DistinctPaths(p.entries)
  /\ p.ok => /\ IsoType(disc) # NoType
             /\ p.offset = ImageOffset(disc) /\ p.offset \in Nat

LEMMA ProbeIs ==
  ASSUME NEW disc \in Images
  PROVE  IsProbe(Probe(disc), disc)
<1> DEFINE p == Probe(disc)
           s == Stream(disc)
           none == [ok |-> FALSE, offset |-> 0, length |-> 0, entries |-> <<>>]
<1>1. <<>> \in Seq(Entry) /\ DistinctPaths(<<>>) BY DEF DistinctPaths
<1>2. CASE IsoType(disc) = NoType \/ IsoType(s) = NoType
  <2>1. p = none BY <1>2 DEF Probe
  <2>2. ~none.ok /\ none.entries = <<>> OBVIOUS
  <2> HIDE DEF p, none
  <2>3. IsProbe(p, disc) BY <1>1, <2>1, <2>2 DEF IsProbe
  <2> QED BY <2>3 DEF p
<1>3. CASE ~(IsoType(disc) = NoType \/ IsoType(s) = NoType)
  <2> DEFINE w == ReadRoot(s)
  <2>1. /\ p.ok = w.ok /\ p.entries = w.entries /\ p.offset = ImageOffset(disc) BY <1>3 DEF Probe
  <2>2. IsImage(s) /\ ImageOffset(disc) \in Nat BY <1>3, StreamIsImage
  <2> HIDE DEF s
  <2>3. w.entries \in Seq(Entry) /\ DistinctPaths(w.entries)
    <3>1. CASE s.root.size = 0
      <4>1. w.entries = <<>> BY <3>1 DEF ReadRoot
      <4> QED BY <1>1, <4>1
    <3>2. CASE s.root.size # 0
      <4>1. PICK Q : WalkEnds(s, w, Q) BY <2>2, <3>2, ReadRootEnds
      <4> HIDE DEF w
      <4> QED BY <4>1 DEF WalkEnds, WalkOver, WalkInv, WalkSet, EntriesMatch
    <3> QED BY <3>1, <3>2
  <2> HIDE DEF p, w
  <2>4. IsProbe(p, disc) BY <1>3, <2>1, <2>2, <2>3 DEF IsProbe
  <2> QED BY <2>4 DEF p
<1> QED BY <1>2, <1>3

LEMMA NoImageProbe == ~Probe(NoImage).ok /\ NoImage \notin Images
<1>1. IsoType(NoImage) = NoType
  <2>1. NoImage.magics = {} BY DEF NoImage
  <2>2. IsoType(NoImage) # NoType => HasVolume(NoImage, IsoType(NoImage)) BY TypeFound
  <2> QED BY <2>1, <2>2 DEF HasVolume
<1>2. NoImage.container = "none" BY DEF NoImage
<1> QED BY <1>1, <1>2, ExtractedAssumption DEF Probe

-----------------------------------------------------------------------------
(* What a session hands over.                                                *)

SessionFile == [path : Seq(Name) \ {<<>>}, size : Nat, image_offset : Nat, fs_index : Nat]

\* A file of the view, or of the disc.
GoodFile(f) ==
  IF image = NoImage
  THEN /\ f.fs_index \in DOMAIN parts
       /\ f.path = parts[f.fs_index].path /\ f.size = parts[f.fs_index].size
       /\ f.image_offset = 0
  ELSE /\ f.fs_index = 0
       /\ \E e \in Range(probed.entries) :
            /\ f.path = e.path /\ f.size = e.size
            /\ f.image_offset = probed.offset + e.sector * SectorSize

GoodFiles == {f \in SessionFile : GoodFile(f)}

\* Where the files come from: a view, or a probe.
SourceOK ==
  /\ probed = Probe(image)
  /\ IF image = NoImage
     THEN parts \in Seq(ListedFile) /\ backing \in {"parts", "package", "none"}
     ELSE /\ image \in Images
          /\ parts = <<>> /\ backing = "none" /\ overrides = {} /\ active = 0 /\ answer = NoAnswer
  /\ active \in 0 .. Len(parts)
  /\ overrides \subseteq DOMAIN parts
  /\ phase \in {"new", "open", "refused", "streaming"}
  /\ phase \in {"open", "streaming"} =>
       IF image = NoImage THEN backing # "none" ELSE probed.ok

LEMMA PartsAre ==
  ASSUME parts \in Seq(ListedFile)
  PROVE  /\ HasLen(parts, Len(parts)) /\ DOMAIN parts = 1 .. Len(parts) /\ Len(parts) \in Nat
         /\ \A i \in DOMAIN parts : /\ parts[i].path \in Seq(Name) \ {<<>>}
                                    /\ parts[i].size \in Nat
         /\ HasLen(FileEntries, Len(parts)) /\ Len(FileEntries) = Len(parts)
         /\ DOMAIN FileEntries = DOMAIN parts
         /\ \A i \in DOMAIN parts : /\ FileEntries[i].path = parts[i].path
                                    /\ FileEntries[i].size = parts[i].size
<1>1. /\ HasLen(parts, Len(parts)) /\ DOMAIN parts = 1 .. Len(parts)
      /\ \A i \in 1 .. Len(parts) : parts[i] \in ListedFile
  BY SeqIsSequence
<1>2. Len(parts) \in Nat BY <1>1 DEF HasLen
<1>3. \A i \in DOMAIN parts : parts[i].path \in Seq(Name) \ {<<>>} /\ parts[i].size \in Nat
  BY <1>1 DEF ListedFile, Name
<1>4. /\ DOMAIN FileEntries = DOMAIN parts
      /\ \A i \in DOMAIN parts : /\ FileEntries[i].path = parts[i].path
                                 /\ FileEntries[i].size = parts[i].size
  BY DEF FileEntries, Normalize
<1>5. FileEntries = [i \in DOMAIN parts |-> FileEntries[i]] BY DEF FileEntries
<1>6. HasLen(FileEntries, Len(parts)) BY <1>1, <1>2, <1>5 DEF HasLen
<1>7. Len(FileEntries) = Len(parts) BY <1>6, SequenceLength
<1> QED BY <1>1, <1>2, <1>3, <1>4, <1>6, <1>7

\* A sequence of files, those of a view in the order of its listing.
IsListing(s) == s \in Seq(GoodFiles) /\ (image = NoImage => InOrder(s))

LEMMA FsFilesListed ==
  ASSUME image = NoImage, parts \in Seq(ListedFile)
  PROVE  IsListing(FsFiles)
<1> DEFINE n == Len(parts)
           s == FsFiles
<1>1. /\ DOMAIN parts = 1 .. n /\ n \in Nat
      /\ \A i \in DOMAIN parts : parts[i].path \in Seq(Name) \ {<<>>} /\ parts[i].size \in Nat
      /\ DOMAIN FileEntries = DOMAIN parts
      /\ \A i \in DOMAIN parts : /\ FileEntries[i].path = parts[i].path
                                 /\ FileEntries[i].size = parts[i].size
  BY PartsAre
<1> HIDE DEF n
<1>2. s = [i \in 1 .. n |-> [path |-> FileEntries[i].path, size |-> FileEntries[i].size,
    image_offset |-> 0, fs_index |-> i]]
  BY <1>1 DEF FsFiles
<1> HIDE DEF s
<1>3. ASSUME NEW i \in 1 .. n
      PROVE  s[i] \in GoodFiles /\ s[i].fs_index = i
  <2>1. /\ s[i] = [path |-> s[i].path, size |-> s[i].size, image_offset |-> s[i].image_offset,
                   fs_index |-> s[i].fs_index]
        /\ s[i].path = FileEntries[i].path /\ s[i].size = FileEntries[i].size
        /\ s[i].image_offset = 0 /\ s[i].fs_index = i
    BY <1>2
  <2>2. s[i].path \in Seq(Name) \ {<<>>} /\ s[i].size \in Nat /\ i \in Nat BY <1>1, <2>1
  <2>3. s[i] \in SessionFile BY <2>1, <2>2 DEF SessionFile
  <2>4. GoodFile(s[i]) BY <1>1, <2>1 DEF GoodFile
  <2> QED BY <2>1, <2>3, <2>4 DEF GoodFiles
<1>4. HasLen(s, n) /\ DOMAIN s = 1 .. n BY <1>1, <1>2 DEF HasLen
<1>5. s \in Seq(GoodFiles)
  <2>1. \A i \in 1 .. n : s[i] \in GoodFiles BY <1>3
  <2> QED BY ONLY <1>4, <2>1, SequenceIsSeq
<1>6. InOrder(s) BY <1>3, <1>4 DEF InOrder
<1> QED BY <1>5, <1>6 DEF IsListing, s

LEMMA DiscFilesListed ==
  ASSUME image # NoImage, image \in Images, probed = Probe(image), probed.ok
  PROVE  IsListing(DiscFiles)
<1> DEFINE set == {e \in Range(probed.entries) : ~e.is_directory}
           found == Kept(probed.entries, set)
           n == Len(found)
           s == DiscFiles
<1>1. probed.entries \in Seq(Entry) /\ probed.offset \in Nat BY ProbeIs DEF IsProbe
<1>2. IsKept(found, probed.entries, set)
  <2>1. HasLen(probed.entries, Len(probed.entries)) BY <1>1, SeqIsSequence
  <2> HIDE DEF set
  <2> QED BY ONLY <2>1, KeptIsKept
<1>s. s = [i \in DOMAIN found |->
    [path |-> found[i].path, size |-> found[i].size,
     image_offset |-> probed.offset + found[i].sector * SectorSize, fs_index |-> 0]]
  BY DEF DiscFiles
<1> HIDE DEF found, s
<1>3. found \in Seq({e \in Range(probed.entries) : e \in set}) BY <1>1, <1>2 DEF IsKept
<1>4. /\ DOMAIN found = 1 .. n /\ n \in Nat
      /\ \A i \in 1 .. n : found[i] \in Range(probed.entries)
  BY <1>3, SeqIsSequence DEF HasLen
<1> HIDE DEF n, set
<1>5. \A e \in Range(probed.entries) :
    e.path \in Seq(Name) \ {<<>>} /\ e.size \in Nat /\ e.sector \in Nat
  <2>1. /\ DOMAIN probed.entries = 1 .. Len(probed.entries)
        /\ \A i \in 1 .. Len(probed.entries) : probed.entries[i] \in Entry
    BY <1>1, SeqIsSequence
  <2>2. \A e \in Range(probed.entries) : e \in Entry BY <2>1 DEF Range
  <2> QED BY <2>2 DEF Entry
<1>6. ASSUME NEW i \in 1 .. n
      PROVE  s[i] \in GoodFiles
  <2> DEFINE e == found[i]
  <2>1. /\ s[i] = [path |-> s[i].path, size |-> s[i].size, image_offset |-> s[i].image_offset,
                   fs_index |-> s[i].fs_index]
        /\ s[i].path = e.path /\ s[i].size = e.size
        /\ s[i].image_offset = probed.offset + e.sector * SectorSize /\ s[i].fs_index = 0
    BY <1>4, <1>s
  <2>2. e \in Range(probed.entries) BY <1>4
  <2> HIDE DEF e
  <2>3. e.path \in Seq(Name) \ {<<>>} /\ e.size \in Nat /\ e.sector \in Nat BY <1>5, <2>2
  <2>4. probed.offset + e.sector * SectorSize \in Nat
    <3>1. SectorSize \in Nat BY XdvdfsAssumption
    <3>2. e.sector * SectorSize \in Nat BY <2>3, <3>1
    <3> QED BY <1>1, <3>2
  <2>5. s[i] \in SessionFile BY <2>1, <2>3, <2>4 DEF SessionFile
  <2>6. GoodFile(s[i]) BY <2>1, <2>2 DEF GoodFile
  <2> QED BY <2>1, <2>5, <2>6 DEF GoodFiles, e
<1>7. HasLen(s, n) /\ DOMAIN s = 1 .. n BY <1>4, <1>s DEF HasLen
<1>8. s \in Seq(GoodFiles)
  <2>1. \A i \in 1 .. n : s[i] \in GoodFiles BY <1>6
  <2> QED BY ONLY <1>7, <2>1, SequenceIsSeq
<1> QED BY <1>8 DEF IsListing, s

LEMMA RetainedListed ==
  ASSUME NEW listed, IsListing(listed), NEW skip \in BOOLEAN
  PROVE  IsListing(Retained(listed, skip))
<1> DEFINE set == {f \in Range(listed) : f.path[1] \notin UpdateNames}
           kept == Kept(listed, set)
<1>1. Retained(listed, skip) = IF skip THEN kept ELSE listed BY DEF Retained, KeepFsIndex
<1>2. IsKept(kept, listed, set)
  <2>1. HasLen(listed, Len(listed)) BY SeqIsSequence DEF IsListing
  <2> HIDE DEF set
  <2> QED BY ONLY <2>1, KeptIsKept
<1> HIDE DEF kept
<1>3. kept \in Seq({f \in Range(listed) : f \in set}) /\ (image = NoImage => InOrder(kept))
  BY <1>2 DEF IsKept, IsListing
<1> HIDE DEF set
<1>4. \A i \in 1 .. Len(kept) : kept[i] \in GoodFiles
  <2>1. \A i \in 1 .. Len(kept) : kept[i] \in Range(listed) BY <1>3, SeqIsSequence
  <2>2. \A f \in Range(listed) : f \in GoodFiles BY SeqIsSequence DEF IsListing, Range
  <2> QED BY <2>1, <2>2
<1>5. HasLen(kept, Len(kept)) BY <1>3, SeqIsSequence
<1>6. kept \in Seq(GoodFiles) BY ONLY <1>4, <1>5, SequenceIsSeq
<1> QED BY <1>1, <1>3, <1>6 DEF IsListing

\* The session's files, whichever it was opened for.
LEMMA OpenedListed ==
  ASSUME SourceOK, phase = "open", NEW skip \in BOOLEAN
  PROVE  IsListing(Retained(IF image = NoImage THEN FsFiles ELSE DiscFiles, skip))
<1>1. CASE image = NoImage BY <1>1, FsFilesListed, RetainedListed DEF SourceOK
<1>2. CASE image # NoImage BY <1>2, DiscFilesListed, RetainedListed DEF SourceOK
<1> QED BY <1>1, <1>2

-----------------------------------------------------------------------------
(* The bytes of a file, and what the session reads of them.                  *)

\* The k-th byte of the i-th file, as the driver is to get it.
ByteOf(i, k) ==
  [file |-> files[i].fs_index, pos |-> files[i].image_offset + k,
   by |-> IF xbe_patch /\ xbe_index = i THEN "patch"
          ELSE IF files[i].fs_index \in overrides THEN "override" ELSE "source"]

\* n bytes of it behind the first ones.
Span(i, first, n) == [k \in 1 .. n |-> ByteOf(i, first + k)]

FilesOK == IsListing(files)

LEMMA FileFacts ==
  ASSUME FilesOK
  PROVE  /\ HasLen(files, Len(files)) /\ DOMAIN files = 1 .. Len(files) /\ Len(files) \in Nat
         /\ \A i \in DOMAIN files :
              /\ files[i].path \in Seq(Name) \ {<<>>} /\ files[i].size \in Nat
              /\ files[i].image_offset \in Nat /\ files[i].fs_index \in Nat
              /\ GoodFile(files[i])
<1>1. /\ HasLen(files, Len(files)) /\ DOMAIN files = 1 .. Len(files)
      /\ \A i \in 1 .. Len(files) : files[i] \in GoodFiles
  BY SeqIsSequence DEF FilesOK, IsListing
<1>2. Len(files) \in Nat BY <1>1 DEF HasLen
<1>3. \A i \in DOMAIN files : files[i] \in SessionFile /\ GoodFile(files[i]) BY <1>1 DEF GoodFiles
<1> QED BY <1>1, <1>2, <1>3 DEF SessionFile

LEMMA SpanIs ==
  ASSUME NEW i, NEW first, NEW n \in Nat
  PROVE  /\ HasLen(Span(i, first, n), n) /\ Len(Span(i, first, n)) = n
         /\ DOMAIN Span(i, first, n) = 1 .. n
         /\ \A k \in 1 .. n : Span(i, first, n)[k] = ByteOf(i, first + k)
<1>1. HasLen(Span(i, first, n), n) /\ \A k \in 1 .. n : Span(i, first, n)[k] = ByteOf(i, first + k)
  BY DEF Span, HasLen
<1> QED BY <1>1, SequenceLength

\* Spans that follow each other.
LEMMA SpanConcat ==
  ASSUME NEW i, NEW a \in Nat, NEW m \in Nat, NEW n \in Nat
  PROVE  Span(i, a, m) \o Span(i, a + m, n) = Span(i, a, m + n)
<1> DEFINE s == Span(i, a, m)
           t == Span(i, a + m, n)
           u == Span(i, a, m + n)
           r == s \o t
<1>1. /\ HasLen(s, m) /\ HasLen(t, n) /\ HasLen(u, m + n)
      /\ \A k \in 1 .. m : s[k] = ByteOf(i, a + k)
      /\ \A k \in 1 .. n : t[k] = ByteOf(i, (a + m) + k)
      /\ \A k \in 1 .. m + n : u[k] = ByteOf(i, a + k)
  BY SpanIs
<1> HIDE DEF s, t, u
<1>2. IsConcat(r, s, m, t, n) BY ONLY <1>1, SequenceConcat
<1> HIDE DEF r
<1>3. HasLen(r, m + n) /\ \A k \in 1 .. m + n : r[k] = IF k <= m THEN s[k] ELSE t[k - m]
  BY <1>2 DEF IsConcat
<1>4. ASSUME NEW k \in 1 .. m + n PROVE r[k] = u[k]
  <2>1. CASE k <= m BY <1>1, <1>3, <2>1
  <2>2. CASE ~(k <= m)
    <3>1. k - m \in 1 .. n /\ (a + m) + (k - m) = a + k BY <2>2
    <3>2. t[k - m] = ByteOf(i, (a + m) + (k - m)) BY <1>1, <3>1
    <3> QED BY <1>1, <1>3, <2>2, <3>1, <3>2
  <2> QED BY <2>1, <2>2
<1>5. r = u BY ONLY <1>1, <1>3, <1>4, SequenceSame
<1> QED BY <1>5 DEF r, s, t, u

\* A part of a span is one.
LEMMA SpanPart ==
  ASSUME NEW i, NEW first \in Nat, NEW n \in Nat, NEW a \in 1 .. n + 1, NEW b \in a - 1 .. n
  PROVE  SubSeq(Span(i, first, n), a, b) = Span(i, first + a - 1, b - a + 1)
<1> DEFINE s == Span(i, first, n)
           m == b - a + 1
           t == Span(i, first + a - 1, m)
           r == SubSeq(s, a, b)
<1>1. m \in Nat /\ \A k \in 1 .. m : a + k - 1 \in 1 .. n OBVIOUS
<1>2. /\ HasLen(s, n) /\ HasLen(t, m)
      /\ \A k \in 1 .. n : s[k] = ByteOf(i, first + k)
      /\ \A k \in 1 .. m : t[k] = ByteOf(i, (first + a - 1) + k)
  <2> HIDE DEF m
  <2> QED BY <1>1, SpanIs
<1> HIDE DEF s, t
<1>3. IsSlice(r, s, a, b) BY ONLY <1>2, a \in 1 .. n + 1, b \in a - 1 .. n, SubSeqIsSlice
<1> HIDE DEF r
<1>4. HasLen(r, m) /\ \A k \in 1 .. m : r[k] = s[a + k - 1] BY <1>3 DEF IsSlice
<1>5. ASSUME NEW k \in 1 .. m PROVE r[k] = t[k]
  <2>1. first + (a + k - 1) = (first + a - 1) + k BY <1>1
  <2>2. s[a + k - 1] = ByteOf(i, first + (a + k - 1)) BY <1>1, <1>2
  <2> QED BY <1>2, <1>4, <2>1, <2>2
<1> HIDE DEF m
<1>6. r = t BY ONLY <1>2, <1>4, <1>5, SequenceSame
<1> QED BY <1>6 DEF r, s, t, m

\* Its first n bytes and the others.
LEMMA SpanSplit ==
  ASSUME NEW i, NEW first \in Nat, NEW m \in Nat, NEW n \in 0 .. m
  PROVE  /\ SubSeq(Span(i, first, m), 1, n) = Span(i, first, n)
         /\ SubSeq(Span(i, first, m), n + 1, m) = Span(i, first + n, m - n)
<1>1. /\ 1 \in 1 .. m + 1 /\ n \in 1 - 1 .. m /\ first + 1 - 1 = first /\ n - 1 + 1 = n
      /\ n + 1 \in 1 .. m + 1 /\ m \in (n + 1) - 1 .. m
      /\ first + (n + 1) - 1 = first + n /\ m - (n + 1) + 1 = m - n
  OBVIOUS
<1>2. SubSeq(Span(i, first, m), 1, n) = Span(i, first + 1 - 1, n - 1 + 1)
  BY ONLY first \in Nat, m \in Nat, <1>1, SpanPart
<1>3. SubSeq(Span(i, first, m), n + 1, m) = Span(i, first + (n + 1) - 1, m - (n + 1) + 1)
  BY ONLY first \in Nat, m \in Nat, <1>1, SpanPart
<1> QED BY <1>1, <1>2, <1>3

\* What is read there, patched where it is to be.
LEMMA ReadIsSpan ==
  ASSUME FilesOK, SourceOK, current_index \in DOMAIN files, NEW offset \in Nat, NEW n \in Nat
  PROVE  /\ ~PatchThis => BytesThere(offset, n) = Span(current_index, offset, n)
         /\ PatchThis => Patched(BytesThere(offset, n)) = Span(current_index, offset, n)
<1> DEFINE c == current_index
           f == files[c]
           raw(k) == [file |-> f.fs_index, pos |-> f.image_offset + (offset + k),
                      by |-> IF f.fs_index \in overrides THEN "override" ELSE "source"]
<1>1. /\ f.image_offset \in Nat /\ GoodFile(f) BY FileFacts
<1>2. BytesThere(offset, n) = [k \in 1 .. n |-> raw(k)]
  <2>1. CASE image = NoImage
    <3>1. f.image_offset = 0 BY <1>1, <2>1 DEF GoodFile
    <3>2. \A k \in 1 .. n : f.image_offset + (offset + k) = offset + k BY <3>1
    <3>3. BytesThere(offset, n) = RangeBytes(f.fs_index, offset, n) BY <2>1 DEF BytesThere, Current
    <3>4. RangeBytes(f.fs_index, offset, n)
        = [k \in 1 .. n |-> [file |-> f.fs_index, pos |-> offset + k,
             by |-> IF f.fs_index \in overrides THEN "override" ELSE "source"]]
      BY DEF RangeBytes, ReaderOf
    <3> HIDE DEF f
    <3> QED BY <3>2, <3>3, <3>4
  <2>2. CASE image # NoImage
    <3>1. f.fs_index = 0 /\ overrides = {} BY <1>1, <2>2 DEF GoodFile, SourceOK
    <3>2. probed.offset \in Int
      <4>1. PICK e \in Range(probed.entries) : f.image_offset = probed.offset + e.sector * SectorSize
        BY <1>1, <2>2 DEF GoodFile
      <4>2. IsProbe(probed, image) BY <2>2, ProbeIs DEF SourceOK
      <4>3. probed = Probe(image) /\ image \in Images BY <2>2 DEF SourceOK
      <4>4. Probe(image).offset \in Nat
        <5>1. CASE IsoType(image) = NoType \/ IsoType(Stream(image)) = NoType BY <5>1 DEF Probe
        <5>2. CASE ~(IsoType(image) = NoType \/ IsoType(Stream(image)) = NoType)
          <6>1. Probe(image).offset = ImageOffset(image) BY <5>2 DEF Probe
          <6> QED BY <4>3, <5>2, <6>1, StreamIsImage
        <5> QED BY <5>1, <5>2
      <4> QED BY <4>3, <4>4
    <3>3. \A k \in 1 .. n : probed.offset + (f.image_offset - probed.offset + offset) + k
        = f.image_offset + (offset + k)
      BY <1>1, <3>2
    <3>4. BytesThere(offset, n) = [k \in 1 .. n |-> [file |-> 0, by |-> "source",
        pos |-> probed.offset + (f.image_offset - probed.offset + offset) + k]]
      BY <2>2 DEF BytesThere, StreamBytes, SeekPos, Current
    <3> HIDE DEF f
    <3> QED BY <3>1, <3>3, <3>4
  <2> QED BY <2>1, <2>2
<1>3. ASSUME ~PatchThis PROVE BytesThere(offset, n) = Span(c, offset, n)
  <2>1. \A k \in 1 .. n : ByteOf(c, offset + k) = raw(k) BY <1>3 DEF ByteOf, PatchThis
  <2> HIDE DEF raw
  <2> QED BY <1>2, <2>1 DEF Span
<1>4. ASSUME PatchThis PROVE Patched(BytesThere(offset, n)) = Span(c, offset, n)
  <2>1. \A k \in 1 .. n : ByteOf(c, offset + k) = [raw(k) EXCEPT !.by = "patch"]
    BY <1>4 DEF ByteOf, PatchThis
  <2> HIDE DEF raw
  <2> QED BY <1>2, <2>1 DEF Span, Patched
<1> QED BY <1>3, <1>4

\* The place of a file in the listing.
LEMMA ListingPlace ==
  ASSUME image = NoImage, SourceOK, NEW f \in DOMAIN parts
  PROVE  /\ DOMAIN FileEntries = DOMAIN parts /\ FileEntries[f].path = parts[f].path
         /\ InListing(f) = [k \in 1 .. parts[f].size |-> [file |-> f, pos |-> k,
                    by |-> IF f \in overrides THEN "override" ELSE "source"]]
<1>1. /\ DOMAIN FileEntries = DOMAIN parts
      /\ FileEntries[f].path = parts[f].path /\ FileEntries[f].size = parts[f].size
  BY PartsAre DEF SourceOK
<1> QED BY <1>1 DEF InListing

\* The driver is to get a file's own bytes.
LEMMA ContentIs ==
  ASSUME FilesOK, SourceOK, phase = "streaming", StoredAtRoot, NEW i \in DOMAIN files
  PROVE  Span(i, 0, files[i].size) \in Contents(i)
<1> DEFINE f == files[i]
           raw(k) == [file |-> f.fs_index, pos |-> f.image_offset + k,
                      by |-> IF f.fs_index \in overrides THEN "override" ELSE "source"]
           own == IF image = NoImage
                  THEN {InListing(g) : g \in {h \in DOMAIN FileEntries :
                                                FileEntries[h].path = files[i].path}}
                  ELSE {OnDisc(files[i].path)}
           bytes == [k \in 1 .. f.size |-> raw(k)]
<1>1. f.image_offset \in Nat /\ f.size \in Nat /\ GoodFile(f) BY FileFacts
<1>2. bytes \in own
  <2>1. CASE image = NoImage
    <3>1. /\ f.fs_index \in DOMAIN parts /\ f.path = parts[f.fs_index].path
          /\ f.size = parts[f.fs_index].size /\ f.image_offset = 0
      BY <1>1, <2>1 DEF GoodFile
    <3> HIDE DEF f
    <3>2. /\ InListing(f.fs_index) = [k \in 1 .. f.size |-> [file |-> f.fs_index, pos |-> k,
                by |-> IF f.fs_index \in overrides THEN "override" ELSE "source"]]
          /\ f.fs_index \in DOMAIN FileEntries /\ FileEntries[f.fs_index].path = f.path
      BY <2>1, <3>1, ListingPlace
    <3>3. \A k \in 1 .. f.size : f.image_offset + k = k BY <3>1
    <3>4. bytes = InListing(f.fs_index) BY <3>2, <3>3
    <3> HIDE DEF bytes
    <3> QED BY <2>1, <3>2, <3>4 DEF f
  <2>2. CASE image # NoImage
    <3>1. /\ f.fs_index = 0 /\ overrides = {} /\ image \in Images /\ probed = Probe(image) /\ probed.ok
      BY <1>1, <2>2 DEF GoodFile, SourceOK
    <3>2. PICK e \in Range(probed.entries) :
        /\ f.path = e.path /\ f.size = e.size
        /\ f.image_offset = probed.offset + e.sector * SectorSize
      BY <1>1, <2>2 DEF GoodFile
    <3>3. /\ DistinctPaths(probed.entries) /\ probed.offset = ImageOffset(image)
          /\ IsoType(image) # NoType
      BY <3>1, ProbeIs DEF IsProbe
    <3>4. probed.offset = RootOffset[IsoType(image)]
      BY <3>1, <3>3, ExtractedAssumption DEF StoredAtRoot, ImageOffset
    <3> HIDE DEF f
    <3>5. (CHOOSE x \in Range(probed.entries) : x.path = f.path) = e
      <4>1. \A x \in Range(probed.entries) : x.path = f.path => x = e
        BY <3>2, <3>3 DEF DistinctPaths, Range
      <4> QED BY <3>2, <4>1
    <3>6. OnDisc(f.path) = [k \in 1 .. e.size |-> [file |-> 0, by |-> "source",
         pos |-> RootOffset[IsoType(image)] + e.sector * SectorSize + k]]
      BY <3>5 DEF OnDisc
    <3>7. \A k \in 1 .. f.size : RootOffset[IsoType(image)] + e.sector * SectorSize + k
        = f.image_offset + k
      BY <3>2, <3>4
    <3>8. bytes = OnDisc(f.path) BY <3>1, <3>2, <3>6, <3>7
    <3> HIDE DEF bytes
    <3> QED BY <2>2, <3>8 DEF f
  <2> QED BY <2>1, <2>2
<1>3. Contents(i) = IF xbe_patch /\ xbe_index = i THEN {Tagged(x, "patch") : x \in own} ELSE own
  BY DEF Contents
<1> HIDE DEF own
<1>4. CASE xbe_patch /\ xbe_index = i
  <2>1. \A k \in 1 .. f.size : ByteOf(i, 0 + k) = [raw(k) EXCEPT !.by = "patch"] BY <1>1, <1>4 DEF ByteOf
  <2> HIDE DEF raw, f
  <2>2. Tagged(bytes, "patch") = [k \in 1 .. f.size |-> [raw(k) EXCEPT !.by = "patch"]] BY DEF Tagged
  <2>3. Tagged(bytes, "patch") = Span(i, 0, f.size) BY <2>1, <2>2 DEF Span
  <2> HIDE DEF bytes
  <2>4. Span(i, 0, f.size) \in Contents(i) BY <1>2, <1>3, <1>4, <2>3
  <2> QED BY <2>4 DEF f
<1>5. CASE ~(xbe_patch /\ xbe_index = i)
  <2>1. \A k \in 1 .. f.size : ByteOf(i, 0 + k) = raw(k) BY <1>1, <1>5 DEF ByteOf
  <2> HIDE DEF raw, f
  <2>2. bytes = Span(i, 0, f.size) BY <2>1 DEF Span
  <2> HIDE DEF bytes
  <2>3. Span(i, 0, f.size) \in Contents(i) BY <1>2, <1>3, <1>5, <2>2
  <2> QED BY <2>3 DEF f
<1> QED BY <1>4, <1>5

-----------------------------------------------------------------------------
(* The inductive invariant                                                   *)

\* Before a session there is nothing of one.
IdleOK ==
  phase # "streaming" =>
    /\ files = <<>> /\ current_index = 1 /\ current_offset_in_file = 0
    /\ started = FALSE /\ xbe_patch = FALSE /\ xbe_index = 0
    /\ pending_patched = Nothing /\ failures = 0 /\ out = <<>>

\* Where the session is, and what of a patched file is left.
PlaceOK ==
  /\ current_index \in 1 .. Len(files) + 1
  /\ started \in BOOLEAN /\ xbe_patch \in BOOLEAN
  /\ xbe_index \in 0 .. Len(files)
  /\ started => /\ current_index \in DOMAIN files /\ ~PatchThis
                /\ current_offset_in_file \in 0 .. Current.size
  /\ pending_patched.pending \in BOOLEAN
  /\ pending_patched.pending =>
       /\ PatchThis /\ last_returned_name = Current.path
       /\ \E n \in 0 .. Current.size :
            pending_patched.bytes = Span(current_index, Current.size - n, n)
  /\ failures \in 0 .. MaxFailures

\* How much of the current file has been handed over.
Handed ==
  IF PatchThis THEN IF pending_patched.pending
                    THEN Current.size - Len(pending_patched.bytes) ELSE 0
  ELSE OffsetInFile

\* n bytes of the i-th file, under its name.
Got(i, n) == [names |-> {files[i].path}, bytes |-> Span(i, 0, n)]

\* The files before the current one have arrived, of this one what has been
\* handed over, of those behind it nothing.
ArrivedOK ==
  /\ \A i \in DOMAIN out : i \in DOMAIN files /\ i <= current_index
  /\ \A i \in DOMAIN files : i < current_index => i \in DOMAIN out /\ out[i] = Got(i, files[i].size)
  /\ current_index \in DOMAIN files =>
       IF current_index \in DOMAIN out THEN out[current_index] = Got(current_index, Handed)
       ELSE Handed = 0

IInv == SourceOK /\ FilesOK /\ IdleOK /\ PlaceOK /\ ArrivedOK

LEMMA HandedIs ==
  ASSUME FilesOK, PlaceOK, current_index \in DOMAIN files
  PROVE  Handed \in 0 .. Current.size
<1>1. Current.size \in Nat BY FileFacts DEF Current
<1>2. CASE PatchThis /\ pending_patched.pending
  <2>1. PICK n \in 0 .. Current.size :
      pending_patched.bytes = Span(current_index, Current.size - n, n)
    BY <1>2 DEF PlaceOK
  <2>2. n \in Nat BY <1>1
  <2>3. Len(pending_patched.bytes) = n BY <2>1, <2>2, SpanIs
  <2> QED BY <1>1, <1>2, <2>3 DEF Handed
<1>3. CASE PatchThis /\ ~pending_patched.pending BY <1>1, <1>3 DEF Handed
<1>4. CASE ~PatchThis BY <1>1, <1>4 DEF Handed, OffsetInFile, PlaceOK
<1> QED BY <1>2, <1>3, <1>4

\* The bytes that came for a file are a beginning of its own.
LEMMA ArrivedWhole ==
  ASSUME IInv
  PROVE  FilesArriveWhole
<1>1. /\ DOMAIN files = 1 .. Len(files) /\ Len(files) \in Nat
      /\ \A i \in DOMAIN files : files[i].size \in Nat
  BY FileFacts DEF IInv
<1>2. ASSUME NEW i \in DOMAIN out
      PROVE  \E n \in 0 .. files[i].size :
               i \in DOMAIN files /\ out[i] = Got(i, n) /\ (IsDone => n = files[i].size)
  <2>1. i \in DOMAIN files /\ i <= current_index BY DEF IInv, ArrivedOK
  <2>2. i \in Nat /\ current_index \in Nat BY <1>1, <2>1 DEF IInv, PlaceOK
  <2>3. CASE i < current_index
    <3>1. out[i] = Got(i, files[i].size) /\ files[i].size \in 0 .. files[i].size
      BY <1>1, <2>1, <2>3 DEF IInv, ArrivedOK
    <3> QED BY <2>1, <3>1
  <2>4. CASE i = current_index
    <3>1. Handed \in 0 .. files[i].size BY <2>1, <2>4, HandedIs DEF IInv, Current
    <3>2. out[i] = Got(i, Handed) BY <2>1, <2>4 DEF IInv, ArrivedOK
    <3>3. ~IsDone BY <1>1, <2>1, <2>4 DEF IsDone
    <3> QED BY <2>1, <3>1, <3>2, <3>3
  <2> QED BY <2>1, <2>2, <2>3, <2>4
<1>3. \A i \in DOMAIN out : i \in DOMAIN files /\ out[i].names = {files[i].path} BY <1>2 DEF Got
<1>4. ASSUME StoredAtRoot, NEW i \in DOMAIN out
      PROVE  \E content \in Contents(i) : /\ IsPrefix(out[i].bytes, content)
                                          /\ IsDone => out[i].bytes = content
  <2>1. PICK n \in 0 .. files[i].size :
      i \in DOMAIN files /\ out[i] = Got(i, n) /\ (IsDone => n = files[i].size)
    BY <1>2
  <2> DEFINE m == files[i].size
  <2>2. phase = "streaming"
    <3>1. DOMAIN <<>> = {} OBVIOUS
    <3> QED BY <3>1 DEF IInv, IdleOK
  <2>3. Span(i, 0, m) \in Contents(i) BY <1>4, <2>1, <2>2, ContentIs DEF IInv
  <2>4. m \in Nat /\ n \in Nat /\ n <= m BY <1>1, <2>1
  <2>5. out[i].bytes = Span(i, 0, n) /\ (IsDone => n = m) BY <2>1 DEF Got
  <2> HIDE DEF m
  <2>6. Len(Span(i, 0, n)) = n /\ Len(Span(i, 0, m)) = m BY <2>4, SpanIs
  <2>7. SubSeq(Span(i, 0, n), 1, n) = Span(i, 0, n) /\ SubSeq(Span(i, 0, m), 1, n) = Span(i, 0, n)
    <3>1. /\ 1 \in 1 .. n + 1 /\ n \in 1 - 1 .. n /\ 1 \in 1 .. m + 1 /\ n \in 1 - 1 .. m
          /\ 0 + 1 - 1 = 0 /\ n - 1 + 1 = n /\ 0 \in Nat
      BY <2>4
    <3>2. SubSeq(Span(i, 0, n), 1, n) = Span(i, 0 + 1 - 1, n - 1 + 1) BY ONLY <2>4, <3>1, SpanPart
    <3>3. SubSeq(Span(i, 0, m), 1, n) = Span(i, 0 + 1 - 1, n - 1 + 1) BY ONLY <2>4, <3>1, SpanPart
    <3> QED BY <3>1, <3>2, <3>3
  <2>8. IsPrefix(Span(i, 0, n), Span(i, 0, m)) BY <2>4, <2>6, <2>7 DEF IsPrefix
  <2> QED BY <2>3, <2>5, <2>8
<1>5. ASSUME IsDone PROVE DOMAIN out = DOMAIN files
  <2>1. current_index \in Nat /\ current_index > Len(files) BY <1>1, <1>5 DEF IInv, PlaceOK, IsDone
  <2>2. \A i \in DOMAIN files : i < current_index BY <1>1, <2>1
  <2> QED BY <2>2 DEF IInv, ArrivedOK
<1>6. InListedOrder
  <2> SUFFICES ASSUME image = NoImage, NEW i \in DOMAIN out, NEW j \in DOMAIN out, i < j,
             NEW x \in Range(out[i].bytes), NEW y \in Range(out[j].bytes)
      PROVE  x.file < y.file
    BY DEF InListedOrder
  <2>1. ASSUME NEW k \in DOMAIN out, NEW z \in Range(out[k].bytes)
        PROVE  k \in DOMAIN files /\ z.file = files[k].fs_index
    <3>1. PICK n \in 0 .. files[k].size : k \in DOMAIN files /\ out[k] = Got(k, n) BY <1>2
    <3>2. n \in Nat /\ out[k].bytes = Span(k, 0, n) BY <1>1, <3>1 DEF Got
    <3>3. PICK a \in 1 .. n : z = ByteOf(k, 0 + a) BY <2>1, <3>2, SpanIs DEF Range
    <3> QED BY <3>1, <3>3 DEF ByteOf
  <2>2. InOrder(files) BY DEF IInv, FilesOK, IsListing
  <2> QED BY <2>1, <2>2 DEF InOrder
<1> QED BY <1>3, <1>4, <1>5, <1>6 DEF FilesArriveWhole

LEMMA InvTypeOK ==
  ASSUME IInv
  PROVE  TypeOK
<1>1. backing \in {"parts", "package", "none"} BY DEF IInv, SourceOK
<1>2. active \in 0 .. Len(parts) /\ overrides \subseteq DOMAIN parts
      /\ phase \in {"new", "open", "refused", "streaming"}
  BY DEF IInv, SourceOK
<1> QED BY <1>1, <1>2 DEF IInv, PlaceOK, TypeOK

\* Nothing has been handed over.
AtStart ==
  /\ current_index = 1 /\ started = FALSE /\ xbe_patch \in BOOLEAN
  /\ Len(files) \in Nat /\ xbe_index \in 0 .. Len(files)
  /\ pending_patched.pending = FALSE /\ failures = 0

LEMMA StartPlace == AtStart => PlaceOK
<1> SUFFICES ASSUME AtStart PROVE PlaceOK OBVIOUS
<1>1. current_index \in 1 .. Len(files) + 1 BY DEF AtStart
<1>2. failures \in 0 .. MaxFailures BY ExtractedAssumption DEF AtStart
<1>3. ~started /\ ~pending_patched.pending BY DEF AtStart
<1> QED BY <1>1, <1>2, <1>3 DEF AtStart, PlaceOK

-----------------------------------------------------------------------------
(* It holds initially.                                                       *)

LEMMA InitIInv ==
  ASSUME Init
  PROVE  IInv
<1>1. SourceOK
  <2>1. phase = "new" /\ probed = Probe(image) BY DEF Init
  <2>2. CASE FsInit /\ image = NoImage
    <3>1. parts \in Seq(ListedFile) /\ active = 0 /\ overrides = {}
      BY <2>2, ExtractedFsAssumption DEF FsInit
    <3>2. backing \in {"parts", "package", "none"} BY <2>2 DEF FsInit
    <3>3. 0 \in 0 .. Len(parts) BY <3>1, PartsAre
    <3> QED BY <2>1, <2>2, <3>1, <3>2, <3>3 DEF SourceOK
  <2>3. CASE /\ image \in Images
             /\ backing = "none" /\ parts = <<>> /\ active = 0 /\ overrides = {}
             /\ answer = NoAnswer
    <3>1. image # NoImage BY <2>3, NoImageProbe
    <3>2. Len(<<>>) = 0 OBVIOUS
    <3> QED BY <2>1, <2>3, <3>1, <3>2 DEF SourceOK
  <2> QED BY <2>2, <2>3 DEF Init
<1>2. FilesOK
  <2>1. <<>> \in Seq(GoodFiles) /\ DOMAIN <<>> = {} OBVIOUS
  <2> QED BY <2>1 DEF Init, FilesOK, IsListing, InOrder
<1>3. IdleOK BY DEF Init, IdleOK
<1>4. Len(<<>>) = 0 /\ DOMAIN <<>> = {} OBVIOUS
<1>5. PlaceOK
  <2>1. files = <<>> /\ Len(files) = 0 /\ xbe_index = 0 /\ 0 \in 0 .. 0 /\ 0 \in Nat BY <1>4 DEF Init
  <2>2. AtStart BY <2>1 DEF Init, AtStart, Nothing
  <2> QED BY <2>2, StartPlace
<1>6. ArrivedOK BY <1>4 DEF Init, ArrivedOK
<1> QED BY <1>1, <1>2, <1>3, <1>5, <1>6 DEF IInv

-----------------------------------------------------------------------------
(* Every step keeps it.                                                      *)

\* What is said of the files depends on no more than where they come from.
LEMMA FilesKept ==
  ASSUME FilesOK, UNCHANGED <<files, image, parts, probed>>
  PROVE  FilesOK'
<1>1. \A f : GoodFile(f) = GoodFile(f)' BY DEF GoodFile
<1>2. GoodFiles' = GoodFiles BY <1>1 DEF GoodFiles
<1> QED BY <1>2 DEF FilesOK, IsListing

LEMMA SpanKept ==
  ASSUME UNCHANGED <<files, xbe_patch, xbe_index, overrides>>
  PROVE  \A i, first, n : Span(i, first, n)' = Span(i, first, n)
<1>1. \A i, k : ByteOf(i, k)' = ByteOf(i, k) BY DEF ByteOf
<1> QED BY <1>1 DEF Span

\* The reader that an access leaves active is that of a file there is.
LEMMA ActivateIs ==
  ASSUME SourceOK, NEW file \in DOMAIN parts, Activate(file)
  PROVE  active' \in 0 .. Len(parts)
<1>1. active \in 0 .. Len(parts) BY DEF SourceOK
<1>2. file \in 0 .. Len(parts)
  <2>1. CASE image = NoImage
    <3>1. DOMAIN parts = 1 .. Len(parts) /\ Len(parts) \in Nat BY <2>1, PartsAre DEF SourceOK
    <3> QED BY <3>1
  <2>2. CASE image # NoImage
    <3>1. parts = <<>> BY <2>2 DEF SourceOK
    <3>2. DOMAIN parts = {} BY <3>1
    <3> QED BY <3>2
  <2> QED BY <2>1, <2>2
<1> QED BY <1>1, <1>2 DEF Activate, ReaderOf

LEMMA FindIs ==
  ASSUME parts \in Seq(ListedFile), NEW path, Find(path) # 0
  PROVE  Find(path) \in DOMAIN parts /\ parts[Find(path)].path = path
<1> DEFINE n == Len(parts)
           I == {i \in 1 .. Len(FileEntries) : FileEntries[i].path = path}
<1>1. /\ DOMAIN parts = 1 .. n /\ n \in Nat /\ Len(FileEntries) = n
      /\ \A i \in DOMAIN parts : FileEntries[i].path = parts[i].path
  BY PartsAre
<1>2. Find(path) = IF I # {} THEN Min(I) ELSE 0 BY DEF Find, SelectInSeq
<1> HIDE DEF n
<1>3. I \in SUBSET (1 .. n) BY <1>1
<1> HIDE DEF I
<1>4. Find(path) \in I BY <1>1, <1>2, <1>3, SelectedIs
<1> QED BY <1>1, <1>3, <1>4 DEF I

LEMMA LaunchIs ==
  ASSUME parts \in Seq(ListedFile), LaunchExecutable # 0
  PROVE  LaunchExecutable \in DOMAIN parts
<1>1. DOMAIN parts = 1 .. Len(parts) /\ Len(parts) \in Nat BY PartsAre
<1>2. \A name : AtRoot(name) \subseteq DOMAIN parts BY DEF AtRoot
<1>3. ASSUME NEW name, AtRoot(name) # {}
      PROVE  Min(AtRoot(name)) \in AtRoot(name) /\ Max(AtRoot(name)) \in AtRoot(name)
  <2> DEFINE S == AtRoot(name)
             m == Len(parts)
  <2>1. S \in SUBSET Int /\ S # {} /\ m \in Int /\ \A x \in S : 1 <= x /\ x <= m BY <1>1, <1>2, <1>3
  <2> HIDE DEF S, m
  <2>2. 1 \in Int OBVIOUS
  <2>3. Min(S) \in S BY ONLY <2>1, <2>2, IntMin
  <2>4. Max(S) \in S BY ONLY <2>1, IntMax
  <2> QED BY <2>3, <2>4 DEF S
<1> QED BY <1>2, <1>3 DEF LaunchExecutable

LEMMA OpenSourceStep ==
  ASSUME IInv, OpenSource
  PROVE  IInv'
<1>1. SourceOK'
  <2>1. /\ phase' \in {"refused", "open"}
        /\ phase' = "open" => IF image = NoImage THEN backing # "none" ELSE probed.ok
    BY DEF OpenSource
  <2>2. UNCHANGED <<backing, parts, active, overrides, answer, image, probed>> BY DEF OpenSource, fsVars
  <2>3. FileEntries' = FileEntries BY <2>2 DEF FileEntries
  <2> QED BY <2>1, <2>2, <2>3 DEF IInv, SourceOK
<1>2. UNCHANGED <<files, current_index, current_offset_in_file, started, last_returned_name,
    xbe_patch, xbe_index, pending_patched, failures, out, image, parts, probed, overrides>>
  BY DEF OpenSource, sessionVars, fsVars
<1>3. FilesOK' BY <1>2, FilesKept DEF IInv
<1>4. phase = "new" BY DEF OpenSource
<1>5. IdleOK' BY <1>2, <1>4 DEF IInv, IdleOK
<1>6. /\ files = <<>> /\ current_index = 1 /\ started = FALSE /\ xbe_patch = FALSE /\ xbe_index = 0
      /\ pending_patched.pending = FALSE /\ failures = 0 /\ out = <<>>
  BY <1>4 DEF IInv, IdleOK, Nothing
<1>7. Len(<<>>) = 0 /\ DOMAIN <<>> = {} OBVIOUS
<1>8. PlaceOK'
  <2>0. files' = <<>> /\ Len(files') = 0 BY <1>2, <1>6, <1>7
  <2>1. AtStart'
    <3>1. xbe_index' = 0 /\ 0 \in 0 .. 0 /\ 0 \in Nat /\ FALSE \in BOOLEAN BY <1>2, <1>6
    <3> QED BY <1>2, <1>6, <2>0, <3>1 DEF AtStart
  <2>2. (AtStart => PlaceOK)' BY StartPlace, PTL
  <2> QED BY <2>1, <2>2
<1>9. ArrivedOK' BY <1>2, <1>6, <1>7 DEF ArrivedOK
<1> QED BY <1>1, <1>3, <1>5, <1>8, <1>9 DEF IInv

LEMMA UseFsStep ==
  ASSUME IInv, UseFs
  PROVE  IInv'
<1>1. phase = "open" /\ image = NoImage /\ UNCHANGED <<phase, image, probed, sessionVars, failures, out>>
  BY DEF UseFs
<1>2. SourceOK /\ parts \in Seq(ListedFile) BY <1>1 DEF IInv, SourceOK
<1>3. /\ UNCHANGED <<backing, parts>>
      /\ active' \in 0 .. Len(parts) /\ overrides' \subseteq DOMAIN parts
  <2>1. ASSUME NEW path \in Paths, OverrideFile(path) 
        PROVE  /\ UNCHANGED <<backing, parts>>
               /\ active' \in 0 .. Len(parts) /\ overrides' \subseteq DOMAIN parts
    <3>1. Find(path) \in DOMAIN parts BY <1>2, <2>1, FindIs DEF OverrideFile
    <3> QED BY <1>2, <2>1, <3>1 DEF OverrideFile, SourceOK
  <2>2. ASSUME NEW path \in Paths, NEW range \in Ranges, CopyFileIn(path, range[1], range[2])
        PROVE  /\ UNCHANGED <<backing, parts>>
               /\ active' \in 0 .. Len(parts) /\ overrides' \subseteq DOMAIN parts
    <3>1. Find(path) # 0 /\ Activate(Find(path)) /\ UNCHANGED <<backing, parts, overrides>>
      BY <2>2 DEF CopyFileIn
    <3>2. Find(path) \in DOMAIN parts BY <1>2, <3>1, FindIs
    <3> QED BY <1>2, <3>1, <3>2, ActivateIs DEF SourceOK
  <2>3. ASSUME ReadLaunchExecutable
        PROVE  /\ UNCHANGED <<backing, parts>>
               /\ active' \in 0 .. Len(parts) /\ overrides' \subseteq DOMAIN parts
    <3>1. LaunchExecutable # 0 /\ Activate(LaunchExecutable) /\ UNCHANGED <<backing, parts, overrides>>
      BY <2>3 DEF ReadLaunchExecutable
    <3>2. LaunchExecutable \in DOMAIN parts BY <1>2, <3>1, LaunchIs
    <3> QED BY <1>2, <3>1, <3>2, ActivateIs DEF SourceOK
  <2> QED BY <2>1, <2>2, <2>3 DEF UseFs
<1>4. SourceOK'
  <2>1. FileEntries' = FileEntries BY <1>3 DEF FileEntries
  <2> QED BY <1>1, <1>2, <1>3, <2>1 DEF SourceOK
<1>5. UNCHANGED <<files, current_index, current_offset_in_file, started, last_returned_name,
    xbe_patch, xbe_index, pending_patched, failures, out, image, parts, probed>>
  BY <1>1, <1>3 DEF sessionVars
<1>6. FilesOK' BY <1>5, FilesKept DEF IInv
<1>7. IdleOK' BY <1>1, <1>5 DEF IInv, IdleOK
<1>8. /\ files = <<>> /\ current_index = 1 /\ started = FALSE /\ xbe_patch = FALSE /\ xbe_index = 0
      /\ pending_patched.pending = FALSE /\ failures = 0 /\ out = <<>>
  BY <1>1 DEF IInv, IdleOK, Nothing
<1>9. Len(<<>>) = 0 /\ DOMAIN <<>> = {} OBVIOUS
<1>10. PlaceOK'
  <2>0. files' = <<>> /\ Len(files') = 0 BY <1>5, <1>8, <1>9
  <2>1. AtStart'
    <3>1. xbe_index' = 0 /\ 0 \in 0 .. 0 /\ 0 \in Nat /\ FALSE \in BOOLEAN BY <1>5, <1>8
    <3> QED BY <1>5, <1>8, <2>0, <3>1 DEF AtStart
  <2>2. (AtStart => PlaceOK)' BY StartPlace, PTL
  <2> QED BY <2>1, <2>2
<1>11. ArrivedOK' BY <1>5, <1>8, <1>9 DEF ArrivedOK
<1> QED BY <1>4, <1>6, <1>7, <1>10, <1>11 DEF IInv

LEMMA OpenSessionStep ==
  ASSUME IInv, OpenSession
  PROVE  IInv'
<1>1. /\ phase = "open" /\ phase' = "streaming"
      /\ UNCHANGED <<backing, parts, active, overrides, answer, image, probed, current_index,
                     current_offset_in_file, started, last_returned_name, pending_patched,
                     failures, out>>
      /\ xbe_patch' \in BOOLEAN
  BY DEF OpenSession, fsVars
<1>2. PICK skip \in BOOLEAN :
    files' = Retained(IF image = NoImage THEN FsFiles ELSE DiscFiles, skip)
  BY DEF OpenSession
<1>3. SourceOK'
  <2>1. FileEntries' = FileEntries BY <1>1 DEF FileEntries
  <2> QED BY <1>1, <2>1 DEF IInv, SourceOK
<1>4. IsListing(files') BY <1>1, <1>2, OpenedListed DEF IInv
<1>5. FilesOK'
  <2>1. \A f : GoodFile(f) = GoodFile(f)' BY <1>1 DEF GoodFile
  <2>2. GoodFiles' = GoodFiles BY <2>1 DEF GoodFiles
  <2>3. image' = image BY <1>1
  <2>4. files' \in Seq(GoodFiles) /\ (image = NoImage => InOrder(files')) BY <1>4 DEF IsListing
  <2>5. files' \in Seq(GoodFiles') /\ (image' = NoImage => InOrder(files')) BY ONLY <2>2, <2>3, <2>4
  <2> QED BY ONLY <2>5 DEF FilesOK, IsListing, InOrder
<1>6. IdleOK' BY <1>1 DEF IdleOK
<1>7. /\ current_index = 1 /\ started = FALSE /\ current_offset_in_file = 0
      /\ pending_patched.pending = FALSE /\ failures = 0 /\ out = <<>>
  BY <1>1 DEF IInv, IdleOK, Nothing
<1>8. Len(files') \in Nat /\ DOMAIN files' = 1 .. Len(files') BY <1>4, SeqIsSequence DEF IsListing, HasLen
<1>9. xbe_index' \in 0 .. Len(files')
  <2> DEFINE n == Len(files')
             I == {i \in 1 .. n : IsRootDefaultXbe(files'[i].path)}
  <2>1. xbe_index' = IF I # {} THEN Min(I) ELSE 0 BY DEF OpenSession, SelectInSeq
  <2>2. I \in SUBSET (1 .. n) /\ n \in Nat BY <1>8
  <2> HIDE DEF I, n
  <2>3. xbe_index' \in 0 .. n BY <2>1, <2>2, SelectedIs
  <2> QED BY <2>3 DEF n
<1>10. PlaceOK'
  <2>1. AtStart' BY <1>1, <1>7, <1>8, <1>9 DEF AtStart
  <2>2. (AtStart => PlaceOK)' BY StartPlace, PTL
  <2> QED BY <2>1, <2>2
<1>11. ArrivedOK'
  <2>1. current_index' = 1 /\ out' = <<>> /\ DOMAIN <<>> = {} BY <1>1, <1>7
  <2>2. \A i \in DOMAIN files' : ~(i < 1) BY <1>8
  <2>3. Handed' = 0 BY <1>1, <1>7 DEF Handed, OffsetInFile
  <2> QED BY <2>1, <2>2, <2>3 DEF ArrivedOK
<1> QED BY <1>3, <1>5, <1>6, <1>10, <1>11 DEF IInv

\* A step of the stream reads, if anything, the current file.
LEMMA ReadThereIs ==
  ASSUME IInv, current_index \in DOMAIN files, NEW offset, NEW n, NEW ok, ReadThere(offset, n, ok)
  PROVE  /\ UNCHANGED <<backing, parts, overrides>>
         /\ active' \in 0 .. Len(parts)
         /\ image # NoImage => UNCHANGED fsVars
<1>1. SourceOK /\ GoodFile(Current) BY FileFacts DEF IInv, Current
<1>2. CASE image = NoImage
  <2>1. Current.fs_index \in DOMAIN parts BY <1>1, <1>2 DEF GoodFile
  <2>2. Activate(Current.fs_index) /\ UNCHANGED <<backing, parts, overrides>> BY <1>2 DEF ReadThere
  <2>3. active' \in 0 .. Len(parts) BY <1>1, <2>1, <2>2, ActivateIs
  <2> QED BY <1>2, <2>2, <2>3
<1>3. CASE image # NoImage
  <2>1. UNCHANGED fsVars BY <1>3 DEF ReadThere
  <2>2. UNCHANGED <<backing, parts, active, overrides, answer>> BY <2>1 DEF fsVars
  <2> QED BY <1>1, <2>1, <2>2 DEF SourceOK
<1> QED BY <1>2, <1>3

LEMMA SourceKept ==
  ASSUME SourceOK, UNCHANGED <<phase, image, probed, backing, parts, overrides>>,
         active' \in 0 .. Len(parts), image # NoImage => UNCHANGED fsVars
  PROVE  SourceOK'
<1>1. FileEntries' = FileEntries BY DEF FileEntries
<1>2. image # NoImage => UNCHANGED <<active, answer>> BY DEF fsVars
<1> QED BY <1>1, <1>2 DEF SourceOK

\* What does not change in a stream.
Streams ==
  /\ phase = "streaming" /\ current_index \in DOMAIN files /\ failures < MaxFailures
  /\ UNCHANGED <<phase, image, probed, files, xbe_patch, xbe_index>>

LEMMA ChunkStreams ==
  ASSUME IInv, NextChunk
  PROVE  Streams
<1>1. /\ phase = "streaming" /\ ~IsDone /\ failures < MaxFailures
      /\ UNCHANGED <<phase, image, probed, files, xbe_patch, xbe_index>>
  BY DEF NextChunk
<1>2. current_index \in DOMAIN files
  <2>1. DOMAIN files = 1 .. Len(files) /\ Len(files) \in Nat BY FileFacts DEF IInv
  <2>2. current_index \in 1 .. Len(files) + 1 /\ ~(current_index > Len(files))
    BY <1>1 DEF IInv, PlaceOK, IsDone
  <2> QED BY <2>1, <2>2
<1> QED BY <1>1, <1>2 DEF Streams

\* The bytes behind those handed over are delivered, up to the end of the
\* file at most.
LEMMA DeliverStep ==
  ASSUME IInv, current_index \in DOMAIN files,
         UNCHANGED <<files, xbe_patch, xbe_index, overrides>>,
         NEW n \in Nat, Handed + n <= Current.size,
         Deliver(Current.path, Span(current_index, Handed, n)),
         \/ current_index' = current_index /\ Handed' = Handed + n
         \/ /\ current_index' = current_index + 1 /\ Handed + n = Current.size
            /\ Handed' = 0
  PROVE  ArrivedOK'
<1> DEFINE c == current_index
           p == Current.path
           h == Handed
           before == IF c \in DOMAIN out THEN out[c] ELSE [names |-> {}, bytes |-> <<>>]
           after == Got(c, h + n)
<1>1. /\ DOMAIN files = 1 .. Len(files) /\ Len(files) \in Nat
      /\ \A i \in DOMAIN files : files[i].size \in Nat
  BY FileFacts DEF IInv
<1>2. h \in 0 .. Current.size /\ Current.size \in Nat /\ h \in Nat /\ c \in Nat
  BY <1>1, HandedIs DEF IInv, Current
<1>3. Current = files[c] /\ p = files[c].path BY DEF Current
<1>4. before.names \cup {p} = {p} /\ before.bytes = Span(c, 0, h)
  <2>1. CASE c \in DOMAIN out
    <3>1. before = Got(c, h) BY <2>1 DEF IInv, ArrivedOK
    <3> HIDE DEF before, p, h, c
    <3> QED BY <1>3, <3>1 DEF Got
  <2>2. CASE c \notin DOMAIN out
    <3>1. h = 0 BY <2>2 DEF IInv, ArrivedOK
    <3>2. Span(c, 0, 0) = <<>> BY DEF Span
    <3>3. before = [names |-> {}, bytes |-> <<>>] BY <2>2
    <3> HIDE DEF before, p, h, c
    <3> QED BY <3>1, <3>2, <3>3
  <2> QED BY <2>1, <2>2
<1>5. out' = Insert(out, c, [names |-> before.names \cup {p}, bytes |-> before.bytes \o Span(c, h, n)])
  BY DEF Deliver
<1> HIDE DEF before, h, p, c
<1>6. [names |-> before.names \cup {p}, bytes |-> before.bytes \o Span(c, h, n)] = after
  <2>1. 0 \in Nat /\ 0 + h = h BY <1>2
  <2>2. Span(c, 0, h) \o Span(c, 0 + h, n) = Span(c, 0, h + n) BY ONLY <1>2, <2>1, n \in Nat, SpanConcat
  <2> QED BY <1>3, <1>4, <2>1, <2>2 DEF Got
<1> HIDE DEF after
<1>7. out' = Insert(out, c, after) BY <1>5, <1>6
<1>8. \A i, m : Got(i, m)' = Got(i, m)
  <2>1. \A i, m : Span(i, 0, m)' = Span(i, 0, m) BY SpanKept
  <2> QED BY <2>1 DEF Got
<1>9. /\ \A i \in DOMAIN out : i \in DOMAIN files /\ i <= c
      /\ \A i \in DOMAIN files : i < c => i \in DOMAIN out /\ out[i] = Got(i, files[i].size)
  BY DEF IInv, ArrivedOK, c
<1>10. /\ DOMAIN out' = DOMAIN out \cup {c} /\ out'[c] = after
       /\ \A x \in DOMAIN out : x # c => out'[x] = out[x]
  BY <1>7 DEF Insert
<1>11. c \in DOMAIN files /\ files' = files /\ c <= c BY <1>2 DEF c
<1>12. \A i \in DOMAIN out' : i \in DOMAIN files' /\ i <= c BY <1>9, <1>10, <1>11
<1>13. \A i \in DOMAIN files : i < c => i # c BY <1>1, <1>2
<1>14. \A i \in DOMAIN files : i < c => i \in DOMAIN out' /\ out'[i] = Got(i, files[i].size)'
  BY <1>8, <1>9, <1>10, <1>11, <1>13
<1>15. CASE current_index' = c /\ Handed' = h + n
  <2>1. out'[c] = Got(current_index, Handed)' BY <1>8, <1>10, <1>15 DEF after
  <2> QED BY <1>10, <1>11, <1>12, <1>14, <1>15, <2>1 DEF ArrivedOK
<1>16. CASE current_index' = c + 1 /\ h + n = Current.size /\ Handed' = 0
  <2>1. \A i \in DOMAIN files : (i <= c => i <= c + 1) /\ (i < c + 1 => i < c \/ i = c) BY <1>1, <1>2
  <2>2. out'[c] = Got(c, files[c].size)
    <3>1. h + n = files[c].size BY <1>3, <1>16
    <3> QED BY <1>10, <3>1 DEF after
  <2>3. \A i \in DOMAIN files' : i < c + 1 => i \in DOMAIN out' /\ out'[i] = Got(i, files[i].size)'
    <3>1. \A i : Got(i, files[i].size)' = Got(i, files[i].size) BY <1>8, <1>11
    <3>2. ASSUME NEW i \in DOMAIN files, i < c + 1
          PROVE  i \in DOMAIN out' /\ out'[i] = Got(i, files[i].size)
      <4>1. CASE i < c BY <1>14, <3>1, <4>1
      <4>2. CASE i = c BY <1>10, <2>2, <4>2
      <4> QED BY <2>1, <3>2, <4>1, <4>2
    <3> QED BY <1>11, <3>1, <3>2
  <2>4. c + 1 \notin DOMAIN out'
    <3>1. ~(c + 1 <= c) BY <1>2
    <3> QED BY <1>12, <3>1
  <2>5. \A i \in DOMAIN out' : i \in DOMAIN files' /\ i <= c + 1 BY <1>11, <1>12, <2>1
  <2> QED BY <1>16, <2>3, <2>4, <2>5 DEF ArrivedOK
<1> QED BY <1>15, <1>16 DEF c, h

\* A step of the stream that changes no more than the place, the reader that
\* is active and what has arrived.
LEMMA StreamStep ==
  ASSUME IInv, Streams, UNCHANGED <<backing, parts, overrides>>,
         active' \in 0 .. Len(parts), image # NoImage => UNCHANGED fsVars,
         PlaceOK', ArrivedOK'
  PROVE  IInv'
<1>1. UNCHANGED <<phase, image, probed, files>> /\ phase' = "streaming" BY DEF Streams
<1>2. SourceOK' BY <1>1, SourceKept DEF IInv
<1>3. FilesOK' BY <1>1, FilesKept DEF IInv
<1>4. IdleOK' BY <1>1 DEF IdleOK
<1> QED BY <1>2, <1>3, <1>4 DEF IInv

\* The next file, if there is one, begins with nothing handed over.
LEMMA NextFilePlace ==
  ASSUME IInv, Streams, current_index' = current_index + 1, started' = FALSE,
         pending_patched'.pending = FALSE, failures' \in 0 .. MaxFailures
  PROVE  PlaceOK' /\ Handed' = 0
<1>1. DOMAIN files = 1 .. Len(files) /\ Len(files) \in Nat BY FileFacts DEF IInv
<1>2. files' = files /\ xbe_patch' = xbe_patch /\ xbe_index' = xbe_index /\ current_index \in DOMAIN files
  BY DEF Streams
<1>3. current_index' \in 1 .. Len(files') + 1 BY <1>1, <1>2
<1>4. xbe_patch' \in BOOLEAN /\ xbe_index' \in 0 .. Len(files') BY <1>2 DEF IInv, PlaceOK
<1>5. PlaceOK' BY <1>3, <1>4 DEF PlaceOK
<1>6. Handed' = 0 BY DEF Handed, OffsetInFile
<1> QED BY <1>5, <1>6

\* Some more of the current file, or the end of it.
Moves ==
  \/ current_index' = current_index /\ Handed' \in Nat /\ Handed <= Handed'
  \/ current_index' = current_index + 1 /\ Handed' = 0

\* Bytes that were pending, or have just been read and patched.
LEMMA FromPendingStep ==
  ASSUME IInv, Streams, PatchThis, NEW m \in 0 .. Current.size, Handed = Current.size - m,
         NEW max_bytes \in ChunkLimits,
         FromPending(Current.path, Span(current_index, Current.size - m, m), max_bytes),
         UNCHANGED <<overrides, failures>>, last_returned_name' = Current.path
  PROVE  PlaceOK' /\ ArrivedOK' /\ Moves
<1> DEFINE c == current_index
           size == Current.size
           first == size - m
           bytes == Span(c, first, m)
           n == Min({max_bytes, Len(bytes)})
<1>1. /\ DOMAIN files = 1 .. Len(files) /\ Len(files) \in Nat
      /\ Current.size \in Nat
  BY FileFacts DEF IInv, Current, Streams
<1>2. /\ files' = files /\ xbe_patch' = xbe_patch /\ xbe_index' = xbe_index /\ c \in DOMAIN files
  BY DEF Streams
<1>3. m \in Nat /\ first \in Nat /\ max_bytes \in Nat \ {0} /\ first + m = size /\ m <= size
  BY <1>1, ExtractedAssumption
<1>4. Len(bytes) = m BY <1>3, SpanIs
<1>5. n = (IF max_bytes <= m THEN max_bytes ELSE m) /\ n \in Nat /\ n <= m
  <2>1. Min({max_bytes, m}) = IF max_bytes <= m THEN max_bytes ELSE m BY <1>3, MinPair
  <2>2. n = Min({max_bytes, m}) BY <1>4
  <2> HIDE DEF n, bytes
  <2> QED BY <1>3, <2>1, <2>2
<1>6. /\ pending_patched' = IF n = m THEN Nothing
                            ELSE [pending |-> TRUE, bytes |-> SubSeq(bytes, n + 1, m)]
      /\ current_index' = IF n = m THEN c + 1 ELSE c
      /\ started' = IF n = m THEN FALSE ELSE started
      /\ Deliver(Current.path, SubSeq(bytes, 1, n))
  BY <1>4 DEF FromPending
<1> HIDE DEF n, bytes, first
<1>7. SubSeq(bytes, 1, n) = Span(c, first, n) /\ SubSeq(bytes, n + 1, m) = Span(c, first + n, m - n)
  <2>1. n \in 0 .. m BY <1>3, <1>5
  <2>2. bytes = Span(c, first, m) BY DEF bytes, first
  <2> QED BY <1>3, <2>1, <2>2, SpanSplit
<1>8. Handed = first BY DEF first
<1>9. ~started /\ c \in 1 .. Len(files) + 1 /\ xbe_index \in 0 .. Len(files) /\ xbe_patch \in BOOLEAN
      /\ failures \in 0 .. MaxFailures
  BY DEF IInv, PlaceOK
<1>10. Deliver(Current.path, Span(c, Handed, n)) /\ Handed + n <= Current.size
  <2>1. first + n <= size BY <1>3, <1>5
  <2> QED BY <1>6, <1>7, <1>8, <2>1
<1>11. CASE n = m
  <2>1. current_index' = current_index + 1 /\ started' = FALSE /\ pending_patched'.pending = FALSE
    BY <1>6, <1>11 DEF Nothing
  <2>2. PlaceOK' /\ Handed' = 0 BY <1>9, <2>1, NextFilePlace
  <2>3. Handed + n = Current.size BY <1>3, <1>8, <1>11
  <2>4. ArrivedOK' BY <1>2, <1>5, <1>10, <2>1, <2>2, <2>3, DeliverStep
  <2> QED BY <2>1, <2>2, <2>4 DEF Moves
<1>12. CASE n # m
  <2>1. /\ current_index' = c /\ started' = FALSE
        /\ pending_patched' = [pending |-> TRUE, bytes |-> Span(c, first + n, m - n)]
    <3>1. started' = FALSE BY <1>6, <1>9, <1>12 DEF IInv, PlaceOK
    <3> QED BY <1>6, <1>7, <1>12, <3>1
  <2>2. m - n \in Nat /\ m - n \in 0 .. size /\ size - (m - n) = first + n BY <1>3, <1>5
  <2>3. Current' = Current /\ PatchThis' BY <1>2, <2>1 DEF Current, PatchThis
  <2>4. Len(Span(c, first + n, m - n)) = m - n BY <2>2, SpanIs
  <2>5. pending_patched'.pending /\ pending_patched'.bytes = Span(c, first + n, m - n) BY <2>1
  <2>6. Handed' = first + n
    <3>1. Handed' = Current'.size - Len(pending_patched'.bytes) BY <2>3, <2>5 DEF Handed
    <3> QED BY <2>2, <2>3, <2>4, <2>5, <3>1
  <2>7. \E k \in 0 .. Current'.size :
      pending_patched'.bytes = Span(current_index, Current.size - k, k)'
    <3> DEFINE k == m - n
    <3>1. k \in Nat /\ k \in 0 .. size /\ size - k = first + n BY <2>2
    <3>2. pending_patched'.bytes = Span(c, size - k, k) BY <2>5, <3>1
    <3> HIDE DEF k
    <3>3. \A i, a, x : Span(i, a, x)' = Span(i, a, x) BY <1>2, SpanKept
    <3>4. \A x : Span(current_index, Current.size - x, x)' = Span(c, size - x, x) BY <2>1, <2>3, <3>3
    <3> QED BY <2>3, <3>1, <3>2, <3>4
  <2>8. PlaceOK' BY <1>2, <1>9, <2>1, <2>3, <2>5, <2>7 DEF PlaceOK
  <2>9. current_index' = current_index /\ Handed' = Handed + n BY <1>8, <2>1, <2>6
  <2>10. ArrivedOK' BY <1>2, <1>5, <1>10, <2>9, DeliverStep
  <2>11. Handed \in Nat /\ Handed + n \in Nat /\ Handed <= Handed + n BY <1>3, <1>5, <1>8
  <2>12. Moves BY <2>9, <2>11 DEF Moves
  <2> QED BY <2>8, <2>10, <2>12
<1> QED BY <1>11, <1>12

LEMMA PatchedStep ==
  ASSUME IInv, Streams, NEW max_bytes \in ChunkLimits, NextPatchedChunk(max_bytes)
  PROVE  IInv' /\ Moves
<1>1. FilesOK /\ SourceOK /\ PatchThis /\ current_index \in DOMAIN files
  BY DEF IInv, Streams, NextPatchedChunk
<1>2. Current.size \in Nat BY <1>1, FileFacts DEF Current
<1>3. UNCHANGED failures BY DEF NextPatchedChunk
<1>4. CASE pending_patched.pending
  <2>1. /\ FromPending(last_returned_name, pending_patched.bytes, max_bytes)
        /\ UNCHANGED <<fsVars, last_returned_name>>
    BY <1>4 DEF NextPatchedChunk
  <2>2. UNCHANGED <<backing, parts, active, overrides>> /\ active \in 0 .. Len(parts)
    BY <1>1, <2>1 DEF fsVars, SourceOK
  <2>3. last_returned_name = Current.path BY <1>4 DEF IInv, PlaceOK
  <2>4. PICK m \in 0 .. Current.size :
      pending_patched.bytes = Span(current_index, Current.size - m, m)
    BY <1>4 DEF IInv, PlaceOK
  <2>5. Handed = Current.size - m
    <3>1. m \in Nat BY <1>2
    <3>2. Len(pending_patched.bytes) = m BY <2>4, <3>1, SpanIs
    <3> QED BY <1>1, <1>4, <3>2 DEF Handed
  <2>6. FromPending(Current.path, Span(current_index, Current.size - m, m), max_bytes) BY <2>1, <2>3, <2>4
  <2>7. PlaceOK' /\ ArrivedOK' /\ Moves BY <1>1, <1>3, <2>1, <2>2, <2>3, <2>5, <2>6, FromPendingStep
  <2> QED BY <2>1, <2>2, <2>7, StreamStep
<1>5. CASE ~pending_patched.pending
  <2>1. /\ ReadThere(0, Current.size, TRUE)
        /\ last_returned_name' = Current.path
        /\ FromPending(Current.path, Patched(BytesThere(0, Current.size)), max_bytes)
    BY <1>5 DEF NextPatchedChunk
  <2>2. /\ UNCHANGED <<backing, parts, overrides>> /\ active' \in 0 .. Len(parts)
        /\ image # NoImage => UNCHANGED fsVars
    BY <1>1, <2>1, ReadThereIs
  <2> DEFINE m == Current.size
  <2>3. m \in 0 .. Current.size /\ Current.size - m = 0 /\ Handed = Current.size - m
    BY <1>1, <1>2, <1>5 DEF Handed
  <2>4. Patched(BytesThere(0, Current.size)) = Span(current_index, Current.size - m, m)
    <3>1. 0 \in Nat OBVIOUS
    <3>2. Patched(BytesThere(0, Current.size)) = Span(current_index, 0, Current.size)
      BY <1>1, <1>2, <3>1, ReadIsSpan
    <3> QED BY <2>3, <3>2
  <2>5. FromPending(Current.path, Span(current_index, Current.size - m, m), max_bytes) BY <2>1, <2>4
  <2> HIDE DEF m
  <2>6. PlaceOK' /\ ArrivedOK' /\ Moves BY <1>1, <1>3, <2>1, <2>2, <2>3, <2>5, FromPendingStep
  <2> QED BY <2>2, <2>6, StreamStep
<1> QED BY <1>4, <1>5

\* How much is read of a file that is not patched.
LEMMA ToReadIs ==
  ASSUME IInv, Streams, ~PatchThis, NEW max_bytes \in ChunkLimits
  PROVE  /\ OffsetInFile \in Nat /\ ToRead(max_bytes) \in Nat /\ Current.size \in Nat
         /\ OffsetInFile + ToRead(max_bytes) <= Current.size
         /\ Handed = OffsetInFile
         /\ ~pending_patched.pending
<1>1. Handed = OffsetInFile /\ Handed \in 0 .. Current.size BY HandedIs DEF IInv, Streams, Handed
<1>2. Current.size \in Nat BY FileFacts DEF IInv, Current, Streams
<1> DEFINE rest == Current.size - OffsetInFile
<1>3. max_bytes \in Nat /\ rest \in Nat /\ OffsetInFile \in Nat /\ OffsetInFile + rest = Current.size
  BY <1>1, <1>2, ExtractedAssumption
<1>4. ToRead(max_bytes) = Min({max_bytes, rest}) BY DEF ToRead
<1> HIDE DEF rest
<1>5. Min({max_bytes, rest}) = IF max_bytes <= rest THEN max_bytes ELSE rest BY <1>3, MinPair
<1>6. ToRead(max_bytes) \in Nat /\ ToRead(max_bytes) <= rest BY <1>3, <1>4, <1>5
<1>7. ~pending_patched.pending BY DEF IInv, PlaceOK
<1>8. OffsetInFile + ToRead(max_bytes) <= Current.size BY <1>2, <1>3, <1>6
<1> QED BY <1>1, <1>2, <1>3, <1>6, <1>7, <1>8

LEMMA FileStep ==
  ASSUME IInv, Streams, NEW max_bytes \in ChunkLimits, NextFileChunk(max_bytes)
  PROVE  IInv' /\ Moves
<1> DEFINE n == ToRead(max_bytes)
           c == current_index
<1>1. /\ ~PatchThis /\ ReadThere(OffsetInFile, n, TRUE)
      /\ current_offset_in_file' = OffsetInFile + n
      /\ current_index' = IF OffsetInFile + n >= Current.size THEN c + 1 ELSE c
      /\ started' = ~(OffsetInFile + n >= Current.size)
      /\ last_returned_name' = Current.path
      /\ Deliver(Current.path, BytesThere(OffsetInFile, n))
      /\ UNCHANGED <<pending_patched, failures>>
  BY DEF NextFileChunk
<1>2. /\ OffsetInFile \in Nat /\ n \in Nat /\ Current.size \in Nat
      /\ OffsetInFile + n <= Current.size
      /\ Handed = OffsetInFile /\ ~pending_patched.pending
  BY <1>1, ToReadIs
<1> HIDE DEF n
<1>3. FilesOK /\ SourceOK /\ c \in DOMAIN files
      /\ files' = files /\ xbe_patch' = xbe_patch /\ xbe_index' = xbe_index
  BY DEF IInv, Streams
<1>4. /\ UNCHANGED <<backing, parts, overrides>> /\ active' \in 0 .. Len(parts)
      /\ image # NoImage => UNCHANGED fsVars
  BY <1>1, <1>3, ReadThereIs
<1>5. BytesThere(OffsetInFile, n) = Span(c, OffsetInFile, n) BY <1>1, <1>2, <1>3, ReadIsSpan
<1>6. Deliver(Current.path, Span(current_index, Handed, n)) /\ Handed + n <= Current.size
  BY <1>1, <1>2, <1>5
<1>7. /\ DOMAIN files = 1 .. Len(files) /\ Len(files) \in Nat /\ c \in 1 .. Len(files) + 1
      /\ failures \in 0 .. MaxFailures /\ xbe_index \in 0 .. Len(files) /\ xbe_patch \in BOOLEAN
      /\ pending_patched.pending = FALSE
  BY <1>2, FileFacts DEF IInv, PlaceOK
<1>8. CASE OffsetInFile + n >= Current.size
  <2>1. current_index' = current_index + 1 /\ started' = FALSE /\ pending_patched'.pending = FALSE
        /\ failures' \in 0 .. MaxFailures
    BY <1>1, <1>7, <1>8
  <2>2. PlaceOK' /\ Handed' = 0 BY <2>1, NextFilePlace
  <2>3. Handed + n = Current.size BY <1>2, <1>8
  <2>4. ArrivedOK' BY <1>2, <1>3, <1>4, <1>6, <2>1, <2>2, <2>3, DeliverStep
  <2> QED BY <1>4, <2>1, <2>2, <2>4, StreamStep DEF Moves
<1>9. CASE ~(OffsetInFile + n >= Current.size)
  <2>1. current_index' = c /\ started' = TRUE BY <1>1, <1>9
  <2>2. Current' = Current /\ ~PatchThis' BY <1>1, <1>3, <2>1 DEF Current, PatchThis
  <2>3. Handed' = Handed + n BY <1>1, <1>2, <2>1, <2>2 DEF Handed, OffsetInFile
  <2>4. OffsetInFile + n \in 0 .. Current.size BY <1>2
  <2>5. PlaceOK' BY <1>1, <1>3, <1>7, <2>1, <2>2, <2>4 DEF PlaceOK
  <2>6. ArrivedOK' BY <1>2, <1>3, <1>4, <1>6, <2>1, <2>3, DeliverStep
  <2> QED
    <3>1. Handed \in Nat /\ Handed + n \in Nat /\ Handed <= Handed + n BY <1>2
    <3>2. Moves BY <2>1, <2>3, <3>1 DEF Moves
    <3> QED BY <1>4, <2>5, <2>6, <3>2, StreamStep
<1> QED BY <1>8, <1>9

LEMMA FailsStep ==
  ASSUME IInv, Streams, NEW max_bytes \in ChunkLimits, ChunkFails(max_bytes)
  PROVE  /\ IInv' /\ out' = out /\ current_index' = current_index
         /\ failures' = failures + 1
<1>1. /\ ~(PatchThis /\ pending_patched.pending)
      /\ current_offset_in_file' = IF PatchThis THEN current_offset_in_file ELSE OffsetInFile
      /\ started' = (started \/ ~PatchThis)
      /\ failures' = failures + 1
      /\ UNCHANGED <<current_index, pending_patched, out>>
  BY DEF ChunkFails, OffsetKeptOnThrow
<1>2. PICK offset, n, ok : ReadThere(offset, n, ok) BY DEF ChunkFails
<1>3. current_index \in DOMAIN files /\ failures < MaxFailures
      /\ files' = files /\ xbe_patch' = xbe_patch /\ xbe_index' = xbe_index
  BY DEF Streams
<1>4. /\ UNCHANGED <<backing, parts, overrides>> /\ active' \in 0 .. Len(parts)
      /\ image # NoImage => UNCHANGED fsVars
  BY <1>2, <1>3, ReadThereIs
<1>5. Current' = Current /\ PatchThis' = PatchThis BY <1>1, <1>3 DEF Current, PatchThis
<1>6. /\ started \in BOOLEAN /\ failures \in 0 .. MaxFailures
      /\ current_index \in 1 .. Len(files) + 1 /\ xbe_patch \in BOOLEAN /\ xbe_index \in 0 .. Len(files)
      /\ (started => ~PatchThis /\ current_offset_in_file \in 0 .. Current.size)
      /\ pending_patched.pending = FALSE
  BY <1>1 DEF IInv, PlaceOK
<1>7. failures' \in 0 .. MaxFailures BY <1>1, <1>3, <1>6, ExtractedAssumption
<1>8. Current.size \in Nat BY <1>3, FileFacts DEF IInv, Current
<1>9. OffsetInFile \in 0 .. Current.size \/ PatchThis BY <1>6, <1>8 DEF OffsetInFile
<1>10. CASE PatchThis
  <2>1. started' = FALSE BY <1>1, <1>6, <1>10
  <2>2. PlaceOK' BY <1>1, <1>3, <1>6, <1>7, <2>1 DEF PlaceOK
  <2>3. Handed = 0 /\ Handed' = 0 BY <1>1, <1>5, <1>6, <1>10 DEF Handed
  <2> QED
    <3>1. \A i, m : Got(i, m)' = Got(i, m) BY <1>3, <1>4, SpanKept DEF Got
    <3>2. ArrivedOK' BY <1>1, <1>3, <1>5, <2>3, <3>1 DEF IInv, ArrivedOK
    <3> QED BY <1>1, <1>4, <2>2, <3>2, StreamStep
<1>11. CASE ~PatchThis
  <2>1. started' = TRUE /\ current_offset_in_file' = OffsetInFile BY <1>1, <1>6, <1>11
  <2>2. PlaceOK' BY <1>1, <1>3, <1>5, <1>6, <1>7, <1>9, <1>11, <2>1 DEF PlaceOK
  <2>3. Handed' = Handed BY <1>5, <1>11, <2>1 DEF Handed, OffsetInFile
  <2> QED
    <3>1. \A i, m : Got(i, m)' = Got(i, m) BY <1>3, <1>4, SpanKept DEF Got
    <3>2. ArrivedOK' BY <1>1, <1>3, <1>5, <2>3, <3>1 DEF IInv, ArrivedOK
    <3> QED BY <1>1, <1>4, <2>2, <3>2, StreamStep
<1> QED BY <1>10, <1>11

LEMMA StutterStep ==
  ASSUME IInv, UNCHANGED vars
  PROVE  IInv'
<1>1. /\ UNCHANGED <<backing, parts, active, overrides, answer, phase, image, probed, files,
                     current_index, current_offset_in_file, started, last_returned_name, xbe_patch,
                     xbe_index, pending_patched, failures, out>>
  BY DEF vars, fsVars, sessionVars
<1>2. FileEntries' = FileEntries BY <1>1 DEF FileEntries
<1>3. SourceOK' BY <1>1, <1>2 DEF IInv, SourceOK
<1>4. FilesOK' BY <1>1, FilesKept DEF IInv
<1>5. IdleOK' BY <1>1 DEF IInv, IdleOK
<1>6. \A i, first, m : Span(i, first, m)' = Span(i, first, m) BY <1>1, SpanKept
<1>7. Current' = Current /\ PatchThis' = PatchThis /\ Handed' = Handed
  BY <1>1 DEF Current, PatchThis, Handed, OffsetInFile
<1>8. PlaceOK' BY <1>1, <1>6, <1>7 DEF IInv, PlaceOK
<1>9. ArrivedOK'
  <2>1. \A i, m : Got(i, m)' = Got(i, m) BY <1>1, <1>6 DEF Got
  <2> QED BY <1>1, <1>7, <2>1 DEF IInv, ArrivedOK
<1> QED BY <1>3, <1>4, <1>5, <1>8, <1>9 DEF IInv

LEMMA NextIInv == IInv /\ [Next]_vars => IInv'
<1> SUFFICES ASSUME IInv, [Next]_vars PROVE IInv' OBVIOUS
<1>1. CASE OpenSource BY <1>1, OpenSourceStep
<1>2. CASE UseFs BY <1>2, UseFsStep
<1>3. CASE OpenSession BY <1>3, OpenSessionStep
<1>4. CASE NextChunk
  <2>1. Streams BY <1>4, ChunkStreams
  <2>2. PICK max_bytes \in ChunkLimits :
      NextPatchedChunk(max_bytes) \/ NextFileChunk(max_bytes) \/ ChunkFails(max_bytes)
    BY <1>4 DEF NextChunk
  <2> QED BY <2>1, <2>2, PatchedStep, FileStep, FailsStep
<1>5. CASE UNCHANGED vars BY <1>5, StutterStep
<1> QED BY <1>1, <1>2, <1>3, <1>4, <1>5 DEF Next

-----------------------------------------------------------------------------
(* The theorems.                                                             *)

\* The source, the files and the place of a session stay in step, through
\* every call and every read that throws.
THEOREM Invariant == Spec => []IInv
<1>1. Init => IInv BY InitIInv
<1>2. IInv /\ [Next]_vars => IInv' BY NextIInv
<1> QED BY <1>1, <1>2, PTL DEF Spec

\* Whatever is extracted, patched or skipped and whatever throws, while the
\* session is at a file the driver gets a prefix of that file's own bytes under
\* its name, and all of them in the end; for a packed image, if it is stored
\* from the root of its volume on.
THEOREM SessionIsSound == Spec => []SessionSound
<1>1. IInv => SessionSound BY ArrivedWhole, InvTypeOK DEF SessionSound
<1> QED BY Invariant, <1>1, PTL

-----------------------------------------------------------------------------
(* The session is a PartStream.                                              *)

LEMMA WrittenIs ==
  ASSUME IInv
  PROVE  /\ DOMAIN Written = DOMAIN files /\ DOMAIN OutputManifest = DOMAIN files
         /\ HasLen(Written, Len(files)) /\ HasLen(OutputManifest, Len(files))
         /\ \A i \in DOMAIN files :
              /\ OutputManifest[i] = files[i].size
              /\ i < current_index => Written[i] = files[i].size
              /\ i = current_index => Written[i] = Handed
              /\ i > current_index => Written[i] = 0
<1>1. /\ DOMAIN files = 1 .. Len(files) /\ Len(files) \in Nat
      /\ \A i \in DOMAIN files : files[i].size \in Nat
  BY FileFacts DEF IInv
<1>2. /\ Written = [i \in DOMAIN files |-> IF i \in DOMAIN out THEN Len(out[i].bytes) ELSE 0]
      /\ OutputManifest = [i \in DOMAIN files |-> files[i].size]
  BY DEF Written, OutputManifest
<1>3. HasLen(Written, Len(files)) /\ HasLen(OutputManifest, Len(files)) BY <1>1, <1>2 DEF HasLen
<1>4. ASSUME NEW i \in DOMAIN files, i < current_index PROVE Written[i] = files[i].size
  <2>1. i \in DOMAIN out /\ out[i] = Got(i, files[i].size) BY <1>4 DEF IInv, ArrivedOK
  <2>b. out[i].bytes = Span(i, 0, files[i].size) BY <2>1 DEF Got
  <2>2. Len(Span(i, 0, files[i].size)) = files[i].size BY <1>1, SpanIs
  <2> QED BY <1>2, <2>1, <2>b, <2>2
<1>5. ASSUME NEW i \in DOMAIN files, i = current_index PROVE Written[i] = Handed
  <2>1. Handed \in Nat /\ Current = files[i]
    <3>1. current_index \in DOMAIN files BY <1>5
    <3>2. Handed \in 0 .. Current.size /\ Current.size \in Nat BY <1>1, <3>1, HandedIs DEF IInv, Current
    <3> QED BY <1>5, <3>2 DEF Current
  <2>2. Len(Span(i, 0, Handed)) = Handed BY <2>1, SpanIs
  <2>3. IF i \in DOMAIN out THEN out[i].bytes = Span(i, 0, Handed) ELSE Handed = 0
    BY <1>5, <2>1 DEF IInv, ArrivedOK, Got
  <2> QED BY <1>2, <2>2, <2>3
<1>6. ASSUME NEW i \in DOMAIN files, i > current_index PROVE Written[i] = 0
  <2>1. ASSUME i \in DOMAIN out PROVE FALSE
    <3>1. i <= current_index BY <2>1 DEF IInv, ArrivedOK
    <3>2. i \in Nat /\ current_index \in Nat BY <1>1 DEF IInv, PlaceOK
    <3> QED BY <1>6, <3>1, <3>2
  <2> QED BY <1>2, <2>1
<1>7. DOMAIN Written = DOMAIN files /\ DOMAIN OutputManifest = DOMAIN files
      /\ \A i \in DOMAIN files : OutputManifest[i] = files[i].size
  BY <1>2
<1> QED BY <1>3, <1>4, <1>5, <1>6, <1>7

\* Done means complete.
LEMMA DoneComplete ==
  ASSUME IInv, IsDone
  PROVE  Written = OutputManifest
<1>1. /\ DOMAIN files = 1 .. Len(files) /\ Len(files) \in Nat BY FileFacts DEF IInv
<1>2. \A i \in DOMAIN files : i < current_index
  <2>1. current_index \in Nat /\ current_index > Len(files) BY <1>1 DEF IInv, PlaceOK, IsDone
  <2> QED BY <1>1, <2>1
<1>3. /\ HasLen(Written, Len(files)) /\ HasLen(OutputManifest, Len(files))
      /\ \A i \in 1 .. Len(files) : Written[i] = OutputManifest[i]
  BY <1>1, <1>2, WrittenIs
<1> QED BY ONLY <1>3, SequenceSame

HandedFits == current_index \in DOMAIN files => Handed \in 0 .. Current.size

SizesKnown ==
  /\ HasLen(files, Len(files)) /\ DOMAIN files = 1 .. Len(files) /\ Len(files) \in Nat
  /\ \A i \in DOMAIN files : files[i].size \in Nat

LEMMA InvFits == IInv => HandedFits /\ SizesKnown
<1>1. IInv => HandedFits BY HandedIs DEF IInv, HandedFits
<1>2. IInv => SizesKnown BY FileFacts DEF IInv, SizesKnown
<1> QED BY <1>1, <1>2

LEMMA OpenStream ==
  ASSUME IInv, IInv', OpenSession
  PROVE  Driver!Publish
<1>1. phase = "open" /\ phase' = "streaming" /\ UNCHANGED <<current_index, failures, out>>
  BY DEF OpenSession
<1>2. current_index = 1 /\ failures = 0 /\ out = <<>> BY <1>1 DEF IInv, IdleOK
<1>3. Stage = "planning" /\ Stage' = IF IsDone' THEN "done" ELSE "streaming"
  BY <1>1, <1>2, ExtractedAssumption DEF Stage
<1>4. (IInv /\ IsDone => Written = OutputManifest)' BY DoneComplete, PTL
<1>5. Stage' = "done" => Written' = OutputManifest' BY <1>3, <1>4
<1>6. OutputManifest' \in Seq(Nat)
  <2>0. (IInv => HandedFits /\ SizesKnown)' BY InvFits, PTL
  <2>1. /\ DOMAIN files' = 1 .. Len(files') /\ Len(files') \in Nat
        /\ \A i \in DOMAIN files' : files'[i].size \in Nat
    BY <2>0 DEF SizesKnown
  <2>2. OutputManifest' = [i \in 1 .. Len(files') |-> files'[i].size] BY <2>1 DEF OutputManifest
  <2> DEFINE n == Len(files')
             m == OutputManifest'
  <2>3. HasLen(m, n) /\ \A i \in 1 .. n : m[i] \in Nat BY <2>1, <2>2 DEF HasLen
  <2> HIDE DEF n, m
  <2>4. m \in Seq(Nat) BY ONLY <2>3, SequenceIsSeq
  <2> QED BY <2>4 DEF m
<1>7. Written' = [p \in DOMAIN OutputManifest' |-> 0]
  <2>1. out' = <<>> /\ DOMAIN <<>> = {} BY <1>1, <1>2
  <2> QED BY <2>1 DEF Written, OutputManifest
<1> QED BY <1>3, <1>5, <1>6, <1>7 DEF Driver!Publish, Driver!Complete

LEMMA MoveStream ==
  ASSUME IInv, IInv', Streams, Moves, UNCHANGED failures
  PROVE  Driver!Next
<1> DEFINE c == current_index
<1>1. /\ phase = "streaming" /\ phase' = "streaming" /\ c \in DOMAIN files /\ failures < MaxFailures
      /\ files' = files
  BY DEF Streams
<1>2. /\ DOMAIN files = 1 .. Len(files) /\ Len(files) \in Nat
      /\ \A i \in DOMAIN files : files[i].size \in Nat
  BY FileFacts DEF IInv
<1>3. /\ DOMAIN Written = DOMAIN files /\ DOMAIN OutputManifest = DOMAIN files
      /\ HasLen(Written, Len(files)) /\ HasLen(OutputManifest, Len(files))
      /\ \A i \in DOMAIN files :
              /\ OutputManifest[i] = files[i].size
              /\ i < current_index => Written[i] = files[i].size
              /\ i = current_index => Written[i] = Handed
              /\ i > current_index => Written[i] = 0
  BY WrittenIs
<1>4. (IInv => /\ DOMAIN Written = DOMAIN files /\ DOMAIN OutputManifest = DOMAIN files
               /\ HasLen(Written, Len(files)) /\ HasLen(OutputManifest, Len(files))
               /\ \A i \in DOMAIN files :
                    /\ OutputManifest[i] = files[i].size
                    /\ i < current_index => Written[i] = files[i].size
                    /\ i = current_index => Written[i] = Handed
                    /\ i > current_index => Written[i] = 0)'
  BY WrittenIs, PTL
<1>5. OutputManifest' = OutputManifest BY <1>1 DEF OutputManifest
<1>6. Stage = "streaming" /\ Stage' \in {"streaming", "done"} /\ (Stage' = "done" => IsDone')
  <2>1. ~(c > Len(files)) /\ failures # MaxFailures BY <1>1, <1>2, ExtractedAssumption DEF IInv, PlaceOK
  <2> QED BY <1>1, <2>1 DEF Stage, IsDone
<1>7. (IInv /\ IsDone => Written = OutputManifest)' BY DoneComplete, PTL
<1>8. Handed \in 0 .. files[c].size BY <1>1, HandedIs DEF IInv, Current
<1>9. (IInv => HandedFits /\ SizesKnown)' BY InvFits, PTL
<1>10. \E size \in Written[c] .. OutputManifest[c] : Written' = [Written EXCEPT ![c] = size]
  <2>1. CASE c' = c /\ Handed' \in Nat /\ Handed <= Handed'
    <3>1. Handed' \in 0 .. files[c].size BY <1>1, <1>9, <2>1 DEF Current, HandedFits
    <3>2. \A i \in DOMAIN files : Written'[i] = IF i = c THEN Handed' ELSE Written[i]
      <4>1. \A i \in DOMAIN files : i < c \/ i = c \/ i > c BY <1>1, <1>2
      <4> QED BY <1>1, <1>3, <1>4, <2>1, <4>1
    <3>3. Written' = [Written EXCEPT ![c] = Handed'] BY <1>1, <1>2, <1>3, <1>4, <3>2 DEF HasLen
    <3>4. Handed' \in Written[c] .. OutputManifest[c] BY <1>1, <1>2, <1>3, <1>8, <2>1, <3>1
    <3> QED BY <3>3, <3>4
  <2>2. CASE c' = c + 1 /\ Handed' = 0
    <3>1. \A i \in DOMAIN files : Written'[i] = IF i = c THEN files[c].size ELSE Written[i]
      <4>1. \A i \in DOMAIN files : \/ i < c /\ i < c + 1 /\ i # c
                                    \/ i = c /\ i < c + 1
                                    \/ i = c + 1 /\ i > c /\ i # c
                                    \/ i > c + 1 /\ i > c /\ i # c
        BY <1>1, <1>2
      <4> QED BY <1>1, <1>3, <1>4, <2>2, <4>1
    <3>2. Written' = [Written EXCEPT ![c] = files[c].size] BY <1>1, <1>2, <1>3, <1>4, <3>1 DEF HasLen
    <3>3. files[c].size \in Written[c] .. OutputManifest[c] BY <1>1, <1>2, <1>3, <1>8
    <3> QED BY <3>2, <3>3
  <2> QED BY <2>1, <2>2 DEF Moves
<1>11. Driver!Deliver(c)
  <2>1. /\ \A q \in DOMAIN OutputManifest : q < c => Written[q] = OutputManifest[q]
        /\ \A q \in DOMAIN OutputManifest : q > c => Written[q] = 0
    BY <1>3
  <2>2. Stage' = "done" => Written' = OutputManifest' BY <1>6, <1>7
  <2> HIDE DEF c
  <2> QED BY <1>5, <1>6, <1>10, <2>1, <2>2 DEF Driver!Deliver, Driver!Complete
<1> QED BY <1>1, <1>3, <1>11 DEF Driver!Next

LEMMA StepStreams == IInv /\ IInv' /\ [Next]_vars => [Driver!Next]_(Driver!vars)
<1> SUFFICES ASSUME IInv, IInv', [Next]_vars PROVE [Driver!Next]_(Driver!vars) OBVIOUS
<1>1. CASE OpenSource
  <2>1. /\ phase = "new" /\ phase' \in {"refused", "open"}
        /\ UNCHANGED <<files, current_index, failures, out>>
    BY <1>1 DEF OpenSource, sessionVars
  <2>2. Stage = "planning" /\ Stage' \in {"planning", "failed"}
    <3>1. failures = 0 BY <2>1 DEF IInv, IdleOK
    <3> QED BY <2>1, <3>1, ExtractedAssumption DEF Stage
  <2>3. OutputManifest' = OutputManifest /\ Written' = Written BY <2>1 DEF OutputManifest, Written
  <2> QED BY <2>2, <2>3 DEF Driver!Next, Driver!Fail, Driver!vars
<1>2. CASE UseFs
  <2>1. UNCHANGED <<phase, files, current_index, failures, out>> BY <1>2 DEF UseFs, sessionVars
  <2>2. Stage' = Stage /\ OutputManifest' = OutputManifest /\ Written' = Written
    BY <2>1 DEF Stage, IsDone, OutputManifest, Written
  <2> QED BY <2>2 DEF Driver!vars
<1>3. CASE OpenSession BY <1>3, OpenStream DEF Driver!Next
<1>4. CASE NextChunk
  <2>1. Streams BY <1>4, ChunkStreams
  <2>2. PICK max_bytes \in ChunkLimits :
      NextPatchedChunk(max_bytes) \/ NextFileChunk(max_bytes) \/ ChunkFails(max_bytes)
    BY <1>4 DEF NextChunk
  <2>3. CASE NextPatchedChunk(max_bytes)
    <3>1. Moves /\ UNCHANGED failures BY <2>1, <2>3, PatchedStep DEF NextPatchedChunk
    <3> QED BY <2>1, <3>1, MoveStream
  <2>4. CASE NextFileChunk(max_bytes)
    <3>1. Moves /\ UNCHANGED failures BY <2>1, <2>4, FileStep DEF NextFileChunk
    <3> QED BY <2>1, <3>1, MoveStream
  <2>5. CASE ChunkFails(max_bytes)
    <3>1. out' = out /\ current_index' = current_index /\ failures' = failures + 1
      BY <2>1, <2>5, FailsStep
    <3>2. phase = "streaming" /\ phase' = "streaming" /\ files' = files /\ current_index \in DOMAIN files
          /\ failures < MaxFailures
      BY <2>1 DEF Streams
    <3>3. DOMAIN files = 1 .. Len(files) /\ Len(files) \in Nat BY FileFacts DEF IInv
    <3>4. ~IsDone /\ ~IsDone' /\ failures # MaxFailures
      BY <3>1, <3>2, <3>3, ExtractedAssumption DEF IsDone, IInv, PlaceOK
    <3>5. Stage = "streaming" /\ Stage' \in {"streaming", "failed"} BY <3>2, <3>4 DEF Stage
    <3>6. OutputManifest' = OutputManifest /\ Written' = Written BY <3>1, <3>2 DEF OutputManifest, Written
    <3> QED BY <3>5, <3>6 DEF Driver!Next, Driver!Fail, Driver!vars
  <2> QED BY <2>2, <2>3, <2>4, <2>5
<1>5. CASE UNCHANGED vars
  <2>1. UNCHANGED <<phase, files, current_index, failures, out>> BY <1>5 DEF vars, sessionVars
  <2>2. Stage' = Stage /\ OutputManifest' = OutputManifest /\ Written' = Written
    BY <2>1 DEF Stage, IsDone, OutputManifest, Written
  <2> QED BY <2>2 DEF Driver!vars
<1> QED BY <1>1, <1>2, <1>3, <1>4, <1>5 DEF Next

\* A session of extraction is a PartStream session: opening it publishes the
\* manifest, and next_chunk() hands over the promised bytes of one file after
\* the other, whichever calls throw.
THEOREM StreamsParts == Spec => Driver!Spec
<1>1. Init => Driver!Init
  <2> SUFFICES ASSUME Init PROVE Driver!Init OBVIOUS
  <2>1. Stage = "planning" BY ExtractedAssumption DEF Init, Stage
  <2>2. OutputManifest = <<>> /\ Written = <<>> BY DEF Init, OutputManifest, Written
  <2> QED BY <2>1, <2>2 DEF Driver!Init
<1>2. IInv /\ IInv' /\ [Next]_vars => [Driver!Next]_(Driver!vars) BY StepStreams
<1> QED BY Invariant, <1>1, <1>2, PTL DEF Spec, Driver!Spec

-----------------------------------------------------------------------------
(* The view of files is a FileStore.                                         *)

Viewed == phase \in {"open", "streaming"} /\ image = NoImage

\* The number that stands for a byte.
NumberAt(i, k) == Numbered(i, k, IF i \in overrides THEN "override" ELSE "source")

LEMMA StoreIs ==
  ASSUME SourceOK, Viewed
  PROVE  /\ Store = [i \in DOMAIN parts |-> [k \in 1 .. parts[i].size |-> NumberAt(i, k)]]
         /\ \A i \in DOMAIN parts :
              /\ HasLen(Store[i], parts[i].size) /\ Len(Store[i]) = parts[i].size
              /\ Store[i] \in Seq(Int)
         /\ HasLen(Store, Len(parts)) /\ Store \in Seq(Seq(Int))
<1>1. /\ parts \in Seq(ListedFile) /\ backing # "none" /\ image = NoImage BY DEF SourceOK, Viewed
<1>2. /\ DOMAIN parts = 1 .. Len(parts) /\ Len(parts) \in Nat
      /\ \A i \in DOMAIN parts : parts[i].size \in Nat /\ FileEntries[i].path = parts[i].path
  BY <1>1, PartsAre
<1>3. Store = [i \in DOMAIN parts |-> Number(InListing(i))] BY DEF Store, Viewed
<1>4. ASSUME NEW i \in DOMAIN parts
      PROVE  Number(InListing(i)) = [k \in 1 .. parts[i].size |-> NumberAt(i, k)]
  <2> DEFINE b(k) == [file |-> i, pos |-> k, by |-> IF i \in overrides THEN "override" ELSE "source"]
  <2>1. InListing(i) = [k \in 1 .. parts[i].size |-> b(k)] BY <1>1, <1>2, ListingPlace
  <2>2. \A k \in 1 .. parts[i].size : NumberAt(i, k) = Numbered(b(k).file, b(k).pos, b(k).by)
    BY DEF NumberAt
  <2> HIDE DEF b
  <2> QED BY <2>1, <2>2 DEF Number
<1>5. Store = [i \in DOMAIN parts |-> [k \in 1 .. parts[i].size |-> NumberAt(i, k)]] BY <1>3, <1>4
<1>6. ASSUME NEW i \in DOMAIN parts
      PROVE  /\ HasLen(Store[i], parts[i].size) /\ Len(Store[i]) = parts[i].size
             /\ Store[i] \in Seq(Int)
  <2> DEFINE s == Store[i]
             n == parts[i].size
  <2>1. n \in Nat /\ i \in Nat BY <1>2
  <2>2. s = [k \in 1 .. n |-> NumberAt(i, k)] BY <1>5
  <2>3. \A k \in 1 .. n : NumberAt(i, k) \in Int
    <3> SUFFICES ASSUME NEW k \in 1 .. n PROVE NumberAt(i, k) \in Int OBVIOUS
    <3>1. k \in Int /\ i + k \in Int BY <2>1
    <3>2. (i + k) * (i + k) \in Int BY <3>1
    <3> QED BY <3>1, <3>2 DEF NumberAt, Numbered
  <2> HIDE DEF s, n
  <2>4. HasLen(s, n) /\ \A k \in 1 .. n : s[k] \in Int BY <2>1, <2>2, <2>3 DEF HasLen
  <2>5. s \in Seq(Int) BY ONLY <2>4, SequenceIsSeq
  <2>6. Len(s) = n BY <2>4, SequenceLength
  <2> QED BY <2>4, <2>5, <2>6 DEF s, n
<1>7. HasLen(Store, Len(parts)) BY <1>2, <1>5 DEF HasLen
<1>8. Store \in Seq(Seq(Int))
  <2>1. \A i \in 1 .. Len(parts) : Store[i] \in Seq(Int) BY <1>2, <1>6
  <2> QED BY ONLY <1>7, <2>1, SequenceIsSeq
<1> QED BY <1>5, <1>6, <1>7, <1>8

\* Without one there is nothing in the store.
LEMMA NoStore ==
  ASSUME SourceOK, ~Viewed
  PROVE  Store = <<>>
<1>1. CASE phase \in {"new", "refused"} BY <1>1 DEF Store
<1>2. CASE phase \notin {"new", "refused"}
  <2>1. image # NoImage BY <1>2 DEF Viewed, SourceOK
  <2>2. parts = <<>> BY <2>1 DEF SourceOK
  <2>3. DOMAIN parts = {} BY <2>2
  <2> QED BY <1>2, <2>3 DEF Store
<1> QED BY <1>1, <1>2

Answered == [answer EXCEPT !.bytes = Number(@)]

\* A range of a file of the view is that range of the store's file.
LEMMA AnswerReads ==
  ASSUME SourceOK, Viewed, UNCHANGED Store,
         NEW file \in DOMAIN parts, NEW offset \in Nat, NEW len \in Nat, NEW ok,
         offset + len <= parts[file].size, Answer(file, offset, len, ok)
  PROVE  View!Read
<1> DEFINE size == parts[file].size
           s == Store[file]
           bytes == RangeBytes(file, offset, len)
           r == SubSeq(s, offset + 1, offset + len)
<1>1. /\ answer' = [file |-> file, offset |-> offset, len |-> len, ok |-> ok,
                    bytes |-> IF ok THEN bytes ELSE <<>>]
  BY DEF Answer
<1>2. /\ s = [k \in 1 .. size |-> NumberAt(file, k)]
      /\ HasLen(s, size) /\ Len(s) = size /\ DOMAIN Store = DOMAIN parts
  BY StoreIs
<1>3. size \in Nat BY <1>2 DEF HasLen
<1>4. Number(bytes) = [k \in 1 .. len |-> NumberAt(file, offset + k)]
  <2> DEFINE b(k) == [file |-> IF file \in overrides \/ backing = "package" THEN file ELSE ReaderOf(file),
                      pos |-> offset + k, by |-> IF file \in overrides THEN "override" ELSE "source"]
  <2>1. bytes = [k \in 1 .. len |-> b(k)] BY DEF RangeBytes
  <2>2. \A k \in 1 .. len :
      NumberAt(file, offset + k) = Numbered(b(k).file, b(k).pos, b(k).by)
    BY DEF NumberAt, ReaderOf
  <2> HIDE DEF b, bytes
  <2> QED BY <2>1, <2>2 DEF Number
<1> HIDE DEF size, s
<1>5. Number(bytes) = r
  <2>1. /\ offset + 1 \in 1 .. size + 1 /\ offset + len \in (offset + 1) - 1 .. size
        /\ (offset + len) - (offset + 1) + 1 = len
    BY <1>3 DEF size
  <2>2. IsSlice(r, s, offset + 1, offset + len)
    <3> DEFINE a == offset + 1
               b == offset + len
    <3>1. a \in 1 .. size + 1 /\ b \in a - 1 .. size BY <2>1
    <3> HIDE DEF a, b
    <3>2. IsSlice(SubSeq(s, a, b), s, a, b) BY ONLY <1>2, <3>1, SubSeqIsSlice
    <3> QED BY <3>2 DEF a, b
  <2> HIDE DEF r
  <2>3. HasLen(r, len) /\ \A k \in 1 .. len : r[k] = s[(offset + 1) + k - 1] BY <2>1, <2>2 DEF IsSlice
  <2> DEFINE t == Number(bytes)
  <2>4. HasLen(t, len) /\ \A k \in 1 .. len : t[k] = NumberAt(file, offset + k) BY <1>4 DEF HasLen
  <2>5. ASSUME NEW k \in 1 .. len PROVE r[k] = t[k]
    <3>1. (offset + 1) + k - 1 = offset + k /\ offset + k \in 1 .. size BY <1>3 DEF size
    <3> QED BY <1>2, <2>3, <2>4, <3>1
  <2> HIDE DEF t
  <2>6. r = t BY ONLY <2>3, <2>4, <2>5, SequenceSame
  <2> QED BY <2>6 DEF t
<1> HIDE DEF bytes, r
<1>6. /\ Answered'.file = file /\ Answered'.offset = offset /\ Answered'.len = len /\ Answered'.ok = ok
      /\ ok => Answered'.bytes = Number(bytes)
  BY <1>1 DEF Answered
<1>7. (Answered'.ok => /\ Answered'.file \in DOMAIN Store
                       /\ Answered'.offset + Answered'.len <= Len(Store[Answered'.file])
                       /\ Answered'.bytes = SubSeq(Store[Answered'.file], Answered'.offset + 1,
                                                   Answered'.offset + Answered'.len))
  BY <1>2, <1>5, <1>6 DEF r, s, size
<1> QED BY <1>7 DEF View!Read, View!Answered, View!InRange, Answered

\* Before the source is open nobody has read.
AnswerIdle == phase = "new" => answer = NoAnswer

LEMMA StaysIdle == IInv /\ AnswerIdle /\ [Next]_vars => AnswerIdle'
<1> SUFFICES ASSUME IInv, AnswerIdle, [Next]_vars PROVE AnswerIdle' OBVIOUS
<1>1. CASE OpenSource BY <1>1 DEF OpenSource, AnswerIdle
<1>2. CASE UseFs BY <1>2 DEF UseFs, AnswerIdle
<1>3. CASE OpenSession BY <1>3 DEF OpenSession, AnswerIdle
<1>4. CASE NextChunk BY <1>4 DEF NextChunk, AnswerIdle
<1>5. CASE UNCHANGED vars BY <1>5 DEF vars, fsVars, AnswerIdle
<1> QED BY <1>1, <1>2, <1>3, <1>4, <1>5 DEF Next

\* What the store is, of a view and without one.
StoreShape ==
  IF Viewed
  THEN /\ Store \in Seq(Seq(Int)) /\ DOMAIN Store = DOMAIN parts
       /\ \A i \in DOMAIN parts : /\ Store[i] = [k \in 1 .. parts[i].size |-> NumberAt(i, k)]
                                  /\ Len(Store[i]) = parts[i].size /\ Store[i] \in Seq(Int)
  ELSE Store = <<>>

LEMMA StoreShaped == SourceOK => StoreShape
<1> SUFFICES ASSUME SourceOK PROVE StoreShape OBVIOUS
<1>1. CASE Viewed
  <2>1. Store = [i \in DOMAIN parts |-> [k \in 1 .. parts[i].size |-> NumberAt(i, k)]] BY <1>1, StoreIs
  <2>2. /\ Store \in Seq(Seq(Int))
        /\ \A i \in DOMAIN parts : Len(Store[i]) = parts[i].size /\ Store[i] \in Seq(Int)
    BY <1>1, StoreIs
  <2> HIDE DEF Store
  <2>3. \A i \in DOMAIN parts : Store[i] = [k \in 1 .. parts[i].size |-> NumberAt(i, k)] BY <2>1
  <2> QED BY <1>1, <2>1, <2>2, <2>3 DEF StoreShape
<1>2. CASE ~Viewed BY <1>2, NoStore DEF StoreShape
<1> QED BY <1>1, <1>2

LEMMA StoreKept ==
  ASSUME UNCHANGED <<parts, overrides>>,
         (phase \in {"new", "refused"}) = (phase' \in {"new", "refused"})
  PROVE  Store' = Store
<1>1. FileEntries' = FileEntries BY DEF FileEntries
<1>2. \A i : InListing(i)' = InListing(i) BY <1>1 DEF InListing
<1> QED BY <1>1, <1>2 DEF Store

LEMMA ViewVars == UNCHANGED <<Store, answer>> => UNCHANGED View!vars
<1> QED BY DEF View!vars

LEMMA OpenView ==
  ASSUME IInv, IInv', AnswerIdle, OpenSource
  PROVE  [View!Next]_(View!vars)
<1>1. /\ phase = "new" /\ phase' \in {"refused", "open"}
      /\ UNCHANGED <<backing, parts, active, overrides, answer, image>>
  BY DEF OpenSource, fsVars
<1>2. Store = <<>> BY <1>1 DEF Store
<1>3. StoreShape'
  <2>1. (SourceOK => StoreShape)' BY StoreShaped, PTL
  <2> QED BY <2>1 DEF IInv
<1>4. CASE Viewed'
  <2>1. Store' \in Seq(Seq(Int)) BY <1>3, <1>4 DEF StoreShape
  <2>2. answer' = NoAnswer BY <1>1 DEF AnswerIdle
  <2>3. Answered' = View!NoAnswer
    <3>1. Number(<<>>) = <<>> BY DEF Number
    <3> QED BY <2>2, <3>1 DEF Answered, NoAnswer, View!NoAnswer
  <2> QED BY <1>2, <2>1, <2>3 DEF View!Next, View!Open, Answered
<1>5. CASE ~Viewed'
  <2>1. Store' = <<>> BY <1>3, <1>5 DEF StoreShape
  <2> QED BY <1>1, <1>2, <2>1, ViewVars
<1> QED BY <1>4, <1>5

LEMMA UseView ==
  ASSUME IInv, IInv', UseFs
  PROVE  [View!Next]_(View!vars)
<1>1. /\ phase = "open" /\ image = NoImage /\ UNCHANGED <<phase, image>> BY DEF UseFs
<1>2. Viewed /\ Viewed' BY <1>1 DEF Viewed
<1>3. SourceOK /\ parts \in Seq(ListedFile) BY <1>1 DEF IInv, SourceOK
<1>4. \A i \in DOMAIN parts : parts[i].size \in Nat BY <1>3, PartsAre
<1>5. ASSUME NEW path \in Paths, OverrideFile(path) PROVE View!Replace
  <2> DEFINE file == Find(path)
  <2>1. /\ file \in DOMAIN parts /\ overrides' = overrides \cup {file}
        /\ UNCHANGED <<parts, answer>>
    BY <1>3, <1>5, FindIs DEF OverrideFile
  <2>2. StoreShape /\ StoreShape'
    <3>1. (SourceOK => StoreShape)' BY StoreShaped, PTL
    <3> QED BY <1>3, <3>1, StoreShaped DEF IInv
  <2> HIDE DEF file
  <2>3. /\ Store' \in Seq(Seq(Int)) /\ DOMAIN Store = DOMAIN parts /\ DOMAIN Store' = DOMAIN parts
        /\ \A i \in DOMAIN parts : /\ Len(Store[i]) = parts[i].size
                                   /\ Len(Store'[i]) = parts[i].size /\ Store'[i] \in Seq(Int)
    BY <1>2, <2>1, <2>2 DEF StoreShape
  <2>4. Store' \in [DOMAIN Store -> Seq(Int)]
    <3> DEFINE s == Store'
    <3>1. HasLen(s, Len(s)) BY <2>3, SeqIsSequence
    <3> HIDE DEF s
    <3>2. s = [i \in DOMAIN s |-> s[i]] BY <3>1 DEF HasLen
    <3> QED BY <2>3, <3>2 DEF s
  <2>5. ASSUME NEW i \in DOMAIN parts, i # file PROVE Store'[i] = Store[i]
    <3>1. \A k : NumberAt(i, k)' = NumberAt(i, k) BY <2>1, <2>5 DEF NumberAt
    <3>2. /\ Store[i] = [k \in 1 .. parts[i].size |-> NumberAt(i, k)]
          /\ Store'[i] = [k \in 1 .. parts[i].size |-> NumberAt(i, k)']
      BY <1>2, <2>1, <2>2 DEF StoreShape
    <3> QED BY <3>1, <3>2
  <2>6. Answered' = Answered BY <2>1 DEF Answered
  <2>7. /\ file \in DOMAIN Store /\ Len(Store'[file]) = Len(Store[file])
        /\ \A other \in DOMAIN Store \ {file} : Store'[other] = Store[other]
    BY <2>1, <2>3, <2>5
  <2> QED BY <2>4, <2>6, <2>7 DEF View!Replace, Answered
<1>6. ASSUME NEW path \in Paths, NEW range \in Ranges, CopyFileIn(path, range[1], range[2])
      PROVE  View!Read
  <2> DEFINE file == Find(path)
             offset == range[1]
             len == CopyLen(file, offset, range[2])
  <2>1. /\ file \in DOMAIN parts /\ InBounds(file, offset, 0)
        /\ UNCHANGED <<backing, parts, overrides>>
    BY <1>3, <1>6, FindIs DEF CopyFileIn
  <2>2. PICK ok \in BOOLEAN : Answer(file, offset, len, ok) BY <1>6 DEF CopyFileIn
  <2>3. UNCHANGED Store BY <1>1, <2>1, StoreKept
  <2>4. offset \in Nat /\ range[2] \in Nat BY ExtractedAssumption
  <2>5. len \in Nat /\ offset + len <= parts[file].size
    <3> DEFINE size == parts[file].size
               x == range[2]
               left == size - offset
    <3>1. size \in Nat /\ offset <= size BY <1>4, <2>1, <2>4 DEF InBounds
    <3>2. left \in Nat /\ offset + left = size BY <2>4, <3>1
    <3>3. len = Min({x, Max({left, 0})}) BY DEF CopyLen
    <3> HIDE DEF size, x, left, len, offset
    <3>4. Max({left, 0}) = left
      <4>1. left \in Int /\ 0 \in Int /\ left >= 0 BY <3>2
      <4> QED BY <4>1, MaxPair
    <3>5. x \in Nat BY <2>4 DEF x
    <3>6. len = IF x <= left THEN x ELSE left
      <4>1. x \in Int /\ left \in Int BY <3>2, <3>5
      <4> QED BY <3>3, <3>4, <4>1, MinPair
    <3>7. len \in Nat /\ len <= left BY <3>2, <3>5, <3>6
    <3>8. offset \in Nat BY <2>4 DEF offset
    <3> QED BY <3>1, <3>2, <3>7, <3>8 DEF size
  <2> HIDE DEF file, offset, len
  <2> QED BY <1>2, <1>3, <2>1, <2>2, <2>3, <2>4, <2>5, AnswerReads DEF offset
<1>7. ASSUME ReadLaunchExecutable PROVE View!Read
  <2> DEFINE file == LaunchExecutable
             len == parts[file].size
  <2>1. /\ file \in DOMAIN parts /\ UNCHANGED <<backing, parts, overrides>>
    BY <1>3, <1>7, LaunchIs DEF ReadLaunchExecutable
  <2>2. PICK ok \in BOOLEAN : Answer(file, 0, len, ok) BY <1>7 DEF ReadLaunchExecutable
  <2>3. UNCHANGED Store BY <1>1, <2>1, StoreKept
  <2>4. len \in Nat /\ 0 + len <= len /\ 0 \in Nat BY <1>4, <2>1
  <2> HIDE DEF file
  <2> QED BY <1>2, <1>3, <2>1, <2>2, <2>3, <2>4, AnswerReads
<1> QED BY <1>5, <1>6, <1>7 DEF UseFs, View!Next

\* A read of the session is one of the view, or of a disc.
LEMMA ThereView ==
  ASSUME IInv, Streams, NEW offset \in Nat, NEW n \in Nat, NEW ok, ReadThere(offset, n, ok),
         offset + n <= Current.size
  PROVE  [View!Next]_(View!vars)
<1>1. SourceOK /\ GoodFile(Current) /\ phase = "streaming" /\ phase' = phase
  BY FileFacts DEF IInv, Current, Streams
<1>2. CASE image = NoImage
  <2> DEFINE file == Current.fs_index
  <2>1. file \in DOMAIN parts /\ Current.size = parts[file].size BY <1>1, <1>2 DEF GoodFile
  <2>2. Answer(file, offset, n, ok) /\ UNCHANGED <<backing, parts, overrides>> BY <1>2 DEF ReadThere
  <2>3. UNCHANGED Store BY <1>1, <2>2, StoreKept
  <2>4. Viewed BY <1>1, <1>2 DEF Viewed
  <2> HIDE DEF file
  <2>5. View!Read BY <1>1, <2>1, <2>2, <2>3, <2>4, AnswerReads
  <2> QED BY <2>5 DEF View!Next
<1>3. CASE image # NoImage
  <2>1. UNCHANGED <<parts, overrides, answer>> BY <1>3 DEF ReadThere, fsVars
  <2> QED BY <1>1, <2>1, StoreKept, ViewVars
<1> QED BY <1>2, <1>3

LEMMA ChunkViews ==
  ASSUME IInv, NextChunk
  PROVE  [View!Next]_(View!vars)
<1>1. Streams BY ChunkStreams
<1>2. PICK max_bytes \in ChunkLimits :
    NextPatchedChunk(max_bytes) \/ NextFileChunk(max_bytes) \/ ChunkFails(max_bytes)
  BY DEF NextChunk
<1>3. /\ Current.size \in Nat /\ 0 \in Nat /\ 0 + Current.size <= Current.size
      /\ UNCHANGED phase
  BY <1>1, FileFacts DEF IInv, Current, Streams
<1>4. CASE NextPatchedChunk(max_bytes)
  <2>1. CASE pending_patched.pending
    <3>1. UNCHANGED <<parts, overrides, answer>> BY <1>4, <2>1 DEF NextPatchedChunk, fsVars
    <3> QED BY <1>3, <3>1, StoreKept, ViewVars
  <2>2. CASE ~pending_patched.pending
    <3>1. ReadThere(0, Current.size, TRUE) BY <1>4, <2>2 DEF NextPatchedChunk
    <3> QED BY <1>1, <1>3, <3>1, ThereView
  <2> QED BY <2>1, <2>2
<1>5. CASE NextFileChunk(max_bytes)
  <2>1. ~PatchThis /\ ReadThere(OffsetInFile, ToRead(max_bytes), TRUE) BY <1>5 DEF NextFileChunk
  <2>2. /\ OffsetInFile \in Nat /\ ToRead(max_bytes) \in Nat
        /\ OffsetInFile + ToRead(max_bytes) <= Current.size
    BY <1>1, <2>1, ToReadIs
  <2> QED BY <1>1, <2>1, <2>2, ThereView
<1>6. CASE ChunkFails(max_bytes)
  <2>1. PICK ok : ReadThere(IF PatchThis THEN 0 ELSE OffsetInFile,
      IF PatchThis THEN Current.size ELSE ToRead(max_bytes), ok)
    BY <1>6 DEF ChunkFails
  <2>2. CASE PatchThis
    <3>1. ReadThere(0, Current.size, ok) BY <2>1, <2>2
    <3> QED BY <1>1, <1>3, <3>1, ThereView
  <2>3. CASE ~PatchThis
    <3>1. ReadThere(OffsetInFile, ToRead(max_bytes), ok) BY <2>1, <2>3
    <3>2. /\ OffsetInFile \in Nat /\ ToRead(max_bytes) \in Nat
          /\ OffsetInFile + ToRead(max_bytes) <= Current.size
      BY <1>1, <2>3, ToReadIs
    <3> QED BY <1>1, <3>1, <3>2, ThereView
  <2> QED BY <2>2, <2>3
<1> QED BY <1>2, <1>4, <1>5, <1>6

LEMMA StepViews == IInv /\ IInv' /\ AnswerIdle /\ [Next]_vars => [View!Next]_(View!vars)
<1> SUFFICES ASSUME IInv, IInv', AnswerIdle, [Next]_vars PROVE [View!Next]_(View!vars) OBVIOUS
<1>1. CASE OpenSource BY <1>1, OpenView
<1>2. CASE UseFs BY <1>2, UseView
<1>3. CASE OpenSession
  <2>1. phase = "open" /\ phase' = "streaming" /\ UNCHANGED <<parts, overrides, answer>>
    BY <1>3 DEF OpenSession, fsVars
  <2> QED BY <2>1, StoreKept, ViewVars
<1>4. CASE NextChunk BY <1>4, ChunkViews
<1>5. CASE UNCHANGED vars
  <2>1. UNCHANGED <<phase, parts, overrides, answer>> BY <1>5 DEF vars, fsVars
  <2> QED BY <2>1, StoreKept, ViewVars
<1> QED BY <1>1, <1>2, <1>3, <1>4, <1>5 DEF Next

\* The view of loose or packaged files is a FileStore: whatever reader an
\* earlier access left active, each read of the session, each copy into an
\* image and each read of the executable returns the bytes of the range asked
\* for, or an error, and overriding a file changes no other.
THEOREM ViewsFiles == Spec => ImplementsFileStore
<1>1. Init => View!Init
  <2> SUFFICES ASSUME Init PROVE View!Init OBVIOUS
  <2>1. Store = <<>> BY DEF Init, Store
  <2>2. answer = NoAnswer BY DEF Init, FsInit
  <2>3. Answered = View!NoAnswer
    <3>1. Number(<<>>) = <<>> BY DEF Number
    <3> QED BY <2>2, <3>1 DEF Answered, NoAnswer, View!NoAnswer
  <2> QED BY <2>1, <2>3 DEF View!Init, Answered
<1>2. Init => AnswerIdle BY DEF Init, FsInit, AnswerIdle
<1>3. IInv /\ AnswerIdle /\ [Next]_vars => AnswerIdle' BY StaysIdle
<1>4. IInv /\ IInv' /\ AnswerIdle /\ [Next]_vars => [View!Next]_(View!vars) BY StepViews
<1> QED BY Invariant, <1>1, <1>2, <1>3, <1>4, PTL DEF Spec, View!Spec, ImplementsFileStore

-----------------------------------------------------------------------------
(* Directories of a view: read_dir() and the trees it makes.                 *)

LEMMA StrictPrefixIs ==
  ASSUME NEW V, NEW s \in Seq(V), NEW t \in Seq(V)
  PROVE  IsStrictPrefix(s, t) <=> /\ Len(s) < Len(t)
                                  /\ \A k \in 1 .. Len(s) : s[k] = t[k]
<1> DEFINE m == Len(s)
           n == Len(t)
           r == SubSeq(t, 1, m)
<1>1. /\ HasLen(s, m) /\ m \in Nat /\ HasLen(t, n) /\ n \in Nat BY SeqIsSequence DEF HasLen
<1>2. SubSeq(s, 1, m) = s
  <2> DEFINE q == SubSeq(s, 1, m)
  <2>1. 1 \in 1 .. m + 1 /\ m \in 1 - 1 .. m /\ m - 1 + 1 = m BY <1>1
  <2>2. IsSlice(q, s, 1, m) BY ONLY <1>1, <2>1, SubSeqIsSlice
  <2>3. HasLen(q, m) /\ \A k \in 1 .. m : q[k] = s[1 + k - 1] BY <2>1, <2>2 DEF IsSlice
  <2>4. \A k \in 1 .. m : q[k] = s[k]
    <3>1. \A k \in 1 .. m : 1 + k - 1 = k BY <1>1
    <3> QED BY <2>3, <3>1
  <2> HIDE DEF q
  <2>5. q = s BY ONLY <1>1, <2>3, <2>4, SequenceSame
  <2> QED BY <2>5 DEF q
<1>3. ASSUME m <= n
      PROVE  HasLen(r, m) /\ \A k \in 1 .. m : r[k] = t[k]
  <2>1. 1 \in 1 .. n + 1 /\ m \in 1 - 1 .. n /\ m - 1 + 1 = m BY <1>1, <1>3
  <2> HIDE DEF m, n
  <2>2. IsSlice(SubSeq(t, 1, m), t, 1, m) BY ONLY <1>1, <2>1, SubSeqIsSlice
  <2>3. HasLen(r, m) /\ \A k \in 1 .. m : r[k] = t[1 + k - 1] BY <2>1, <2>2 DEF IsSlice
  <2>4. \A k \in 1 .. m : 1 + k - 1 = k BY <1>1
  <2> QED BY <2>3, <2>4
<1>4. IsStrictPrefix(s, t) <=> m <= n /\ s = r /\ s # t BY <1>2 DEF IsStrictPrefix, IsPrefix
<1> HIDE DEF r
<1>5. ASSUME m <= n, s = r, s # t PROVE m < n /\ \A k \in 1 .. m : s[k] = t[k]
  <2>1. \A k \in 1 .. m : s[k] = t[k] BY <1>3, <1>5
  <2>2. m # n
    <3>1. SUFFICES ASSUME m = n PROVE FALSE OBVIOUS
    <3> HIDE DEF m, n
    <3>2. s = t BY <1>1, <2>1, <3>1, SequenceSame
    <3> QED BY <3>2, <1>5
  <2> QED BY <1>1, <1>5, <2>1, <2>2
<1>6. ASSUME m < n, \A k \in 1 .. m : s[k] = t[k] PROVE m <= n /\ s = r /\ s # t
  <2>1. m <= n BY <1>1, <1>6
  <2>2. s = r
    <3>1. HasLen(r, m) /\ \A k \in 1 .. m : s[k] = r[k] BY <1>3, <1>6, <2>1
    <3> HIDE DEF m
    <3> QED BY ONLY <1>1, <3>1, SequenceSame
  <2>3. s # t
    <3>1. m # n BY <1>1, <1>6
    <3> QED BY <3>1
  <2> QED BY <2>1, <2>2, <2>3
<1> QED BY <1>4, <1>5, <1>6

ListEntry == [path : Seq(Name) \ {<<>>}, size : Nat]
Child == [is_directory : BOOLEAN, len : Nat]
ChildMaps == UNION {[D -> Child] : D \in SUBSET Name}

FileChild(entry) == [is_directory |-> FALSE, len |-> entry.size]

\* What an entry does to the children of a directory.
IsAdded(d, c, dir, entry, first) ==
  /\ ~IsStrictPrefix(dir, entry.path) => d = c
  /\ IsStrictPrefix(dir, entry.path) =>
       /\ DOMAIN d = DOMAIN c \cup {first}
       /\ \A x \in DOMAIN c : x # first => d[x] = c[x]
       /\ d[first] = IF Len(entry.path) = Len(dir) + 1 THEN FileChild(entry)
                     ELSE IF first \in DOMAIN c THEN c[first] ELSE Directory

LEMMA AddChildIs ==
  ASSUME NEW c \in ChildMaps, NEW dir \in Seq(Name), NEW entry \in ListEntry
  PROVE  /\ AddChild(c, dir, entry) \in ChildMaps
         /\ IsAdded(AddChild(c, dir, entry), c, dir, entry, entry.path[Len(dir) + 1])
<1> DEFINE first == entry.path[Len(dir) + 1]
           d == AddChild(c, dir, entry)
           below == IsStrictPrefix(dir, entry.path)
<1>1. PICK D \in SUBSET Name : c \in [D -> Child] BY DEF ChildMaps
<1>2. DOMAIN c = D /\ c = [x \in D |-> c[x]] BY <1>1
<1>3. entry.path \in Seq(Name) /\ entry.size \in Nat BY DEF ListEntry
<1>4. below => first \in Name
  <2>1. below => Len(dir) < Len(entry.path) BY <1>3, StrictPrefixIs
  <2>2. Len(dir) \in Nat /\ Len(entry.path) \in Nat BY <1>3
  <2>3. \A k \in 1 .. Len(entry.path) : entry.path[k] \in Name BY <1>3
  <2>4. below => Len(dir) + 1 \in 1 .. Len(entry.path) BY <2>1, <2>2
  <2> QED BY <2>3, <2>4
<1>5. FileChild(entry) \in Child /\ Directory \in Child BY <1>3 DEF FileChild, Child, Directory
<1>6. ASSUME NEW v \in Child, below
      PROVE  /\ Insert(c, first, v) \in [D \cup {first} -> Child]
             /\ Insert(c, first, v)[first] = v
             /\ \A x \in DOMAIN c : x # first => Insert(c, first, v)[x] = c[x]
  <2> HIDE DEF first
  <2> QED BY <1>1, <1>2 DEF Insert
<1>7. CASE ~below
  <2>1. d = c BY <1>7 DEF AddChild
  <2> QED BY <1>7, <2>1 DEF IsAdded
<1>8. CASE below /\ Len(entry.path) = Len(dir) + 1
  <2>1. d = Insert(c, first, FileChild(entry)) BY <1>8 DEF AddChild, FileChild
  <2> HIDE DEF d, first
  <2>2. /\ d \in [D \cup {first} -> Child] /\ d[first] = FileChild(entry)
        /\ \A x \in DOMAIN c : x # first => d[x] = c[x]
    BY <1>5, <1>6, <1>8, <2>1
  <2>3. D \cup {first} \in SUBSET Name BY <1>1, <1>4, <1>8
  <2>4. d \in ChildMaps /\ DOMAIN d = DOMAIN c \cup {first} BY <1>2, <2>2, <2>3 DEF ChildMaps
  <2> QED BY <1>8, <2>2, <2>4 DEF IsAdded, d, first
<1>9. CASE below /\ Len(entry.path) # Len(dir) + 1 /\ first \in DOMAIN c
  <2>1. d = c BY <1>9 DEF AddChild
  <2> QED BY <1>9, <2>1 DEF IsAdded
<1>10. CASE below /\ Len(entry.path) # Len(dir) + 1 /\ first \notin DOMAIN c
  <2>1. d = Insert(c, first, Directory) BY <1>10 DEF AddChild
  <2> HIDE DEF d, first
  <2>2. /\ d \in [D \cup {first} -> Child] /\ d[first] = Directory
        /\ \A x \in DOMAIN c : x # first => d[x] = c[x]
    BY <1>5, <1>6, <1>10, <2>1
  <2>3. D \cup {first} \in SUBSET Name BY <1>1, <1>4, <1>10
  <2>4. d \in ChildMaps /\ DOMAIN d = DOMAIN c \cup {first} BY <1>2, <2>2, <2>3 DEF ChildMaps
  <2> QED BY <1>10, <2>2, <2>4 DEF IsAdded, d, first
<1> QED BY <1>7, <1>8, <1>9, <1>10

\* The states on the way through read_dir_over().
IsDirRun(run, dir, n) ==
  /\ run \in [0 .. n -> ChildMaps]
  /\ run[0] = <<>>
  /\ \A k \in 1 .. n : run[k] = AddChild(run[k - 1], dir, FileEntries[k])

LEMMA DirRun ==
  ASSUME NEW n, HasLen(FileEntries, n), \A k \in 1 .. n : FileEntries[k] \in ListEntry,
         NEW dir \in Seq(Name)
  PROVE  \E run : IsDirRun(run, dir, n) /\ ReadDir(dir) = run[n]
<1> DEFINE S == ChildMaps
           Step(x, e) == AddChild(x, dir, e)
           H == [k \in 1 .. n |-> [x \in S |-> Step(x, FileEntries[k])]]
           iter == CHOOSE f : f = [s \in SUBSET (1 .. n) |->
                     IF s = {} THEN <<>> ELSE Step(f[s \ {Max(s)}], FileEntries[Max(s)])]
<1>1. n \in Nat /\ DOMAIN FileEntries = 1 .. n BY SequenceLength DEF HasLen
<1>2. ReadDir(dir) = iter[1 .. n] BY <1>1 DEF ReadDir, FoldLeft, MapThenFoldSet
<1>3. <<>> \in S /\ \A k \in 1 .. n : \A x \in S : Step(x, FileEntries[k]) \in S
  <2>1. <<>> \in [{} -> Child] /\ {} \in SUBSET Name OBVIOUS
  <2>2. <<>> \in S BY <2>1 DEF ChildMaps
  <2> QED BY <2>2, AddChildIs
<1> HIDE DEF S
<1>4. /\ H \in [1 .. n -> [S -> S]]
      /\ \A k \in 1 .. n : \A x \in S : H[k][x] = Step(x, FileEntries[k])
  BY <1>3
<1> HIDE DEF H, Step
<1>5. ASSUME NEW s \in SUBSET (1 .. n), s # {}
      PROVE  s \ {Max(s)} \in SUBSET (1 .. n) /\ Max(s) \in 1 .. n
  BY <1>1, <1>5, MaxOfUpTo
<1>6. PICK F \in [SUBSET (1 .. n) -> S] : IsStepFold(F, <<>>, H, n) BY <1>1, <1>3, <1>4, StepFoldExists
<1>7. F = [s \in SUBSET (1 .. n) |->
    IF s = {} THEN <<>> ELSE Step(F[s \ {Max(s)}], FileEntries[Max(s)])]
  <2>1. F = [s \in SUBSET (1 .. n) |-> IF s = {} THEN <<>> ELSE H[Max(s)][F[s \ {Max(s)}]]]
    BY <1>6 DEF IsStepFold
  <2>2. \A s \in SUBSET (1 .. n) : (IF s = {} THEN <<>> ELSE H[Max(s)][F[s \ {Max(s)}]])
      = (IF s = {} THEN <<>> ELSE Step(F[s \ {Max(s)}], FileEntries[Max(s)]))
    BY <1>4, <1>5, <1>6
  <2> QED BY <2>1, <2>2
<1>8. iter = [s \in SUBSET (1 .. n) |->
    IF s = {} THEN <<>> ELSE Step(iter[s \ {Max(s)}], FileEntries[Max(s)])]
  BY <1>7
<1> HIDE DEF iter
<1>9. Iterates(iter, <<>>, H, n, S)
  <2>1. iter[{}] = <<>> BY <1>8
  <2>2. ASSUME NEW s \in SUBSET (1 .. n), s # {}, iter[s \ {Max(s)}] \in S
        PROVE  iter[s] = H[Max(s)][iter[s \ {Max(s)}]]
    <3>1. iter[s] = Step(iter[s \ {Max(s)}], FileEntries[Max(s)]) BY <1>8, <2>2
    <3> QED BY <3>1, <1>4, <1>5, <2>2
  <2> QED BY <2>1, <2>2 DEF Iterates
<1>10. PICK run : IsFoldRun(run, <<>>, H, n, S) /\ iter[1 .. n] = run[n]
  BY ONLY <1>1, <1>3, <1>4, <1>9, FoldRuns
<1>11. IsDirRun(run, dir, n)
  <2>1. run \in [0 .. n -> S] /\ run[0] = <<>> /\ \A k \in 1 .. n : run[k] = H[k][run[k - 1]]
    BY <1>10 DEF IsFoldRun
  <2>2. \A k \in 1 .. n : run[k - 1] \in S BY <1>1, <2>1
  <2>3. \A k \in 1 .. n : run[k] = Step(run[k - 1], FileEntries[k]) BY <1>4, <2>1, <2>2
  <2> QED BY <2>1, <2>3 DEF IsDirRun, S, Step
<1> QED BY <1>2, <1>10, <1>11

\* The last of the first n entries that is listed under its path.
IsLast(k, n) == \A l \in k + 1 .. n : FileEntries[l].path # FileEntries[k].path

\* What read_dir_over() gives: the next names of the paths below, the last of
\* the files where paths end, directories elsewhere.
IsDir(D, dir, n) ==
  /\ \A x : x \in DOMAIN D <=> \E j \in 1 .. n : /\ IsStrictPrefix(dir, FileEntries[j].path)
                                                 /\ FileEntries[j].path[Len(dir) + 1] = x
  /\ \A j \in 1 .. n :
       IsStrictPrefix(dir, FileEntries[j].path) /\ Len(FileEntries[j].path) = Len(dir) + 1
         => \E k \in 1 .. n : /\ FileEntries[k].path = FileEntries[j].path /\ IsLast(k, n)
                              /\ D[FileEntries[j].path[Len(dir) + 1]] = FileChild(FileEntries[k])
  /\ \A x \in DOMAIN D : (\A j \in 1 .. n :
          IsStrictPrefix(dir, FileEntries[j].path) /\ Len(FileEntries[j].path) = Len(dir) + 1
            => FileEntries[j].path[Len(dir) + 1] # x)
         => D[x] = Directory

\* Two files with one directory and one name are the same.
LEMMA SamePlace ==
  ASSUME NEW dir \in Seq(Name), NEW s \in Seq(Name), NEW t \in Seq(Name),
         IsStrictPrefix(dir, s), IsStrictPrefix(dir, t),
         Len(s) = Len(dir) + 1, Len(t) = Len(dir) + 1, s[Len(dir) + 1] = t[Len(dir) + 1]
  PROVE  s = t
<1> DEFINE m == Len(dir)
<1>1. m \in Nat /\ HasLen(s, m + 1) /\ HasLen(t, m + 1) BY SeqIsSequence
<1>2. \A k \in 1 .. m : s[k] = dir[k] /\ t[k] = dir[k] BY StrictPrefixIs
<1> HIDE DEF m
<1>3. \A k \in 1 .. m + 1 : k \in 1 .. m \/ k = m + 1 BY <1>1
<1>4. s[m + 1] = t[m + 1] BY DEF m
<1>5. \A k \in 1 .. m + 1 : s[k] = t[k] BY <1>2, <1>3, <1>4
<1> QED BY ONLY <1>1, <1>5, SequenceSame

LEMMA DirStep ==
  ASSUME NEW n \in Nat, n + 1 \in DOMAIN FileEntries, NEW dir \in Seq(Name), NEW c \in ChildMaps,
         \A j \in 1 .. n + 1 : FileEntries[j] \in ListEntry, IsDir(c, dir, n)
  PROVE  IsDir(AddChild(c, dir, FileEntries[n + 1]), dir, n + 1)
<1> DEFINE d == AddChild(c, dir, FileEntries[n + 1])
           P(j) == FileEntries[j].path
           below(j) == IsStrictPrefix(dir, P(j))
           m == Len(dir) + 1
           next(j) == P(j)[m]
           ends(j) == Len(P(j)) = m
           Comes(D, j, k, N) == P(k) = P(j) /\ IsLast(k, N) /\ D[next(j)] = FileChild(FileEntries[k])
<1>1. /\ \A j \in 1 .. n + 1 : j \in 1 .. n \/ j = n + 1
      /\ n + 1 \in 1 .. n + 1 /\ \A j \in 1 .. n : j \in 1 .. n + 1 /\ j # n + 1
  OBVIOUS
<1>2. FileEntries[n + 1] \in ListEntry BY <1>1
<1>3. /\ ~below(n + 1) => d = c
      /\ below(n + 1) =>
           /\ DOMAIN d = DOMAIN c \cup {next(n + 1)}
           /\ \A x \in DOMAIN c : x # next(n + 1) => d[x] = c[x]
           /\ d[next(n + 1)] = IF ends(n + 1) THEN FileChild(FileEntries[n + 1])
                               ELSE IF next(n + 1) \in DOMAIN c THEN c[next(n + 1)] ELSE Directory
  <2> DEFINE e == FileEntries[n + 1]
  <2>1. e \in ListEntry BY <1>2
  <2> HIDE DEF e
  <2>2. IsAdded(AddChild(c, dir, e), c, dir, e, e.path[Len(dir) + 1]) BY <2>1, AddChildIs
  <2>3. IsAdded(d, c, dir, FileEntries[n + 1], next(n + 1)) BY <2>2 DEF e
  <2> HIDE DEF d
  <2> QED BY <2>3 DEF IsAdded
<1>4. /\ \A x : x \in DOMAIN c <=> \E j \in 1 .. n : below(j) /\ next(j) = x
      /\ \A j \in 1 .. n : below(j) /\ ends(j) => \E k \in 1 .. n : Comes(c, j, k, n)
      /\ \A x \in DOMAIN c : (\A j \in 1 .. n : below(j) /\ ends(j) => next(j) # x) => c[x] = Directory
  BY DEF IsDir
<1>5. \A j \in 1 .. n : below(n + 1) /\ ends(n + 1) /\ below(j) /\ ends(j) =>
        (P(n + 1) = P(j) <=> next(n + 1) = next(j))
  <2> SUFFICES ASSUME NEW j \in 1 .. n, below(n + 1), ends(n + 1), below(j), ends(j)
      PROVE  P(n + 1) = P(j) <=> next(n + 1) = next(j)
    OBVIOUS
  <2>1. P(n + 1) \in Seq(Name) /\ P(j) \in Seq(Name) BY <1>1 DEF ListEntry
  <2>2. next(n + 1) = next(j) => P(n + 1) = P(j) BY <2>1, SamePlace
  <2> QED BY <2>2
<1>e. \A j, k : P(k) = P(j) => (below(k) <=> below(j)) /\ (ends(k) <=> ends(j)) /\ next(k) = next(j)
  OBVIOUS
<1>l. /\ IsLast(n + 1, n + 1)
      /\ \A k \in 1 .. n : IsLast(k, n) /\ P(n + 1) # P(k) => IsLast(k, n + 1)
  <2>1. (n + 1) + 1 .. n + 1 = {} OBVIOUS
  <2>2. \A k \in 1 .. n : \A l \in k + 1 .. n + 1 : l \in k + 1 .. n \/ l = n + 1 OBVIOUS
  <2> QED BY <2>1, <2>2 DEF IsLast
<1> SUFFICES /\ \A x : x \in DOMAIN d <=> \E j \in 1 .. n + 1 : below(j) /\ next(j) = x
             /\ \A j \in 1 .. n + 1 : below(j) /\ ends(j) => \E k \in 1 .. n + 1 : Comes(d, j, k, n + 1)
             /\ \A x \in DOMAIN d :
                  (\A j \in 1 .. n + 1 : below(j) /\ ends(j) => next(j) # x) => d[x] = Directory
  BY DEF IsDir
<1>c. \A D, j, k, N : Comes(D, j, k, N) <=>
    P(k) = P(j) /\ IsLast(k, N) /\ D[next(j)] = FileChild(FileEntries[k])
  OBVIOUS
<1> HIDE DEF d, P, below, next, ends, Comes
<1>6. CASE ~below(n + 1)
  <2>1. ASSUME NEW j \in 1 .. n + 1, below(j), ends(j)
        PROVE  \E k \in 1 .. n + 1 : Comes(d, j, k, n + 1)
    <3>1. j \in 1 .. n BY <1>1, <1>6, <2>1
    <3>2. PICK k \in 1 .. n : Comes(c, j, k, n) BY <1>4, <2>1, <3>1
    <3>3. P(k) = P(j) /\ IsLast(k, n) /\ c[next(j)] = FileChild(FileEntries[k]) BY <1>c, <3>2
    <3>4. P(n + 1) # P(k) BY <1>6, <1>e, <2>1, <3>3
    <3>5. IsLast(k, n + 1) /\ k \in 1 .. n + 1 BY <1>1, <1>l, <3>3, <3>4
    <3> QED BY <1>3, <1>6, <1>c, <3>3, <3>5
  <2> QED BY <1>1, <1>3, <1>4, <1>6, <2>1
<1>7. CASE below(n + 1)
  <2> DEFINE x == next(n + 1)
  <2>1. /\ DOMAIN d = DOMAIN c \cup {x}
        /\ \A y \in DOMAIN c : y # x => d[y] = c[y]
        /\ d[x] = IF ends(n + 1) THEN FileChild(FileEntries[n + 1])
                  ELSE IF x \in DOMAIN c THEN c[x] ELSE Directory
    BY <1>3, <1>7
  <2>2. \A y : y \in DOMAIN d <=> \E j \in 1 .. n + 1 : below(j) /\ next(j) = y BY <1>1, <1>4, <1>7, <2>1
  <2>3. ASSUME NEW j \in 1 .. n + 1, below(j), ends(j)
        PROVE  \E k \in 1 .. n + 1 : Comes(d, j, k, n + 1)
    <3>1. CASE P(n + 1) = P(j)
      <4>1. ends(n + 1) /\ next(j) = x BY <1>e, <2>3, <3>1
      <4>2. d[next(j)] = FileChild(FileEntries[n + 1]) BY <2>1, <4>1
      <4>3. Comes(d, j, n + 1, n + 1) BY <1>c, <1>l, <3>1, <4>2
      <4> QED BY <1>1, <4>3
    <3>2. CASE P(n + 1) # P(j)
      <4>1. j \in 1 .. n /\ next(j) \in DOMAIN c BY <1>1, <1>4, <2>3, <3>2
      <4>2. PICK k \in 1 .. n : Comes(c, j, k, n) BY <1>4, <2>3, <4>1
      <4>3. P(k) = P(j) /\ IsLast(k, n) /\ c[next(j)] = FileChild(FileEntries[k]) BY <1>c, <4>2
      <4>4. d[next(j)] = c[next(j)]
        <5>1. CASE next(j) = x
          <6>1. ~ends(n + 1) BY <1>5, <1>7, <2>3, <3>2, <4>1, <5>1
          <6> QED BY <2>1, <4>1, <5>1, <6>1
        <5>2. CASE next(j) # x BY <2>1, <4>1, <5>2
        <5> QED BY <5>1, <5>2
      <4>5. IsLast(k, n + 1) /\ k \in 1 .. n + 1 BY <1>1, <1>l, <3>2, <4>3
      <4>6. Comes(d, j, k, n + 1) BY <1>c, <4>3, <4>4, <4>5
      <4> QED BY <4>5, <4>6
    <3> QED BY <3>1, <3>2
  <2>4. ASSUME NEW y \in DOMAIN d, \A j \in 1 .. n + 1 : below(j) /\ ends(j) => next(j) # y
        PROVE  d[y] = Directory
    <3>1. y \in DOMAIN c => c[y] = Directory BY <1>1, <1>4, <2>4
    <3>2. CASE y = x
      <4>1. ~ends(n + 1) BY <1>1, <1>7, <2>4, <3>2
      <4> QED BY <2>1, <3>1, <3>2, <4>1
    <3>3. CASE y # x BY <2>1, <2>4, <3>1, <3>3
    <3> QED BY <3>2, <3>3
  <2> QED BY <2>2, <2>3, <2>4
<1> QED BY <1>6, <1>7

LEMMA ReadDirIs ==
  ASSUME NEW n, HasLen(FileEntries, n), \A k \in 1 .. n : FileEntries[k] \in ListEntry,
         NEW dir \in Seq(Name)
  PROVE  IsDir(ReadDir(dir), dir, n)
<1>1. PICK run : IsDirRun(run, dir, n) /\ ReadDir(dir) = run[n] BY DirRun
<1>2. n \in Nat /\ DOMAIN FileEntries = 1 .. n BY SequenceLength DEF HasLen
<1>3. /\ \A k \in 0 .. n : run[k] \in ChildMaps
      /\ run[0] = <<>>
      /\ \A k \in 1 .. n : run[k] = AddChild(run[k - 1], dir, FileEntries[k])
  BY <1>1 DEF IsDirRun
<1> DEFINE D == {k \in Nat : k <= n => IsDir(run[k], dir, k)}
<1>4. 0 \in D
  <2>1. DOMAIN <<>> = {} /\ 1 .. 0 = {} OBVIOUS
  <2>2. IsDir(<<>>, dir, 0) BY <2>1 DEF IsDir
  <2> QED BY <1>3, <2>2
<1>5. ASSUME NEW k \in D PROVE k + 1 \in D
  <2> SUFFICES ASSUME k + 1 <= n PROVE IsDir(run[k + 1], dir, k + 1) BY <1>5
  <2>1. k \in Nat /\ k \in 0 .. n /\ k + 1 \in 1 .. n /\ (k + 1) - 1 = k /\ IsDir(run[k], dir, k)
    BY <1>2, <1>5
  <2>2. \A j \in 1 .. k + 1 : j \in 1 .. n BY <1>2, <2>1
  <2>3. \A j \in 1 .. k + 1 : FileEntries[j] \in ListEntry BY <2>2
  <2>4. run[k] \in ChildMaps /\ run[k + 1] = AddChild(run[k], dir, FileEntries[k + 1]) BY <1>3, <2>1
  <2>5. IsDir(AddChild(run[k], dir, FileEntries[k + 1]), dir, k + 1) BY <1>2, <2>1, <2>3, <2>4, DirStep
  <2> QED BY <2>4, <2>5
<1> HIDE DEF D
<1>6. n \in D BY ONLY <1>2, <1>4, <1>5, NatInduct
<1> QED BY <1>1, <1>2, <1>6 DEF D

LEMMA RebuildReaches ==
  ASSUME SourceOK
  PROVE  RebuildReachesFiles
<1> SUFFICES ASSUME phase \in {"open", "streaming"}, image = NoImage, NEW i \in DOMAIN FileEntries
    PROVE  LET path == FileEntries[i].path
               child(n) == ReadDir(SubSeq(path, 1, n - 1))
               reached == /\ \A n \in DOMAIN path : path[n] \in DOMAIN child(n)
                          /\ \A n \in 1 .. Len(path) - 1 : child(n)[path[n]].is_directory
                          /\ child(Len(path))[Last(path)] =
                               [is_directory |-> FALSE, len |-> FileEntries[i].size]
           IN reached <=> /\ \A j \in DOMAIN FileEntries :
                               ~IsStrictPrefix(FileEntries[j].path, path)
                          /\ FileEntries[LastListed(path)].size = FileEntries[i].size
  BY DEF RebuildReachesFiles
<1> DEFINE path == FileEntries[i].path
           m == Len(path)
           dir(n) == SubSeq(path, 1, n - 1)
           child(n) == ReadDir(dir(n))
           P(j) == FileEntries[j].path
           N == Len(parts)
<1>1. parts \in Seq(ListedFile) BY DEF SourceOK
<1>2. /\ HasLen(FileEntries, N) /\ N \in Nat /\ DOMAIN FileEntries = 1 .. N
      /\ \A k \in 1 .. N : P(k) \in Seq(Name) \ {<<>>} /\ FileEntries[k].size \in Nat
      /\ \A k \in 1 .. N : FileEntries[k] = [path |-> P(k), size |-> FileEntries[k].size]
  <2>1. \A k \in DOMAIN parts : FileEntries[k] = [path |-> parts[k].path, size |-> parts[k].size]
    BY DEF FileEntries, Normalize
  <2> QED BY <1>1, <2>1, PartsAre
<1>3. \A k \in 1 .. N : FileEntries[k] \in ListEntry BY <1>2 DEF ListEntry
<1>4. /\ path \in Seq(Name) /\ HasLen(path, m) /\ m \in Nat /\ m >= 1 /\ DOMAIN path = 1 .. m
      /\ \A k \in 1 .. m : path[k] \in Name
  <2>1. path \in Seq(Name) /\ path # <<>> BY <1>2
  <2> HIDE DEF path
  <2> QED BY <2>1, SeqIsSequence
<1>5. ASSUME NEW n \in 1 .. m
      PROVE  /\ dir(n) \in Seq(Name) /\ Len(dir(n)) = n - 1 /\ Len(dir(n)) + 1 = n
             /\ IsStrictPrefix(dir(n), path)
             /\ \A k \in 1 .. n - 1 : dir(n)[k] = path[k]
  <2> DEFINE d == dir(n)
  <2>1. /\ n \in Nat /\ 1 \in 1 .. m + 1 /\ n - 1 \in 1 - 1 .. m /\ (n - 1) - 1 + 1 = n - 1
        /\ n - 1 \in Nat /\ n - 1 < m /\ (n - 1) + 1 = n
    BY <1>4
  <2>2. IsSlice(d, path, 1, n - 1)
    <3> DEFINE b == n - 1
    <3>1. b \in 1 - 1 .. m BY <2>1
    <3> HIDE DEF b, path, m
    <3>2. IsSlice(SubSeq(path, 1, b), path, 1, b) BY ONLY <1>4, <2>1, <3>1, SubSeqIsSlice
    <3> QED BY <3>2 DEF b
  <2>3. HasLen(d, n - 1) /\ \A k \in 1 .. n - 1 : d[k] = path[1 + k - 1] BY <2>1, <2>2 DEF IsSlice
  <2>4. \A k \in 1 .. n - 1 : k \in 1 .. m /\ 1 + k - 1 = k BY <1>4, <2>1
  <2> HIDE DEF d
  <2>5. \A k \in 1 .. n - 1 : d[k] = path[k] /\ d[k] \in Name BY <1>4, <2>3, <2>4
  <2>6. d \in Seq(Name) /\ Len(d) = n - 1
    <3> DEFINE b == n - 1
    <3>1. HasLen(d, b) /\ \A k \in 1 .. b : d[k] \in Name BY <2>3, <2>5
    <3> HIDE DEF b
    <3>2. d \in Seq(Name) BY ONLY <3>1, SequenceIsSeq
    <3>3. Len(d) = b BY <3>1, SequenceLength
    <3> QED BY <3>2, <3>3 DEF b
  <2>7. IsStrictPrefix(d, path) BY <1>4, <2>1, <2>5, <2>6, StrictPrefixIs
  <2> QED BY <2>1, <2>5, <2>6, <2>7 DEF d
<1>6. \A n \in 1 .. m : IsDir(child(n), dir(n), N) BY <1>1, <1>2, <1>3, <1>5, ReadDirIs
<1>7. Last(path) = path[m] BY DEF Last
<1> DEFINE reached ==
             /\ \A n \in 1 .. m : path[n] \in DOMAIN child(n)
             /\ \A n \in 1 .. m - 1 : child(n)[path[n]].is_directory
             /\ child(m)[path[m]] = FileChild(FileEntries[i])
           free == \A j \in 1 .. N : ~IsStrictPrefix(P(j), path)
           last == LastListed(path)
           own == FileEntries[last].size = FileEntries[i].size
<1> SUFFICES reached <=> free /\ own BY <1>2, <1>4, <1>7 DEF FileChild
<1>8. i \in 1 .. N BY <1>2
<1> HIDE DEF P, path, m, dir, child, N, last
<1>9. \A n \in 1 .. m : IsStrictPrefix(dir(n), P(i)) /\ P(i) = path /\ P(i)[Len(dir(n)) + 1] = path[n]
  BY <1>5 DEF P, path
<1>10. \A n \in 1 .. m : path[n] \in DOMAIN child(n) BY <1>6, <1>8, <1>9 DEF IsDir, P
<1>11. /\ m \in 1 .. m /\ \A n \in 1 .. m - 1 : n \in 1 .. m /\ n < m BY <1>4
<1>12. child(m)[path[m]] = FileChild(FileEntries[last])
  <2>1. IsDir(child(m), dir(m), N) /\ Len(dir(m)) + 1 = m /\ IsStrictPrefix(dir(m), P(i))
    BY <1>5, <1>6, <1>9, <1>11
  <2>2. Len(P(i)) = m /\ P(i) = path BY <1>9, <1>11 DEF m
  <2>3. PICK k \in 1 .. N : P(k) = path /\ IsLast(k, N) /\ child(m)[path[m]] = FileChild(FileEntries[k])
    BY <1>8, <2>1, <2>2 DEF IsDir, P
  <2>4. k = last
    <3> DEFINE Is(j) == j \in 1 .. N /\ P(j) = path /\ \A l \in 1 .. N : l > j => P(l) # path
    <3>1. Is(k)
      <4>1. \A l \in 1 .. N : l > k => l \in k + 1 .. N BY <1>2
      <4> QED BY <2>3, <4>1 DEF IsLast, P
    <3>2. \A j : Is(j) => j = k BY <1>2, <3>1
    <3>3. last = CHOOSE j : Is(j) BY <1>2 DEF last, LastListed, P
    <3> QED BY <3>1, <3>2, <3>3
  <2> QED BY <2>3, <2>4
<1>o. child(m)[path[m]] = FileChild(FileEntries[i]) <=> own
  <2>1. ASSUME NEW e, NEW f PROVE FileChild(e) = FileChild(f) <=> e.size = f.size
    <3>1. FileChild(e).len = e.size /\ FileChild(f).len = f.size BY DEF FileChild
    <3>2. e.size = f.size => FileChild(e) = FileChild(f) BY DEF FileChild
    <3> QED BY <3>1, <3>2
  <2>2. FileChild(FileEntries[last]) = FileChild(FileEntries[i]) <=> own BY <2>1
  <2> QED BY <1>12, <2>2
<1>13. ASSUME free, NEW n \in 1 .. m - 1 PROVE child(n)[path[n]].is_directory
  <2>0. n \in 1 .. m /\ n < m /\ n \in Nat BY <1>4, <1>11
  <2>1. n \in 1 .. m /\ n < m /\ n \in Nat /\ IsDir(child(n), dir(n), N) /\ Len(dir(n)) + 1 = n
        /\ dir(n) \in Seq(Name) /\ Len(dir(n)) = n - 1
    BY <1>5, <1>6, <2>0
  <2>2. ASSUME NEW j \in 1 .. N, IsStrictPrefix(dir(n), P(j)), Len(P(j)) = n
        PROVE  P(j)[n] # path[n]
    <3> SUFFICES ASSUME P(j)[n] = path[n] PROVE FALSE OBVIOUS
    <3>1. P(j) \in Seq(Name) BY <1>2 DEF P
    <3>2. \A k \in 1 .. n - 1 : dir(n)[k] = P(j)[k] /\ dir(n)[k] = path[k]
      <4>1. path \in Seq(Name) /\ IsStrictPrefix(dir(n), path) /\ dir(n) \in Seq(Name)
        BY <1>4, <1>9, <2>0, <2>1
      <4>2. \A k \in 1 .. Len(dir(n)) : dir(n)[k] = path[k] BY <4>1, StrictPrefixIs
      <4>3. \A k \in 1 .. Len(dir(n)) : dir(n)[k] = P(j)[k] BY <2>2, <3>1, <4>1, StrictPrefixIs
      <4> QED BY <2>1, <4>2, <4>3
    <3>3. \A k \in 1 .. n : k \in 1 .. n - 1 \/ k = n BY <2>1
    <3>4. \A k \in 1 .. n : P(j)[k] = path[k] BY <3>2, <3>3
    <3>5. Len(P(j)) < Len(path) BY <2>1, <2>2 DEF m
    <3>6. IsStrictPrefix(P(j), path) BY <1>4, <2>2, <3>1, <3>4, <3>5, StrictPrefixIs
    <3> QED BY <1>13, <3>6
  <2>3. child(n)[path[n]] = Directory
    <3>1. path[n] \in DOMAIN child(n) BY <1>10, <2>1
    <3>2. \A j \in 1 .. N :
        IsStrictPrefix(dir(n), FileEntries[j].path) /\ Len(FileEntries[j].path) = Len(dir(n)) + 1
          => FileEntries[j].path[Len(dir(n)) + 1] # path[n]
      BY <2>1, <2>2 DEF P
    <3> QED BY <2>1, <3>1, <3>2 DEF IsDir
  <2> QED BY <2>3 DEF Directory
<1>14. ASSUME reached, NEW j \in 1 .. N, IsStrictPrefix(P(j), path) PROVE FALSE
  <2> DEFINE n == Len(P(j))
  <2>1. P(j) \in Seq(Name) /\ P(j) # <<>> BY <1>2 DEF P
  <2>2. n \in Nat /\ n # 0 BY <2>1
  <2>3. n < m /\ \A k \in 1 .. n : P(j)[k] = path[k] BY <1>4, <1>14, <2>1, StrictPrefixIs DEF m
  <2>4. n \in 1 .. m - 1 /\ n \in 1 .. m /\ n \in 1 .. n BY <1>4, <2>2, <2>3
  <2>5. /\ IsDir(child(n), dir(n), N) /\ Len(dir(n)) + 1 = n /\ Len(dir(n)) = n - 1
        /\ dir(n) \in Seq(Name) /\ \A k \in 1 .. n - 1 : dir(n)[k] = path[k]
    BY <1>5, <1>6, <2>4
  <2>6. IsStrictPrefix(dir(n), P(j))
    <3>1. Len(dir(n)) < Len(P(j)) BY <2>2, <2>5
    <3>2. \A k \in 1 .. Len(dir(n)) : dir(n)[k] = P(j)[k]
      <4>1. \A k \in 1 .. n - 1 : k \in 1 .. n BY <2>2
      <4> QED BY <2>3, <2>5, <4>1
    <3> QED BY <2>1, <2>5, <3>1, <3>2, StrictPrefixIs
  <2>7. \E k \in 1 .. N : child(n)[P(j)[n]] = FileChild(FileEntries[k]) BY <2>5, <2>6 DEF IsDir, P
  <2>8. child(n)[path[n]].is_directory /\ P(j)[n] = path[n] BY <1>14, <2>3, <2>4
  <2> QED BY <2>7, <2>8 DEF FileChild
<1> QED BY <1>10, <1>o, <1>13, <1>14

\* Of every disc the walk ends and, if what can be reached can be read, lists
\* the nodes of each table that can be reached once; and the library that lays
\* out an image comes from read_dir() to every file of a view that no other
\* file stands in the way of.
THEOREM TreesWhole == Spec => []TreesAreWhole
<1>1. IInv => WalkIsComplete
  <2> SUFFICES ASSUME SourceOK PROVE WalkIsComplete BY DEF IInv
  <2>1. CASE image = NoImage BY <2>1 DEF WalkIsComplete
  <2>2. CASE image # NoImage
    <3>1. IsImage(image) BY <2>2, ExtractedAssumption DEF SourceOK
    <3> QED BY <3>1, WalkComplete
  <2> QED BY <2>1, <2>2
<1>2. IInv => RebuildReachesFiles BY RebuildReaches DEF IInv
<1>3. IInv => TreesAreWhole BY <1>1, <1>2 DEF TreesAreWhole
<1> QED BY Invariant, <1>3, PTL

-----------------------------------------------------------------------------
(* JsReader: the inductive invariant                                         *)

\* What a running call of ensure_range() has done so far: the resident blocks
\* of its range are shielded, and a shielded block that was read before is
\* one of the range.
CallOK ==
  pc = "ensuring" =>
    /\ mode = "cached"
    /\ position < Size
    /\ touch_clock < MaxTouches
    /\ buf_len \in Nat \ {0}
    /\ next_block \in StartBlock .. EndBlock + 1
    /\ DOMAIN blocks \cap (StartBlock .. EndBlock) \subseteq fetched_this_call
    /\ DOMAIN last_read \cap fetched_this_call \subseteq StartBlock .. EndBlock

\* A block that callers have read carries the tick of the last such read.
TicksAreReads ==
  \A b \in DOMAIN last_read : last_read[b] = last_touched[b]

CacheInv == CacheSound /\ CallOK /\ TicksAreReads

-----------------------------------------------------------------------------
(* Blocks of the source                                                      *)

\* The blocks are the numbers up to that of the last byte's block.
LEMMA BlocksFinite ==
  /\ IsFiniteSet(Blocks)
  /\ Blocks \subseteq Nat
<1>1. Size - 1 \in Nat /\ BlockSize \in Nat \ {0} BY JsReaderAssumption
<1>2. (Size - 1) \div BlockSize \in Nat BY <1>1, DivMod
<1> QED BY <1>2, FS_Interval DEF Blocks

\* A position before the end lies in a block.
LEMMA PosInBlock ==
  ASSUME NEW pos \in Nat, pos < Size
  PROVE  /\ pos \div BlockSize \in Blocks
         /\ pos \div BlockSize \in Nat
<1>1. Size - 1 \in Nat /\ BlockSize \in Nat \ {0} /\ pos <= Size - 1 BY JsReaderAssumption
<1>2. pos \div BlockSize \in Nat BY <1>1, DivMod
<1>3. pos \div BlockSize <= (Size - 1) \div BlockSize BY <1>1, DivMonotonic
<1>4. (Size - 1) \div BlockSize \in Nat BY <1>1, DivMod
<1> QED BY <1>2, <1>3, <1>4 DEF Blocks

\* A block starts before the end and holds at least one byte.
LEMMA SlotBytes ==
  ASSUME NEW b \in Blocks
  PROVE  /\ b * BlockSize \in Nat
         /\ b * BlockSize < Size
         /\ Smaller(BlockSize, Size - b * BlockSize) \in 1 .. BlockSize
         /\ [from |-> b * BlockSize,
             len |-> Smaller(BlockSize, Size - b * BlockSize)] \in Extent
<1> DEFINE final == (Size - 1) \div BlockSize
           start == b * BlockSize
           len == Smaller(BlockSize, Size - start)
<1>1. Size \in Nat /\ Size - 1 \in Nat /\ BlockSize \in Nat \ {0} BY JsReaderAssumption
<1>2. final \in Nat /\ final * BlockSize <= Size - 1 BY <1>1, DivMod, DivBounds
<1>3. b \in Nat /\ b <= final BY <1>2 DEF Blocks
<1> HIDE DEF final
<1>4. b * BlockSize <= final * BlockSize BY <1>1, <1>2, <1>3, MultMonotonic
<1>5. start \in Nat /\ final * BlockSize \in Nat BY <1>1, <1>2, <1>3
<1>6. start < Size BY <1>1, <1>2, <1>4, <1>5
<1> HIDE DEF start
<1>7. len \in 1 .. BlockSize /\ len \in 0 .. Size BY <1>1, <1>5, <1>6 DEF Smaller
<1>8. [from |-> start, len |-> len] \in Extent BY <1>1, <1>5, <1>6, <1>7 DEF Extent
<1> QED BY <1>5, <1>6, <1>7, <1>8 DEF start

\* What a read of len bytes wants, and the blocks it touches.
LEMMA RangeFacts ==
  ASSUME position \in Nat, position < Size, NEW len \in Nat \ {0}
  PROVE  /\ Want(len) \in Nat /\ Want(len) >= 1
         /\ Want(len) <= len /\ position + Want(len) <= Size
         /\ Want(len) < len => position + Want(len) = Size
         /\ StartBlock \in Blocks
         /\ (position + Want(len) - 1) \div BlockSize \in Blocks
         /\ StartBlock <= (position + Want(len) - 1) \div BlockSize
<1>1. /\ Want(len) \in Nat /\ Want(len) >= 1
      /\ Want(len) <= len /\ position + Want(len) <= Size
      /\ Want(len) < len => position + Want(len) = Size
  BY JsReaderAssumption DEF Want, Smaller
<1> DEFINE final == position + Want(len) - 1
<1>2. final \in Nat /\ final < Size /\ position <= final BY <1>1, JsReaderAssumption
<1> HIDE DEF final
<1>3. StartBlock \in Blocks /\ final \div BlockSize \in Blocks BY <1>2, PosInBlock DEF StartBlock
<1>4. StartBlock <= final \div BlockSize BY <1>2, DivMonotonic, JsReaderAssumption DEF StartBlock
<1> QED BY <1>1, <1>3, <1>4 DEF final

\* The same of the running call.
LEMMA CallRange ==
  ASSUME CacheInv, pc = "ensuring"
  PROVE  /\ StartBlock \in Blocks /\ EndBlock \in Blocks
         /\ StartBlock <= EndBlock
         /\ StartBlock .. EndBlock \subseteq Blocks
         /\ next_block \in Nat /\ StartBlock <= next_block
         /\ next_block .. EndBlock \subseteq Blocks
<1>1. position \in Nat /\ position < Size /\ buf_len \in Nat \ {0}
  BY DEF CacheInv, CacheSound, ReaderTyped, CallOK
<1>2. StartBlock \in Blocks /\ EndBlock \in Blocks /\ StartBlock <= EndBlock
  BY <1>1, RangeFacts DEF EndBlock
<1>3. (Size - 1) \div BlockSize \in Nat BY JsReaderAssumption, DivMod
<1>4. StartBlock .. EndBlock \subseteq Blocks BY <1>2, <1>3 DEF Blocks
<1>5. next_block \in Nat /\ StartBlock <= next_block BY <1>2, BlocksFinite DEF CacheInv, CallOK
<1>6. next_block .. EndBlock \subseteq StartBlock .. EndBlock BY <1>2, <1>5, BlocksFinite
<1> QED BY <1>2, <1>4, <1>5, <1>6

-----------------------------------------------------------------------------
(* Runs of missing blocks                                                    *)

\* The run a fetch is about starts at the first missing block, ends within
\* the range, and the fetch brings in blocks that are not resident.
LEMMA RunFacts ==
  ASSUME CacheInv, pc = "ensuring", Missing # {}
  PROVE  /\ RunStart \in Blocks /\ RunEnd \in Blocks /\ FetchLast \in Blocks
         /\ next_block <= RunStart /\ RunStart <= RunEnd /\ RunEnd <= EndBlock
         /\ RunEnd <= FetchLast
         /\ next_block .. RunStart - 1 \subseteq DOMAIN blocks
         /\ Incoming \subseteq Blocks \ DOMAIN blocks
         /\ RunStart .. RunEnd \subseteq Incoming
<1>a. next_block \in Nat /\ EndBlock \in Nat /\ next_block .. EndBlock \subseteq Blocks
  BY CallRange, BlocksFinite
<1>0. Missing \in SUBSET Int /\ \A x \in Missing : next_block <= x /\ x <= EndBlock BY <1>a DEF Missing
<1>1. RunStart \in Missing /\ \A x \in Missing : RunStart <= x
  <2>1. next_block \in Int /\ \A x \in Missing : next_block <= x BY <1>a, <1>0
  <2> QED BY <2>1, <1>0, IntMin DEF RunStart
<1>2. /\ RunStart \in Nat /\ EndBlock \in Nat
      /\ next_block <= RunStart /\ RunStart <= EndBlock
  BY <1>0, <1>1, <1>a DEF Missing
<1>3. next_block .. RunStart - 1 \subseteq DOMAIN blocks
  <2> SUFFICES ASSUME NEW x \in next_block .. RunStart - 1, x \notin DOMAIN blocks
      PROVE  FALSE
    OBVIOUS
  <2>1. x \in Missing BY <1>2, <1>a DEF Missing
  <2> QED BY <2>1, <1>1, <1>2
<1> DEFINE Ends == {e \in RunStart .. EndBlock : RunStart .. e \subseteq Missing}
<1>4. RunEnd \in Ends
  <2>1. Ends \in SUBSET Int /\ \A x \in Ends : x <= EndBlock BY <1>2
  <2>2. RunStart \in Ends BY <1>1, <1>2
  <2>3. RunEnd = Max(Ends) BY DEF RunEnd
  <2>4. EndBlock \in Int /\ Ends # {} BY <1>2, <2>2
  <2> HIDE DEF Ends
  <2> QED BY <2>1, <2>3, <2>4, IntMax
<1>5. /\ RunEnd \in Nat /\ RunStart <= RunEnd /\ RunEnd <= EndBlock
      /\ RunStart .. RunEnd \subseteq Missing
  BY <1>2, <1>4
<1>6. RunStart .. RunEnd \subseteq Blocks \ DOMAIN blocks BY <1>5, <1>a DEF Missing
<1> DEFINE Lasts == {e \in RunEnd .. RunEnd + PrefetchBlocks :
                       RunEnd + 1 .. e \subseteq Blocks \ DOMAIN blocks}
<1>7. /\ FetchLast \in Nat /\ RunEnd <= FetchLast
      /\ RunEnd + 1 .. FetchLast \subseteq Blocks \ DOMAIN blocks
  <2>1. CASE Streak >= StreakThreshold
    <3>1. Lasts \in SUBSET Int /\ \A x \in Lasts : x <= RunEnd + PrefetchBlocks
      BY <1>5, JsReaderAssumption
    <3>2. RunEnd \in Lasts BY <1>5, JsReaderAssumption
    <3>3. Max(Lasts) \in Lasts
      <4>1. RunEnd + PrefetchBlocks \in Int BY <1>5, JsReaderAssumption
      <4> HIDE DEF Lasts
      <4> QED BY <3>1, <3>2, <4>1, IntMax
    <3>4. FetchLast = Max(Lasts) BY <2>1 DEF FetchLast
    <3> QED BY <3>3, <3>4, <1>5, JsReaderAssumption
  <2>2. CASE ~(Streak >= StreakThreshold) BY <2>2, <1>5 DEF FetchLast
  <2> QED BY <2>1, <2>2
<1>8. Incoming \subseteq Blocks \ DOMAIN blocks
  <2> SUFFICES ASSUME NEW x \in Incoming
      PROVE  x \in Blocks \ DOMAIN blocks
    OBVIOUS
  <2>1. x \in Int /\ RunStart <= x /\ x <= FetchLast BY <1>2, <1>7 DEF Incoming
  <2>2. CASE x <= RunEnd BY <2>1, <2>2, <1>2, <1>5, <1>6
  <2>3. CASE RunEnd < x
    <3>1. x \in RunEnd + 1 .. FetchLast BY <2>1, <2>3, <1>5, <1>7
    <3> QED BY <3>1, <1>7
  <2> QED BY <2>1, <2>2, <2>3, <1>5
<1>9. RunStart .. RunEnd \subseteq Incoming BY <1>2, <1>5, <1>7 DEF Incoming
<1>10. RunStart \in Incoming /\ RunEnd \in Incoming /\ FetchLast \in Incoming
  BY <1>2, <1>5, <1>7 DEF Incoming
<1> HIDE DEF Ends, Lasts
<1> QED BY <1>2, <1>3, <1>5, <1>7, <1>8, <1>9, <1>10

-----------------------------------------------------------------------------
(* Counting the candidates for eviction                                      *)

Below(b) == {c \in Candidates : Colder(c, b)}

ReadRank(b) == Cardinality(Below(b))

\* The sets the cache is made of are finite, and ticks are numbers.
LEMMA CandidateFacts ==
  ASSUME CacheInv
  PROVE  /\ IsFiniteSet(DOMAIN blocks) /\ IsFiniteSet(Candidates)
         /\ Cardinality(DOMAIN blocks) \in Nat /\ Cardinality(Candidates) \in Nat
         /\ Candidates \subseteq Nat
         /\ \A b : Tick(b) \in Nat
<1>1. DOMAIN blocks \subseteq Blocks /\ Candidates \subseteq DOMAIN blocks
  BY DEF CacheInv, CacheSound, ReaderTyped, Candidates
<1>2. IsFiniteSet(DOMAIN blocks) /\ IsFiniteSet(Candidates) BY <1>1, BlocksFinite, FS_Subset
<1>3. \A b : Tick(b) \in Nat BY DEF CacheInv, CacheSound, ReaderTyped, Tick
<1> QED BY <1>1, <1>2, <1>3, BlocksFinite, FS_CardinalityType

\* A rank counts candidates other than the block itself.
LEMMA RankRange ==
  ASSUME CacheInv, NEW b \in Candidates
  PROVE  ReadRank(b) \in 0 .. Cardinality(Candidates) - 1
<1>1. Below(b) \subseteq Candidates /\ b \notin Below(b)
  <2>1. b \in Nat /\ Tick(b) \in Nat BY CandidateFacts
  <2>2. ~Colder(b, b) BY <2>1 DEF Colder
  <2> QED BY <2>2 DEF Below
<1>2. IsFiniteSet(Candidates) BY CandidateFacts
<1>3. /\ IsFiniteSet(Below(b))
      /\ Cardinality(Below(b)) <= Cardinality(Candidates)
      /\ Cardinality(Candidates) = Cardinality(Below(b)) => Candidates = Below(b)
  BY <1>1, <1>2, FS_Subset
<1>4. Cardinality(Below(b)) \in Nat /\ Cardinality(Candidates) \in Nat BY <1>2, <1>3, FS_CardinalityType
<1> QED BY <1>1, <1>3, <1>4 DEF ReadRank

\* A colder block has a lower rank.
LEMMA RankOrders ==
  ASSUME CacheInv, NEW b \in Candidates, NEW c \in Candidates, Colder(b, c)
  PROVE  ReadRank(b) < ReadRank(c)
<1>0. /\ b \in Nat /\ c \in Nat /\ Tick(b) \in Nat /\ Tick(c) \in Nat
      /\ IsFiniteSet(Candidates)
  BY CandidateFacts
<1>1. Below(b) \subseteq Below(c)
  <2> SUFFICES ASSUME NEW d \in Candidates, Colder(d, b)
      PROVE  Colder(d, c)
    BY DEF Below
  <2>1. d \in Nat /\ Tick(d) \in Nat BY CandidateFacts
  <2> QED BY <1>0, <2>1 DEF Colder
<1>2. b \in Below(c) /\ b \notin Below(b) BY <1>0 DEF Below, Colder
<1>3. IsFiniteSet(Below(c)) BY <1>0, FS_Subset DEF Below
<1>4. /\ IsFiniteSet(Below(b))
      /\ Cardinality(Below(b)) <= Cardinality(Below(c))
      /\ Cardinality(Below(c)) # Cardinality(Below(b))
  BY <1>1, <1>2, <1>3, FS_Subset
<1>5. Cardinality(Below(b)) \in Nat /\ Cardinality(Below(c)) \in Nat BY <1>3, <1>4, FS_CardinalityType
<1> QED BY <1>4, <1>5 DEF ReadRank

\* No two candidates share a rank.
LEMMA RankInjective ==
  ASSUME CacheInv, NEW b \in Candidates, NEW c \in Candidates, ReadRank(b) = ReadRank(c)
  PROVE  b = c
<1>1. b \in Nat /\ c \in Nat /\ Tick(b) \in Nat /\ Tick(c) \in Nat BY CandidateFacts
<1>2. ReadRank(b) \in Int /\ ReadRank(c) \in Int BY RankRange
<1>3. ~Colder(b, c) /\ ~Colder(c, b) BY <1>2, RankOrders
<1> QED BY <1>1, <1>3 DEF Colder

\* Every rank below the number of candidates is taken.
LEMMA RankSurjective ==
  ASSUME CacheInv, NEW r \in 0 .. Cardinality(Candidates) - 1
  PROVE  \E b \in Candidates : ReadRank(b) = r
<1> DEFINE n == Cardinality(Candidates)
           f == [b \in Candidates |-> ReadRank(b)]
<1>1. n \in Nat /\ IsFiniteSet(Candidates) BY CandidateFacts
<1>2. IsFiniteSet(0 .. n - 1) /\ Cardinality(0 .. n - 1) = n
  <2>1. 0 \in Int /\ n - 1 \in Int BY <1>1
  <2>2. /\ IsFiniteSet(0 .. n - 1)
        /\ Cardinality(0 .. n - 1) = IF 0 > n - 1 THEN 0 ELSE (n - 1) - 0 + 1
    BY <2>1, FS_Interval
  <2> HIDE DEF n
  <2> QED BY <1>1, <2>2
<1>3. f \in [Candidates -> 0 .. n - 1] BY RankRange
<1>4. \A b, c \in Candidates : f[b] = f[c] => b = c BY RankInjective
<1>5. f \in Injection(Candidates, 0 .. n - 1)
  <2> HIDE DEF f, n
  <2> QED BY <1>3, <1>4, Fun_IsInj
<1>6. f \in Surjection(Candidates, 0 .. n - 1)
  <2> HIDE DEF f
  <2> QED BY <1>2, <1>5, FS_Injection
<1>7. \A t \in 0 .. n - 1 : \E b \in Candidates : f[b] = t
  <2> HIDE DEF f, n
  <2> QED BY <1>6, Fun_SurjectionProperties
<1> QED BY <1>7

\* Making room for n blocks takes n of the candidates, or all of them.
LEMMA EvictedCount ==
  ASSUME CacheInv, NEW n \in Nat, n = NeedToFree
  PROVE  \/ Evicted = Candidates
         \/ Cardinality(Evicted) = n
<1>1. Cardinality(Candidates) \in Nat /\ IsFiniteSet(Candidates) BY CandidateFacts
<1>2. Evicted = {b \in Candidates : ReadRank(b) < n} BY DEF Evicted, ReadRank, Below
<1>3. CASE Cardinality(Candidates) <= n
  <2>1. \A b \in Candidates : ReadRank(b) < n BY <1>1, <1>3, RankRange
  <2> QED BY <1>2, <2>1
<1>4. CASE n < Cardinality(Candidates)
  <2> DEFINE f == [b \in Evicted |-> ReadRank(b)]
  <2>1. IsFiniteSet(0 .. n - 1) /\ Cardinality(0 .. n - 1) = n
    <3>1. 0 \in Int /\ n - 1 \in Int OBVIOUS
    <3>2. /\ IsFiniteSet(0 .. n - 1)
          /\ Cardinality(0 .. n - 1) = IF 0 > n - 1 THEN 0 ELSE (n - 1) - 0 + 1
      BY <3>1, FS_Interval
    <3> QED BY <3>2
  <2>2. f \in [Evicted -> 0 .. n - 1]
    <3> SUFFICES ASSUME NEW b \in Evicted PROVE ReadRank(b) \in 0 .. n - 1 OBVIOUS
    <3>1. b \in Candidates /\ ReadRank(b) < n BY <1>2
    <3> QED BY <3>1, <1>1, RankRange
  <2>3. \A b, c \in Evicted : f[b] = f[c] => b = c BY <1>2, RankInjective
  <2>4. \A t \in 0 .. n - 1 : \E b \in Evicted : f[b] = t
    <3> SUFFICES ASSUME NEW t \in 0 .. n - 1
        PROVE  \E b \in Evicted : ReadRank(b) = t
      OBVIOUS
    <3>1. t \in 0 .. Cardinality(Candidates) - 1 BY <1>1, <1>4
    <3>2. PICK b \in Candidates : ReadRank(b) = t BY <3>1, RankSurjective
    <3> QED BY <1>2, <3>2
  <2> HIDE DEF f
  <2>5. f \in Injection(Evicted, 0 .. n - 1) /\ f \in Surjection(Evicted, 0 .. n - 1)
    BY <2>2, <2>3, <2>4, Fun_IsInj, Fun_IsSurj
  <2>6. Cardinality(Evicted) = Cardinality(0 .. n - 1) BY <2>1, <2>5, FS_Injection
  <2> QED BY <2>1, <2>6
<1> QED BY <1>1, <1>3, <1>4

\* What a fetch needs to make room for is a number.
LEMMA NeedIsInt ==
  ASSUME CacheInv, pc = "ensuring", Missing # {}
  PROVE  /\ NeedToFree \in Int
         /\ IsFiniteSet(Incoming) /\ Cardinality(Incoming) \in Nat
<1>1. IsFiniteSet(Incoming)
  <2>1. Incoming \subseteq Blocks BY RunFacts
  <2> QED BY <2>1, BlocksFinite, FS_Subset
<1>2. Cardinality(Incoming) \in Nat BY <1>1, FS_CardinalityType
<1> QED BY <1>1, <1>2, CandidateFacts, JsReaderAssumption DEF NeedToFree

\* Where no room is needed nothing is evicted.
LEMMA NoNeedNoEviction ==
  ASSUME CacheInv, pc = "ensuring", Missing # {}, NeedToFree <= 0
  PROVE  Evicted = {}
<1> SUFFICES ASSUME NEW b \in Candidates, ReadRank(b) < NeedToFree
    PROVE  FALSE
  BY DEF Evicted, ReadRank, Below
<1>1. ReadRank(b) \in Nat BY RankRange, CandidateFacts
<1> QED BY <1>1, NeedIsInt

\* An evicted block is no hotter than a candidate that stays.
LEMMA EvictsColdest ==
  ASSUME CacheInv, pc = "ensuring", Missing # {},
         NEW b \in Evicted, NEW c \in Candidates \ Evicted
  PROVE  Tick(b) <= Tick(c)
<1>1. b \in Candidates /\ ReadRank(b) < NeedToFree /\ ~(ReadRank(c) < NeedToFree)
  BY DEF Evicted, ReadRank, Below
<1>2. ReadRank(b) \in Int /\ ReadRank(c) \in Int /\ NeedToFree \in Int BY <1>1, RankRange, NeedIsInt
<1>3. ~Colder(c, b) BY <1>1, <1>2, RankOrders
<1>4. Tick(b) \in Nat /\ Tick(c) \in Nat BY CandidateFacts
<1> QED BY <1>3, <1>4 DEF Colder

\* What is resident after a fetch is within the cap, or all of it belongs
\* to the running call.
LEMMA RoomMade ==
  ASSUME CacheInv, pc = "ensuring", Missing # {}
  PROVE  LET after == (DOMAIN blocks \ Evicted) \cup Incoming
         IN  \/ Cardinality(after) <= MaxResidentBlocks
             \/ after \subseteq fetched_this_call \cup Incoming
<1> DEFINE kept == DOMAIN blocks \ Evicted
           after == kept \cup Incoming
<1>1. /\ IsFiniteSet(DOMAIN blocks) /\ Cardinality(DOMAIN blocks) \in Nat
      /\ Evicted \subseteq DOMAIN blocks
  BY CandidateFacts DEF Evicted, Candidates
<1>2. /\ IsFiniteSet(kept) /\ Cardinality(kept) \in Nat
      /\ Cardinality(kept) = Cardinality(DOMAIN blocks) - Cardinality(Evicted)
  <2>1. DOMAIN blocks \cap Evicted = Evicted BY <1>1
  <2> QED BY <1>1, <2>1, FS_Difference, FS_CardinalityType
<1>3. IsFiniteSet(Incoming) /\ Cardinality(Incoming) \in Nat /\ NeedToFree \in Int BY NeedIsInt
<1>4. Cardinality(after) <= Cardinality(kept) + Cardinality(Incoming)
      /\ Cardinality(after) \in Nat
  <2>1. /\ IsFiniteSet(after)
        /\ Cardinality(after) =
             Cardinality(kept) + Cardinality(Incoming) - Cardinality(kept \cap Incoming)
    <3> HIDE DEF kept
    <3> QED BY <1>2, <1>3, FS_Union
  <2>2. IsFiniteSet(kept \cap Incoming)
    <3> HIDE DEF kept
    <3> QED BY <1>2, FS_Intersection
  <2>3. Cardinality(kept \cap Incoming) \in Nat /\ Cardinality(after) \in Nat
    BY <2>1, <2>2, FS_CardinalityType
  <2> HIDE DEF kept, after
  <2> QED BY <1>2, <1>3, <2>1, <2>3
<1>5. CASE NeedToFree <= 0
  <2>1. Cardinality(Evicted) = 0 BY <1>5, NoNeedNoEviction, FS_EmptySet
  <2> HIDE DEF kept, after
  <2>2. Cardinality(after) <= MaxResidentBlocks
    BY <1>1, <1>2, <1>3, <1>4, <1>5, <2>1, JsReaderAssumption DEF NeedToFree
  <2> QED BY <2>2 DEF kept, after
<1>6. CASE NeedToFree > 0 /\ Cardinality(Evicted) = NeedToFree
  <2> HIDE DEF kept, after
  <2>1. Cardinality(after) <= MaxResidentBlocks
    BY <1>1, <1>2, <1>3, <1>4, <1>6, JsReaderAssumption DEF NeedToFree
  <2> QED BY <2>1 DEF kept, after
<1>7. CASE Evicted = Candidates BY <1>7 DEF Candidates
<1>8. NeedToFree > 0 => Evicted = Candidates \/ Cardinality(Evicted) = NeedToFree BY <1>3, EvictedCount
<1> QED BY <1>3, <1>5, <1>6, <1>7, <1>8

-----------------------------------------------------------------------------
(* The invariant is inductive                                                *)

LEMMA ReaderInitInv == ReaderInit => CacheInv
<1> SUFFICES ASSUME ReaderInit PROVE CacheInv OBVIOUS
<1>1. ReaderTyped BY JsReaderAssumption DEF ReaderInit, ReaderTyped, Extent, NoBytes
<1>2. BlocksHoldTheirBytes /\ NoFalseEnd /\ PassedBlocksStay /\ CallOK /\ TicksAreReads
  BY DEF ReaderInit, BlocksHoldTheirBytes, NoFalseEnd, NoResult, PassedBlocksStay, CallOK, TicksAreReads
<1> QED BY <1>1, <1>2 DEF CacheInv, CacheSound

\* An idle reader stays sound when only the position and the result change.
LEMMA IdleStep ==
  ASSUME CacheInv, pc = "idle", position' \in Nat, NoFalseEnd',
         UNCHANGED <<mode, cacheVars, seq_buffer, pc, callVars, last_read>>
  PROVE  CacheInv'
<1> USE DEF cacheVars, callVars
<1>1. ReaderTyped' BY DEF CacheInv, CacheSound, ReaderTyped
<1>2. BlocksHoldTheirBytes' /\ PassedBlocksStay' /\ CallOK' /\ TicksAreReads'
  BY DEF CacheInv, CacheSound, BlocksHoldTheirBytes, PassedBlocksStay, CallOK, TicksAreReads
<1> QED BY <1>1, <1>2 DEF CacheInv, CacheSound

LEMMA SeekToIInv ==
  ASSUME CacheInv, NEW pos \in 0 .. Size + 1, SeekTo(pos)
  PROVE  CacheInv'
<1>1. position' \in Nat BY JsReaderAssumption DEF SeekTo
<1>2. NoFalseEnd' BY DEF SeekTo, NoFalseEnd, NoResult
<1> QED BY <1>1, <1>2, IdleStep DEF SeekTo

LEMMA ReadAtEndIInv ==
  ASSUME CacheInv, ReadAtEnd
  PROVE  CacheInv'
<1>1. position' \in Nat BY DEF ReadAtEnd, CacheInv, CacheSound, ReaderTyped
<1>2. NoFalseEnd' BY DEF ReadAtEnd, NoFalseEnd, NoResult
<1> QED BY <1>1, <1>2, IdleStep DEF ReadAtEnd

LEMMA FillFailsIInv ==
  ASSUME CacheInv, NEW len \in Lengths, FillFails(len)
  PROVE  CacheInv'
<1>1. position' \in Nat BY DEF FillFails, CacheInv, CacheSound, ReaderTyped
<1>2. NoFalseEnd' BY DEF FillFails, NoFalseEnd
<1> QED BY <1>1, <1>2, IdleStep DEF FillFails

LEMMA SetSequentialModeIInv ==
  ASSUME CacheInv, NEW enabled \in BOOLEAN, SetSequentialMode(enabled)
  PROVE  CacheInv'
<1> USE DEF Keep
<1>1. ReaderTyped'
  <2>1. CASE enabled
    BY <2>1 DEF SetSequentialMode, SeqBufferAfterSwitch, CacheInv, CacheSound, ReaderTyped
  <2>2. CASE ~enabled
    <3>1. seq_buffer' = NoBytes /\ mode' = "cached" BY <2>2 DEF SetSequentialMode, SeqBufferAfterSwitch
    <3>2. NoBytes \in Extent BY JsReaderAssumption DEF NoBytes, Extent
    <3> QED BY <2>2, <3>1, <3>2 DEF SetSequentialMode, CacheInv, CacheSound, ReaderTyped
  <2> QED BY <2>1, <2>2
<1>2. BlocksHoldTheirBytes' BY DEF SetSequentialMode, CacheInv, CacheSound, BlocksHoldTheirBytes
<1>3. NoFalseEnd' /\ PassedBlocksStay' /\ CallOK'
  BY DEF SetSequentialMode, NoFalseEnd, NoResult, PassedBlocksStay, CallOK
<1>4. TicksAreReads' BY DEF SetSequentialMode, CacheInv, TicksAreReads
<1> QED BY <1>1, <1>2, <1>3, <1>4 DEF CacheInv, CacheSound

LEMMA ReadCachedIInv ==
  ASSUME CacheInv, NEW len \in Lengths, ReadCached(len)
  PROVE  CacheInv'
<1>0. len \in Nat \ {0} /\ position \in Nat /\ position < Size
  BY JsReaderAssumption DEF ReadCached, CacheInv, CacheSound, ReaderTyped
<1>1. ReaderTyped' BY DEF ReadCached, cacheVars, CacheInv, CacheSound, ReaderTyped
<1>2. BlocksHoldTheirBytes' /\ TicksAreReads' /\ NoFalseEnd'
  BY DEF ReadCached, cacheVars, CacheInv, CacheSound, BlocksHoldTheirBytes, TicksAreReads, NoFalseEnd,
     NoResult
<1> DEFINE final == (position + Want(len) - 1) \div BlockSize
<1>3. /\ StartBlock' = StartBlock /\ EndBlock' = final
      /\ next_block' = StartBlock /\ buf_len' = len
      /\ fetched_this_call' = DOMAIN blocks \cap (StartBlock .. final)
      /\ UNCHANGED <<position, mode, blocks, last_touched, touch_clock, last_read>>
      /\ mode = "cached" /\ touch_clock < MaxTouches
  BY DEF ReadCached, cacheVars, StartBlock, EndBlock, Want
<1>4. StartBlock \in Nat /\ final \in Nat /\ StartBlock <= final BY <1>0, RangeFacts, BlocksFinite
<1> HIDE DEF final
<1>5. PassedBlocksStay' BY <1>3, <1>4 DEF PassedBlocksStay
<1>6. CallOK'
  <2>1. next_block' \in StartBlock' .. EndBlock' + 1 BY <1>3, <1>4
  <2> QED BY <1>0, <1>3, <2>1 DEF CallOK
<1> QED BY <1>1, <1>2, <1>5, <1>6 DEF CacheInv, CacheSound

LEMMA ReadSequentialIInv ==
  ASSUME CacheInv, NEW len \in Lengths, ReadSequential(len)
  PROVE  CacheInv'
<1> DEFINE got == Smaller(Want(len), seq_buffer'.from + seq_buffer'.len - position)
<1>0. /\ len \in Nat \ {0} /\ position \in Nat /\ position < Size
      /\ seq_buffer \in Extent /\ Size \in Nat /\ SeqWindow \in Nat \ {0}
      /\ mode = "sequential" /\ pc = "idle"
  BY JsReaderAssumption DEF ReadSequential, CacheInv, CacheSound, ReaderTyped
<1>1. Want(len) \in Nat /\ Want(len) >= 1 BY <1>0, RangeFacts
<1>2. /\ seq_buffer' \in Extent
      /\ seq_buffer'.from + seq_buffer'.len - position >= 1
  <2>1. CASE SeqBufferCovers(position) BY <1>0, <2>1 DEF ReadSequential, SeqBufferCovers, Extent
  <2>2. CASE ~SeqBufferCovers(position) BY <1>0, <2>2 DEF ReadSequential, Extent, Smaller
  <2> QED BY <2>1, <2>2
<1>3. got \in 1 .. Want(len) /\ got \in Nat
  <2>1. seq_buffer'.from + seq_buffer'.len - position \in Nat BY <1>0, <1>2 DEF Extent
  <2> QED BY <1>1, <1>2, <2>1 DEF Smaller
<1>4. position' = position + got /\ result' = [wanted |-> Want(len), got |-> got, ok |-> TRUE]
      /\ UNCHANGED <<mode, cacheVars, pc, callVars, last_read>>
  BY DEF ReadSequential
<1> HIDE DEF got
<1>5. ReaderTyped' BY <1>0, <1>2, <1>3, <1>4 DEF CacheInv, CacheSound, ReaderTyped, cacheVars
<1>6. NoFalseEnd' BY <1>0, <1>3, <1>4 DEF NoFalseEnd
<1>7. BlocksHoldTheirBytes' /\ PassedBlocksStay' /\ CallOK' /\ TicksAreReads'
  BY <1>0, <1>4 DEF CacheInv, CacheSound, cacheVars, BlocksHoldTheirBytes, PassedBlocksStay, CallOK,
     TicksAreReads
<1> QED BY <1>5, <1>6, <1>7 DEF CacheInv, CacheSound

\* Making room keeps the records of the blocks that stay.
LEMMA MakeRoomFacts ==
  ASSUME CacheInv, pc = "ensuring", Missing # {}, MakeRoom
  PROVE  /\ DOMAIN last_touched' \subseteq DOMAIN blocks \ Evicted
         /\ DOMAIN last_read' \subseteq DOMAIN last_touched'
         /\ DOMAIN last_read' \subseteq DOMAIN last_read
         /\ \A b \in DOMAIN last_touched' : last_touched'[b] \in 1 .. touch_clock
         /\ \A b \in DOMAIN last_read' : last_read'[b] = last_touched'[b]
         /\ seq_streak' \in Nat
<1> DEFINE kept == DOMAIN blocks \ Evicted
<1>1. /\ last_touched' = [b \in DOMAIN last_touched \cap kept |-> last_touched[b]]
      /\ last_read' = [b \in DOMAIN last_read \cap kept |-> last_read[b]]
  BY DEF MakeRoom, Keep
<1>2. /\ DOMAIN last_touched \subseteq DOMAIN blocks
      /\ DOMAIN last_read \subseteq DOMAIN last_touched
      /\ \A b \in DOMAIN last_touched : last_touched[b] \in 1 .. touch_clock
      /\ \A b \in DOMAIN last_read : last_read[b] = last_touched[b]
      /\ seq_streak \in Nat
  BY DEF CacheInv, CacheSound, ReaderTyped, TicksAreReads
<1>3. seq_streak' \in Nat BY <1>2 DEF MakeRoom, Streak
<1> HIDE DEF kept
<1>4. /\ DOMAIN last_touched' = DOMAIN last_touched \cap kept
      /\ DOMAIN last_read' = DOMAIN last_read \cap kept
      /\ \A b \in DOMAIN last_touched' : last_touched'[b] = last_touched[b]
      /\ \A b \in DOMAIN last_read' : last_read'[b] = last_read[b]
  BY <1>1
<1> QED BY <1>2, <1>3, <1>4 DEF kept

\* A fetched slice holds the bytes of its block.
LEMMA SliceFacts ==
  ASSUME NEW b \in Nat, RunStart \in Nat
  PROVE  Slice(b) = [from |-> b * BlockSize, len |-> Smaller(BlockSize, Size - b * BlockSize)]
<1>1. RunStart * BlockSize + (b - RunStart) * BlockSize = b * BlockSize BY JsReaderAssumption
<1> QED BY <1>1 DEF Slice

LEMMA FetchRunIInv ==
  ASSUME CacheInv, FetchRun
  PROVE  CacheInv'
<1> DEFINE kept == DOMAIN blocks \ Evicted
<1>0. /\ pc = "ensuring" /\ Missing # {} /\ MakeRoom
      /\ fetched_this_call' = fetched_this_call \cup Incoming
      /\ last_run_end_block' = FetchLast
      /\ next_block' = RunEnd + 1
      /\ UNCHANGED <<position, mode, touch_clock, seq_buffer, pc, buf_len, result>>
  BY DEF FetchRun
<1>1. /\ DOMAIN blocks' = kept \cup Incoming
      /\ \A b \in Incoming : blocks'[b] = Slice(b)
      /\ \A b \in kept \ Incoming : blocks'[b] = blocks[b]
  BY DEF FetchRun
<1>2. /\ RunStart \in Nat /\ RunEnd \in Nat /\ FetchLast \in Blocks
      /\ next_block <= RunStart /\ RunStart <= RunEnd /\ RunEnd <= EndBlock
      /\ next_block .. RunStart - 1 \subseteq DOMAIN blocks
      /\ Incoming \subseteq Blocks \ DOMAIN blocks
      /\ RunStart .. RunEnd \subseteq Incoming
  BY <1>0, RunFacts, BlocksFinite
<1>3. /\ StartBlock \in Nat /\ EndBlock \in Nat /\ next_block \in Nat
      /\ StartBlock <= next_block
  BY <1>0, CallRange, BlocksFinite
<1>4. StartBlock' = StartBlock /\ EndBlock' = EndBlock BY <1>0 DEF StartBlock, EndBlock, Want
<1>5. kept \subseteq DOMAIN blocks /\ DOMAIN blocks \subseteq Blocks
  BY DEF CacheInv, CacheSound, ReaderTyped
<1>6. BlocksHoldTheirBytes'
  <2> SUFFICES ASSUME NEW b \in DOMAIN blocks'
      PROVE  blocks'[b] = [from |-> b * BlockSize,
                           len |-> Smaller(BlockSize, Size - b * BlockSize)]
    BY DEF BlocksHoldTheirBytes
  <2>1. CASE b \in Incoming BY <2>1, <1>1, <1>2, SliceFacts, BlocksFinite
  <2>2. CASE b \in kept \ Incoming BY <2>2, <1>1, <1>5 DEF CacheInv, CacheSound, BlocksHoldTheirBytes
  <2> QED BY <2>1, <2>2, <1>1
<1>7. ReaderTyped'
  <2>1. DOMAIN blocks' \subseteq Blocks BY <1>1, <1>2, <1>5
  <2>2. \A b \in DOMAIN blocks' : blocks'[b] \in Extent BY <1>6, <2>1, SlotBytes DEF BlocksHoldTheirBytes
  <2>3. /\ DOMAIN last_touched' \subseteq DOMAIN blocks'
        /\ DOMAIN last_read' \subseteq DOMAIN last_touched'
        /\ \A b \in DOMAIN last_touched' : last_touched'[b] \in 1 .. touch_clock'
        /\ seq_streak' \in Nat
    BY <1>0, <1>1, MakeRoomFacts
  <2>4. last_run_end_block' \in Blocks \cup {NoRun} BY <1>0, <1>2
  <2>5. mode = "cached" BY <1>0 DEF CacheInv, CallOK
  <2> QED BY <1>0, <2>1, <2>2, <2>3, <2>4, <2>5 DEF CacheInv, CacheSound, ReaderTyped
<1>8. NoFalseEnd' BY <1>0 DEF CacheInv, CacheSound, NoFalseEnd
<1>9. fetched_this_call \subseteq kept
  BY <1>0 DEF CacheInv, CacheSound, PassedBlocksStay, Evicted, Candidates
<1>10. DOMAIN blocks \cap (StartBlock .. EndBlock) \subseteq fetched_this_call
  BY <1>0 DEF CacheInv, CallOK
<1> HIDE DEF kept
<1>11. PassedBlocksStay'
  <2>1. fetched_this_call' \subseteq DOMAIN blocks' BY <1>0, <1>1, <1>9
  <2>2. StartBlock .. RunEnd \subseteq DOMAIN blocks'
    <3> SUFFICES ASSUME NEW x \in StartBlock .. RunEnd PROVE x \in DOMAIN blocks' OBVIOUS
    <3>0. x \in StartBlock .. EndBlock BY <1>2, <1>3
    <3>1. CASE x < next_block
      <4>1. x \in StartBlock .. next_block - 1 BY <3>1, <1>3
      <4>2. x \in DOMAIN blocks BY <4>1, <1>0 DEF CacheInv, CacheSound, PassedBlocksStay
      <4> QED BY <3>0, <4>2, <1>1, <1>9, <1>10
    <3>2. CASE next_block <= x /\ x < RunStart
      <4>1. x \in DOMAIN blocks BY <3>2, <1>2, <1>3
      <4> QED BY <3>0, <4>1, <1>1, <1>9, <1>10
    <3>3. CASE RunStart <= x
      <4>1. x \in RunStart .. RunEnd BY <3>3, <1>2, <1>3
      <4> QED BY <4>1, <1>1, <1>2
    <3> QED BY <3>1, <3>2, <3>3, <1>2, <1>3
  <2>3. next_block' - 1 = RunEnd BY <1>0, <1>2
  <2>4. StartBlock' .. next_block' - 1 \subseteq DOMAIN blocks' BY <1>4, <2>2, <2>3
  <2> QED BY <2>1, <2>4 DEF PassedBlocksStay
<1>12. CallOK'
  <2>1. next_block' \in StartBlock' .. EndBlock' + 1 BY <1>0, <1>2, <1>3, <1>4
  <2>2. DOMAIN blocks' \cap (StartBlock .. EndBlock) \subseteq fetched_this_call'
    BY <1>0, <1>1, <1>5, <1>10 DEF kept
  <2>3. DOMAIN last_read' \cap fetched_this_call' \subseteq StartBlock .. EndBlock
    <3>1. DOMAIN last_read' \subseteq DOMAIN last_read BY <1>0, MakeRoomFacts
    <3>2. DOMAIN last_read \subseteq DOMAIN blocks BY DEF CacheInv, CacheSound, ReaderTyped
    <3>3. DOMAIN last_read \cap fetched_this_call \subseteq StartBlock .. EndBlock
      BY <1>0 DEF CacheInv, CallOK
    <3> QED BY <1>0, <1>2, <3>1, <3>2, <3>3
  <2> QED BY <1>0, <1>4, <2>1, <2>2, <2>3 DEF CacheInv, CallOK
<1>13. TicksAreReads' BY <1>0, MakeRoomFacts DEF TicksAreReads
<1> QED BY <1>6, <1>7, <1>8, <1>11, <1>12, <1>13 DEF CacheInv, CacheSound

LEMMA FetchFailsIInv ==
  ASSUME CacheInv, FetchFails
  PROVE  CacheInv'
<1> DEFINE kept == DOMAIN blocks \ Evicted
<1>0. /\ pc = "ensuring" /\ Missing # {} /\ MakeRoom
      /\ pc' = "idle" /\ result'.ok = FALSE
      /\ last_run_end_block' \in {NoRun, last_run_end_block}
      /\ UNCHANGED <<position, mode, touch_clock, seq_buffer, callVars>>
  BY DEF FetchFails
<1>1. DOMAIN blocks' = kept /\ \A b \in kept : blocks'[b] = blocks[b] BY DEF FetchFails, Keep
<1>2. ReaderTyped'
  <2>1. /\ DOMAIN last_touched' \subseteq DOMAIN blocks'
        /\ DOMAIN last_read' \subseteq DOMAIN last_touched'
        /\ \A b \in DOMAIN last_touched' : last_touched'[b] \in 1 .. touch_clock'
        /\ seq_streak' \in Nat
    BY <1>0, <1>1, MakeRoomFacts
  <2>2. mode = "cached" BY <1>0 DEF CacheInv, CallOK
  <2> QED BY <1>0, <1>1, <2>1, <2>2 DEF CacheInv, CacheSound, ReaderTyped
<1>3. BlocksHoldTheirBytes' BY <1>1 DEF CacheInv, CacheSound, BlocksHoldTheirBytes
<1>4. NoFalseEnd' /\ PassedBlocksStay' /\ CallOK' BY <1>0 DEF NoFalseEnd, PassedBlocksStay, CallOK
<1>5. TicksAreReads' BY <1>0, MakeRoomFacts DEF TicksAreReads
<1> QED BY <1>2, <1>3, <1>4, <1>5 DEF CacheInv, CacheSound

\* Where every block of the range is resident, the copy loop finds every
\* wanted byte, and no byte behind the end of the source.
LEMMA CopyFindsAll ==
  ASSUME CacheInv, pc = "ensuring", Missing = {}
  PROVE  /\ StartBlock .. EndBlock \subseteq DOMAIN blocks
         /\ Max({n \in 0 .. buf_len : \A k \in 0 .. n - 1 : Found(position + k)})
              = Want(buf_len)
<1>1. /\ position \in Nat /\ position < Size /\ buf_len \in Nat \ {0}
      /\ Size \in Nat /\ BlockSize \in Nat \ {0}
  BY JsReaderAssumption DEF CacheInv, CacheSound, ReaderTyped, CallOK
<1>2. /\ StartBlock \in Nat /\ EndBlock \in Nat /\ next_block \in Nat
      /\ StartBlock <= next_block
  BY CallRange, BlocksFinite
<1>3. StartBlock .. EndBlock \subseteq DOMAIN blocks
  <2> SUFFICES ASSUME NEW x \in StartBlock .. EndBlock PROVE x \in DOMAIN blocks OBVIOUS
  <2>1. CASE x < next_block
    <3>1. x \in StartBlock .. next_block - 1 BY <2>1, <1>2
    <3> QED BY <3>1 DEF CacheInv, CacheSound, PassedBlocksStay
  <2>2. CASE next_block <= x BY <2>2, <1>2 DEF Missing
  <2> QED BY <2>1, <2>2, <1>2
<1> DEFINE want == Want(buf_len)
<1>4. /\ want \in Nat /\ want >= 1 /\ want <= buf_len /\ position + want <= Size
      /\ want < buf_len => position + want = Size
  BY <1>1, RangeFacts
<1>5. EndBlock = (position + want - 1) \div BlockSize BY DEF EndBlock
<1> HIDE DEF want
<1>6. ASSUME NEW k \in 0 .. want - 1
      PROVE  Found(position + k)
  <2> DEFINE pos == position + k
             b == pos \div BlockSize
  <2>1. pos \in Nat /\ pos < Size /\ position <= pos /\ pos <= position + want - 1
        /\ position + want - 1 \in Nat
    BY <1>1, <1>4
  <2> HIDE DEF pos
  <2>2. b \in Blocks /\ b \in Nat /\ StartBlock <= b /\ b <= EndBlock
    <3>1. position \div BlockSize <= b BY <1>1, <2>1, DivMonotonic
    <3>2. b <= (position + want - 1) \div BlockSize BY <1>1, <2>1, DivMonotonic
    <3> QED BY <2>1, <3>1, <3>2, <1>5, PosInBlock DEF StartBlock
  <2>3. b \in DOMAIN blocks BY <1>2, <1>3, <2>2
  <2>4. blocks[b].len = Smaller(BlockSize, Size - b * BlockSize)
    BY <2>3 DEF CacheInv, CacheSound, BlocksHoldTheirBytes
  <2>5. pos = b * BlockSize + (pos % BlockSize) /\ pos % BlockSize \in 0 .. BlockSize - 1
    BY <1>1, <2>1, DivMod
  <2>6. b * BlockSize \in Nat BY <2>2, SlotBytes
  <2>7. pos % BlockSize < blocks[b].len
    <3> HIDE DEF b
    <3> QED BY <1>1, <2>1, <2>4, <2>5, <2>6 DEF Smaller
  <2> QED BY <2>1, <2>3, <2>7 DEF Found, pos
<1> DEFINE S == {n \in 0 .. buf_len : \A k \in 0 .. n - 1 : Found(position + k)}
<1>7. want \in S BY <1>1, <1>4, <1>6
<1>8. ASSUME NEW n \in S
      PROVE  n <= want
  <2> SUFFICES ASSUME want < n PROVE FALSE BY <1>4
  <2>1. want \in 0 .. n - 1 /\ n <= buf_len BY <1>1, <1>4
  <2>2. Found(position + want) BY <2>1
  <2>3. position + want < Size BY <2>2 DEF Found
  <2> QED BY <1>1, <1>4, <2>1, <2>3
<1>9. S \in SUBSET Int /\ S # {} BY <1>7
<1> HIDE DEF S
<1>10. Max(S) \in S /\ \A n \in S : n <= Max(S)
  <2>1. want \in Int BY <1>4
  <2> QED BY <1>8, <1>9, <2>1, IntMax
<1>11. Max(S) = want
  <2>1. Max(S) <= want /\ want <= Max(S) /\ Max(S) \in Int BY <1>7, <1>8, <1>9, <1>10
  <2> QED BY <1>4, <2>1
<1> QED BY <1>3, <1>11 DEF S, want

LEMMA CopyOutIInv ==
  ASSUME CacheInv, CopyOut
  PROVE  CacheInv'
<1> DEFINE range == StartBlock .. EndBlock
<1>0. /\ pc = "ensuring" /\ Missing = {}
      /\ touch_clock' = touch_clock + 1 /\ pc' = "idle"
      /\ UNCHANGED <<mode, blocks, last_run_end_block, seq_streak, seq_buffer>>
  BY DEF CopyOut, callVars
<1>1. /\ position' = position + Want(buf_len)
      /\ result' = [wanted |-> Want(buf_len), got |-> Want(buf_len), ok |-> TRUE]
  BY <1>0, CopyFindsAll DEF CopyOut
<1>2. /\ DOMAIN last_touched' = DOMAIN last_touched \cup fetched_this_call
      /\ \A b \in DOMAIN last_touched' :
           last_touched'[b] = IF b \in fetched_this_call THEN touch_clock + 1
                              ELSE last_touched[b]
  <2>1. last_touched' = [b \in DOMAIN last_touched \cup fetched_this_call |->
      IF b \in fetched_this_call THEN touch_clock + 1 ELSE Tick(b)]
    BY DEF CopyOut, Touched
  <2> QED BY <2>1 DEF Tick
<1>3. /\ DOMAIN last_read' = DOMAIN last_read \cup range
      /\ \A b \in DOMAIN last_read' :
           last_read'[b] = IF b \in range THEN touch_clock + 1 ELSE last_read[b]
  BY DEF CopyOut
<1>4. range \subseteq fetched_this_call /\ fetched_this_call \subseteq DOMAIN blocks
  BY <1>0, CopyFindsAll DEF CacheInv, CallOK, CacheSound, PassedBlocksStay
<1>5. /\ DOMAIN last_read \cap fetched_this_call \subseteq range
      /\ mode = "cached" /\ touch_clock < MaxTouches
  BY <1>0 DEF CacheInv, CallOK
<1>6. Want(buf_len) \in Nat /\ position \in Nat
  <2>1. position \in Nat /\ position < Size /\ buf_len \in Nat \ {0}
    BY <1>0 DEF CacheInv, CacheSound, ReaderTyped, CallOK
  <2> QED BY <2>1, RangeFacts
<1> HIDE DEF range
<1>7. ReaderTyped'
  <2>1. /\ touch_clock \in 0 .. MaxTouches
        /\ DOMAIN last_touched \subseteq DOMAIN blocks
        /\ DOMAIN last_read \subseteq DOMAIN last_touched
        /\ \A b \in DOMAIN last_touched : last_touched[b] \in 1 .. touch_clock
    BY DEF CacheInv, CacheSound, ReaderTyped
  <2>2. touch_clock' \in 0 .. MaxTouches BY <1>0, <1>5, <2>1, JsReaderAssumption
  <2>3. /\ DOMAIN last_touched' \subseteq DOMAIN blocks'
        /\ DOMAIN last_read' \subseteq DOMAIN last_touched'
    BY <1>0, <1>2, <1>3, <1>4, <2>1
  <2>4. \A b \in DOMAIN last_touched' : last_touched'[b] \in 1 .. touch_clock'
    <3> SUFFICES ASSUME NEW b \in DOMAIN last_touched'
        PROVE  last_touched'[b] \in 1 .. touch_clock + 1
      BY <1>0
    <3>1. CASE b \in fetched_this_call BY <3>1, <1>2, <2>1, JsReaderAssumption
    <3>2. CASE b \notin fetched_this_call
      <4>1. last_touched'[b] = last_touched[b] /\ last_touched[b] \in 1 .. touch_clock BY <3>2, <1>2, <2>1
      <4> QED BY <4>1, <2>1, JsReaderAssumption
    <3> QED BY <3>1, <3>2
  <2> QED BY <1>0, <1>1, <1>6, <2>2, <2>3, <2>4 DEF CacheInv, CacheSound, ReaderTyped
<1>8. BlocksHoldTheirBytes' BY <1>0 DEF CacheInv, CacheSound, BlocksHoldTheirBytes
<1>9. NoFalseEnd' /\ PassedBlocksStay' /\ CallOK'
  BY <1>0, <1>1, <1>5 DEF NoFalseEnd, PassedBlocksStay, CallOK
<1>10. TicksAreReads'
  <2> SUFFICES ASSUME NEW b \in DOMAIN last_read'
      PROVE  last_read'[b] = last_touched'[b]
    BY DEF TicksAreReads
  <2>1. DOMAIN last_read \subseteq DOMAIN last_touched BY DEF CacheInv, CacheSound, ReaderTyped
  <2>2. CASE b \in range BY <2>2, <1>2, <1>3, <1>4
  <2>3. CASE b \notin range
    <3>1. b \in DOMAIN last_read /\ b \notin fetched_this_call BY <2>3, <1>3, <1>5
    <3>2. last_read[b] = last_touched[b] BY <3>1 DEF CacheInv, TicksAreReads
    <3> QED BY <2>1, <2>3, <3>1, <3>2, <1>2, <1>3
  <2> QED BY <2>2, <2>3
<1> QED BY <1>7, <1>8, <1>9, <1>10 DEF CacheInv, CacheSound

LEMMA ReaderNextInv == CacheInv /\ [ReaderNext]_readerVars => CacheInv'
<1> SUFFICES ASSUME CacheInv, [ReaderNext]_readerVars PROVE CacheInv' OBVIOUS
<1>1. ASSUME NEW pos \in 0 .. Size + 1, SeekTo(pos) PROVE CacheInv' BY <1>1, SeekToIInv
<1>2. ASSUME NEW enabled \in BOOLEAN, SetSequentialMode(enabled) PROVE CacheInv'
  BY <1>2, SetSequentialModeIInv
<1>3. ASSUME NEW len \in Lengths, ReadCached(len) PROVE CacheInv' BY <1>3, ReadCachedIInv
<1>4. ASSUME NEW len \in Lengths, ReadSequential(len) PROVE CacheInv' BY <1>4, ReadSequentialIInv
<1>5. ASSUME NEW len \in Lengths, FillFails(len) PROVE CacheInv' BY <1>5, FillFailsIInv
<1>6. CASE ReadAtEnd BY <1>6, ReadAtEndIInv
<1>7. CASE FetchRun BY <1>7, FetchRunIInv
<1>8. CASE FetchFails BY <1>8, FetchFailsIInv
<1>9. CASE CopyOut BY <1>9, CopyOutIInv
<1>10. CASE UNCHANGED readerVars
  <2> USE <1>10 DEF readerVars, cacheVars, callVars
  <2>1. ReaderTyped' BY DEF CacheInv, CacheSound, ReaderTyped
  <2>2. BlocksHoldTheirBytes' /\ NoFalseEnd' BY DEF CacheInv, CacheSound, BlocksHoldTheirBytes, NoFalseEnd
  <2>3. StartBlock' = StartBlock /\ EndBlock' = EndBlock BY DEF StartBlock, EndBlock, Want
  <2>4. PassedBlocksStay' /\ CallOK' BY <2>3 DEF CacheInv, CacheSound, PassedBlocksStay, CallOK
  <2>5. TicksAreReads' BY DEF CacheInv, TicksAreReads
  <2> QED BY <2>1, <2>2, <2>4, <2>5 DEF CacheInv, CacheSound
<1> QED BY <1>1, <1>2, <1>3, <1>4, <1>5, <1>6, <1>7, <1>8, <1>9, <1>10 DEF ReaderNext

\* Every reachable state of the reader satisfies the inductive invariant.
THEOREM CacheInvariant == ReaderSpec => []CacheInv
<1> QED BY ReaderInitInv, ReaderNextInv, PTL DEF ReaderSpec

-----------------------------------------------------------------------------
(* The theorems                                                              *)

\* Whatever seeks, mode switches, reads, fetches and failures came before, a
\* resident block holds exactly its bytes of the source, a successful read
\* is short only at the end of the source, and a running call keeps the
\* blocks it has passed.
THEOREM Sound == ReaderSpec => []CacheSound
<1>1. CacheInv => CacheSound BY DEF CacheInv
<1> QED BY CacheInvariant, <1>1, PTL

\* Blocks come in by a fetch only.
LEMMA OnlyFetchBringsIn ==
  ASSUME CacheInv, [ReaderNext]_readerVars, DOMAIN blocks' \ DOMAIN blocks # {}
  PROVE  FetchRun
<1>1. ASSUME NEW pos \in 0 .. Size + 1, SeekTo(pos) PROVE FALSE BY <1>1 DEF SeekTo, cacheVars
<1>2. ASSUME NEW enabled \in BOOLEAN, SetSequentialMode(enabled) PROVE FALSE
  BY <1>2 DEF SetSequentialMode, Keep
<1>3. ASSUME NEW len \in Lengths, ReadCached(len) \/ ReadSequential(len) \/ FillFails(len)
      PROVE  FALSE
  BY <1>3 DEF ReadCached, ReadSequential, FillFails, cacheVars
<1>4. CASE ReadAtEnd BY <1>4 DEF ReadAtEnd, cacheVars
<1>5. CASE FetchFails BY <1>5 DEF FetchFails, Keep
<1>6. CASE CopyOut BY <1>6 DEF CopyOut
<1>7. CASE UNCHANGED readerVars BY <1>7 DEF readerVars, cacheVars
<1> QED BY <1>1, <1>2, <1>3, <1>4, <1>5, <1>6, <1>7 DEF ReaderNext

\* Whatever the cap, the range of a call and the prefetch, a fetch leaves
\* more blocks than the cap only if every one of them belongs to the call.
THEOREM CapRespected == ReaderSpec => FetchesRespectCap
<1>1. CacheInv /\ [ReaderNext]_readerVars =>
        (DOMAIN blocks' \ DOMAIN blocks # {} =>
           \/ Cardinality(DOMAIN blocks') <= MaxResidentBlocks
           \/ DOMAIN blocks' \subseteq fetched_this_call')
  <2> SUFFICES ASSUME CacheInv, [ReaderNext]_readerVars, DOMAIN blocks' \ DOMAIN blocks # {}
      PROVE  \/ Cardinality(DOMAIN blocks') <= MaxResidentBlocks
             \/ DOMAIN blocks' \subseteq fetched_this_call'
    OBVIOUS
  <2>1. FetchRun BY OnlyFetchBringsIn
  <2>2. /\ pc = "ensuring" /\ Missing # {}
        /\ DOMAIN blocks' = (DOMAIN blocks \ Evicted) \cup Incoming
        /\ fetched_this_call' = fetched_this_call \cup Incoming
    BY <2>1 DEF FetchRun
  <2> QED BY <2>2, RoomMade
<1> QED BY CacheInvariant, <1>1, PTL DEF ReaderSpec, FetchesRespectCap

\* A block that was read goes only when the call makes room.
LEMMA OnlyMakingRoomTakes ==
  ASSUME CacheInv, [ReaderNext]_readerVars, pc = "ensuring", NEW b \in DOMAIN last_read \ DOMAIN blocks'
  PROVE  /\ Missing # {} /\ b \in Evicted
         /\ DOMAIN blocks' \subseteq (DOMAIN blocks \ Evicted) \cup Incoming
<1>0. b \in DOMAIN blocks BY DEF CacheInv, CacheSound, ReaderTyped
<1>1. CASE FetchRun
  <2>1. Missing # {} /\ DOMAIN blocks' = (DOMAIN blocks \ Evicted) \cup Incoming BY <1>1 DEF FetchRun
  <2> QED BY <1>0, <2>1
<1>2. CASE FetchFails
  <2>1. Missing # {} /\ DOMAIN blocks' = DOMAIN blocks \ Evicted BY <1>2 DEF FetchFails, Keep
  <2> QED BY <1>0, <2>1
<1>3. CASE CopyOut BY <1>0, <1>3 DEF CopyOut
<1>4. CASE UNCHANGED readerVars BY <1>0, <1>4 DEF readerVars, cacheVars
<1>5. ~ReadAtEnd /\ \A pos \in 0 .. Size + 1 : ~SeekTo(pos) BY DEF ReadAtEnd, SeekTo
<1>6. \A enabled \in BOOLEAN : ~SetSequentialMode(enabled) BY DEF SetSequentialMode
<1>7. \A len \in Lengths : ~ReadCached(len) /\ ~ReadSequential(len) /\ ~FillFails(len)
  BY DEF ReadCached, ReadSequential, FillFails
<1> QED BY <1>1, <1>2, <1>3, <1>4, <1>5, <1>6, <1>7 DEF ReaderNext

\* Whatever the reads, failures and prefetches before it, no eviction takes a
\* block that callers read later than one that stays unshielded.
THEOREM EvictionByReads == ReaderSpec => HotBlocksStay
<1>1. CacheInv /\ [ReaderNext]_readerVars =>
        (pc = "ensuring" => \A b \in DOMAIN last_read \ DOMAIN blocks' :
             \A c \in (DOMAIN last_read \cap DOMAIN blocks') \ fetched_this_call :
               last_read[b] <= last_read[c])
  <2> SUFFICES ASSUME CacheInv, [ReaderNext]_readerVars, pc = "ensuring",
             NEW b \in DOMAIN last_read \ DOMAIN blocks',
             NEW c \in (DOMAIN last_read \cap DOMAIN blocks') \ fetched_this_call
      PROVE  last_read[b] <= last_read[c]
    OBVIOUS
  <2>1. /\ Missing # {} /\ b \in Evicted
        /\ DOMAIN blocks' \subseteq (DOMAIN blocks \ Evicted) \cup Incoming
    BY OnlyMakingRoomTakes
  <2>2. /\ DOMAIN last_touched \subseteq DOMAIN blocks
        /\ DOMAIN last_read \subseteq DOMAIN last_touched
    BY DEF CacheInv, CacheSound, ReaderTyped
  <2>3. Incoming \subseteq Blocks \ DOMAIN blocks BY <2>1, RunFacts
  <2>4. c \in Candidates \ Evicted BY <2>1, <2>2, <2>3 DEF Candidates
  <2>5. Tick(b) <= Tick(c) BY <2>1, <2>4, EvictsColdest
  <2>6. last_read[b] = Tick(b) /\ last_read[c] = Tick(c) BY <2>2 DEF CacheInv, TicksAreReads, Tick
  <2> QED BY <2>5, <2>6
<1> QED BY CacheInvariant, <1>1, PTL DEF ReaderSpec, HotBlocksStay
=============================================================================
