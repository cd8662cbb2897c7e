------------------------------- MODULE Xdvdfs -------------------------------
(***************************************************************************)
(* Reading an XDVDFS image (src/crate/src/core/iso): where the volume      *)
(* begins, and the walk over its directory tables that makes one flat list *)
(* of entries.                                                             *)
(*                                                                         *)
(* An image is a record: length, the bytes there are; magics, the known    *)
(* offsets at which a volume descriptor stands; root, the region of the    *)
(* root table; tables, the nodes of each directory table by its sector.    *)
(* The library that decodes one table (scan_dirent_tree) is external: it   *)
(* fails where no table lies in the image.                                 *)
(***************************************************************************)
EXTENDS Integers, SequencesExt, FiniteSetsExt

CONSTANTS
  SectorSize,         \* SECTOR_SIZE
  DescriptorEnd,      \* where the magic of a volume descriptor ends
  RootOffset          \* type |-> root_offset()

ASSUME XdvdfsAssumption ==
  /\ {SectorSize, DescriptorEnd} \subseteq Nat \ {0}
  /\ DOMAIN RootOffset = {"Xsf", "Xgd1", "Xgd2", "Xgd3"}
  /\ \A type \in DOMAIN RootOffset : RootOffset[type] \in Nat

\* An image as a reader may meet it: finitely many tables, and in none of
\* them a name twice, since a table is a search tree.
TableNode == [name : STRING, is_directory : BOOLEAN, sector : Nat, size : Nat]

IsImage(image) ==
  /\ {"magics", "length", "root", "tables"} \subseteq DOMAIN image
  /\ image.magics \subseteq DOMAIN RootOffset
  /\ image.length \in Nat
  /\ image.root \in [sector : Nat, size : Nat]
  /\ IsFiniteSet(DOMAIN image.tables)
  /\ \A sector \in DOMAIN image.tables :
       LET table == image.tables[sector] IN
       /\ table \in Seq(TableNode)
       /\ \A i, j \in DOMAIN table : table[i].name = table[j].name => i = j

NoType == "none"

\* check(): the magic is there; an image too short for it has none.
HasVolume(image, type) ==
  type \in image.magics /\ RootOffset[type] + DescriptorEnd <= image.length

ProbeOrder == <<"Xsf", "Xgd2", "Xgd1", "Xgd3">>

\* IsoType::read()
IsoType(image) ==
  LET at == SelectInSeq(ProbeOrder, LAMBDA type : HasVolume(image, type))
  IN IF at = 0 THEN NoType ELSE ProbeOrder[at]

-----------------------------------------------------------------------------
(* DirectoryTable::read_root()                                               *)

RegionReadable(image, region) ==
  /\ region.sector \in DOMAIN image.tables
  /\ RootOffset[IsoType(image)] + region.sector * SectorSize + region.size <= image.length

DirectoryEntry(parent, node) ==
  [path |-> Append(parent, node.name), is_directory |-> node.is_directory,
   sector |-> node.sector, size |-> node.size]

\* One node of a table: a directory is descended into unless it is empty or
\* its sector has been visited.
VisitNode(walk, parent, node) ==
  LET descend == node.is_directory /\ node.size # 0 /\ node.sector \notin walk.visited
      region == [path |-> Append(parent, node.name), sector |-> node.sector, size |-> node.size]
  IN [walk EXCEPT !.entries = Append(@, DirectoryEntry(parent, node)),
                  !.stack = IF descend THEN Append(@, region) ELSE @,
                  !.visited = IF descend THEN @ \cup {node.sector} ELSE @]

\* The nodes of a table, one after the other.
VisitNodes(walk, parent, nodes) ==
  FoldLeft(LAMBDA w, node : LET visited == w IN VisitNode(visited, parent, node), walk, nodes)

\* The table on top of the stack.
VisitTable(image, walk) ==
  LET region == Last(walk.stack)
      popped == [walk EXCEPT !.stack = Front(@)]
  IN IF ~RegionReadable(image, region) THEN [walk EXCEPT !.ok = FALSE]
     ELSE VisitNodes(popped, region.path, image.tables[region.sector])

\* As many tables as there are, and one more that cannot be read.
VisitTables(image, walk, n) ==
  FoldLeft(LAMBDA w, i : LET visited == w
                         IN IF visited.ok /\ visited.stack # <<>> THEN VisitTable(image, visited)
                            ELSE visited,
           walk, [i \in 1 .. n |-> i])

\* The entries of the whole tree, or ok = FALSE where the walk fails; every
\* table is visited at most once.
ReadRoot(image) ==
  LET root == [path |-> <<>>, sector |-> image.root.sector, size |-> image.root.size]
      start == [entries |-> <<>>, stack |-> <<root>>, visited |-> {root.sector}, ok |-> TRUE]
  IN IF root.size = 0 THEN [start EXCEPT !.stack = <<>>]
     ELSE VisitTables(image, start, Cardinality(DOMAIN image.tables) + 1)

ProbedBy(image, walk) ==
  [recognised |-> IsoType(image) # NoType,
   root |-> image.root,
   entries |-> IF walk.ok THEN walk.entries ELSE <<>>,
   tree_fully_walked |-> walk.ok]

\* probe_staged(): a walk that fails leaves no entries, but the root.
ProbeStaged(image) == ProbedBy(image, ReadRoot(image))

\* max_used_prefix_size()
MaxUsedPrefixSize(probed) ==
  Max({probed.root.sector * SectorSize + probed.root.size} \cup
      {e.sector * SectorSize + e.size : e \in Range(probed.entries)})
=============================================================================
