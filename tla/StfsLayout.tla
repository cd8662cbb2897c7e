----------------------------- MODULE StfsLayout -----------------------------
(***************************************************************************)
(* StfsLayout (src/crate/src/formats/stfs/write.rs) and the address        *)
(* arithmetic that StfsReader (read.rs) repeats: which entries and blocks  *)
(* a package gets, and at which physical block each data block and each    *)
(* hash table is.                                                          *)
(*                                                                         *)
(* A table lists EntriesPerTable blocks, a level-1 table that many level-0 *)
(* tables, a level-2 table that many level-1 tables.  Every table takes    *)
(* Copies physical blocks.  Block and entry numbers count from 0, as in    *)
(* the code.                                                               *)
(***************************************************************************)
EXTENDS Integers, SequencesExt

CONSTANTS
  EntriesPerTable,        \* 0xAA
  EntriesPerBlock,        \* FILE_ENTRIES_PER_BLOCK
  BlockSize,              \* BLOCK_SIZE
  SexShift,               \* sex_shift: 1 for DEFAULT_BLOCK_SEPARATION
  DefaultHeader,          \* blocks of a header
  InstallerHeader         \* blocks of a header with an installer trailer

ASSUME LayoutAssumption ==
  /\ {EntriesPerTable, EntriesPerBlock, BlockSize, DefaultHeader,
      InstallerHeader} \subseteq Nat \ {0}
  /\ EntriesPerTable > 1
  /\ SexShift \in {0, 1}

CeilDiv(a, b) == (a + b - 1) \div b
Total(numbers) == FoldLeft(+, 0, numbers)

PerLevel1 == EntriesPerTable * EntriesPerTable              \* 0x70E4
PerLevel2 == EntriesPerTable * PerLevel1                    \* 0x4AF768
Copies == IF SexShift = 1 THEN 2 ELSE 1                     \* 1 << sex_shift

EndOfChain == 16777215
RootEntryIndex == -1

-----------------------------------------------------------------------------
(* Entries.  A file is a path, a sequence of names, and a size.              *)

EntryBlockCount(size) == IF size = 0 THEN 1 ELSE CeilDiv(size, BlockSize)

\* Every directory on the way to a file, and the file.
NodesTo(files, f) ==
  [i \in 1 .. Len(files[f].path) |->
    [path |-> SubSeq(files[f].path, 1, i),
     is_directory |-> i < Len(files[f].path),
     source_file_index |-> f,
     file_size |-> IF i < Len(files[f].path) THEN 0 ELSE files[f].size]]

\* build_tree: a path that was met before is not added again.
AddNode(nodes, node) ==
  IF \E n \in DOMAIN nodes : nodes[n].path = node.path THEN nodes ELSE Append(nodes, node)

AddNodes(nodes, way) == FoldLeft(AddNode, nodes, way)

BuildTree(files) ==
  FoldLeft(AddNodes, <<>>, [f \in DOMAIN files |-> NodesTo(files, f)])

ParentIndex(nodes, node) ==
  IF Len(node.path) = 1 THEN RootEntryIndex
  ELSE (CHOOSE n \in DOMAIN nodes : nodes[n].path = Front(node.path)) - 1

NodeBlocks(node) ==
  IF node.is_directory THEN 0 ELSE EntryBlockCount(node.file_size)

\* assign_layout: blocks behind the file table, file after file.
FirstFreeBlock(nodes, n, table_blocks) ==
  table_blocks + Total([i \in 1 .. n - 1 |-> NodeBlocks(nodes[i])])

PlannedEntries(nodes, table_blocks) ==
  [n \in DOMAIN nodes |->
    [name |-> Last(nodes[n].path),
     is_directory |-> nodes[n].is_directory,
     parent_index |-> ParentIndex(nodes, nodes[n]),
     starting_block_num |->
       IF nodes[n].is_directory THEN 0 ELSE FirstFreeBlock(nodes, n, table_blocks),
     file_size |-> nodes[n].file_size,
     source_file_index |->
       IF nodes[n].is_directory THEN 0 ELSE nodes[n].source_file_index]]

\* What plan() and open() decide from allocated_block_count alone.
TopLevel(total_blocks) ==
  CASE total_blocks <= EntriesPerTable -> 0
    [] total_blocks > EntriesPerTable /\ total_blocks <= PerLevel1 -> 1
    [] OTHER -> 2

Plan(files, has_installer) ==
  LET nodes == BuildTree(files)
      table_blocks == Max({CeilDiv(Len(nodes), EntriesPerBlock), 1})
      total_blocks == FirstFreeBlock(nodes, Len(nodes) + 1, table_blocks)
  IN [entries |-> PlannedEntries(nodes, table_blocks),
      file_table_block_count |-> table_blocks,
      total_blocks |-> total_blocks,
      top_level |-> TopLevel(total_blocks),
      header_blocks |-> IF has_installer THEN InstallerHeader ELSE DefaultHeader]

\* The ensure! and bail! of plan() and build_tree().
Plannable(files) ==
  /\ files # <<>>
  /\ \A f \in DOMAIN files : files[f].path # <<>>
  /\ Plan(files, FALSE).total_blocks <= PerLevel2

-----------------------------------------------------------------------------
(* Addresses, in physical blocks behind the header.                          *)

BackingDataBlock(b) ==
  LET base == ((b + EntriesPerTable) \div EntriesPerTable) * Copies + b
      level1 == ((b + PerLevel1) \div PerLevel1) * Copies
  IN CASE b < EntriesPerTable -> base
       [] b >= EntriesPerTable /\ b < PerLevel1 -> base + level1
       [] OTHER -> Copies + base + level1

\* Distance of tables: 0xAB and 0x718F, or 0xAC and 0x723A.
BlockStep0 == EntriesPerTable + Copies
BlockStep1 == PerLevel1 + EntriesPerTable * Copies + Copies

\* Only the reader computes where a level-0 table is; the writer walks.
BackingLevel0(b) ==
  IF b < EntriesPerTable THEN 0
  ELSE (b \div EntriesPerTable) * BlockStep0
         + (b \div PerLevel1 + 1) * Copies
         + (IF b \div PerLevel1 = 0 THEN 0 ELSE Copies)

\* Faulty: the table of every group where the first one's is.
BackingLevel1OfFirst(b) == BlockStep0

BackingLevel1(b) ==
  IF b < PerLevel1 THEN BlockStep0
  ELSE Copies + (b \div PerLevel1) * BlockStep1

BackingLevel2 == BlockStep1

\* Faulty: the number of the last block in place of the number of blocks.
LastPhysicalBlock(layout) == BackingDataBlock(layout.total_blocks - 1)

TotalPhysicalBlocks(layout) == BackingDataBlock(layout.total_blocks - 1) + 1

TotalOutputSize(layout) ==
  (layout.header_blocks + TotalPhysicalBlocks(layout)) * BlockSize

-----------------------------------------------------------------------------
(* Who owns a block, and what follows it.                                    *)

Owns(entry, b) ==
  /\ ~entry.is_directory
  /\ b >= entry.starting_block_num
  /\ b < entry.starting_block_num + EntryBlockCount(entry.file_size)

EntryForDataBlock(layout, b) ==
  CHOOSE n \in DOMAIN layout.entries : Owns(layout.entries[n], b)

IsLastBlockOfChain(layout, b) ==
  \/ b + 1 = layout.file_table_block_count
  \/ /\ b >= layout.file_table_block_count
     /\ LET e == layout.entries[EntryForDataBlock(layout, b)]
        IN b = e.starting_block_num + EntryBlockCount(e.file_size) - 1

NextBlock(layout, b) ==
  IF IsLastBlockOfChain(layout, b) THEN EndOfChain ELSE b + 1
=============================================================================
