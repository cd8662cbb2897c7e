----------------------------- MODULE StfsWriter -----------------------------
(***************************************************************************)
(* StfsWriteSession and HashTreeBuilder (src/crate/src/formats/stfs/       *)
(* write.rs, hash_tree.rs): a package of files, signed or not, handed over *)
(* as one stream of blocks.  A signed package needs the digest of its top  *)
(* hash table in the header, so hash_next_block() first goes through all   *)
(* data blocks; next_chunk() then goes through the physical blocks.        *)
(*                                                                         *)
(* Every call handles one block and is one step.  open() is Init.  The     *)
(* driver, which hashes, then asks for chunks and appends them, and gives  *)
(* up after MaxFailures throws, is part of the model.                      *)
(***************************************************************************)
EXTENDS StfsLayout

CONSTANTS
  Names,
  StoredName,      \* what the slot of an entry keeps of a name: NAME_LEN_OFFSET bytes
  Listings,        \* file lists of a source, some of which cannot be planned
  MaxFailures      \* throws after which a driver gives up

ASSUME StfsAssumption ==
  /\ MaxFailures \in Nat \ {0}
  /\ StoredName \in [Names -> Names]
  /\ Listings \subseteq Seq([path : Seq(Names), size : Nat])

VARIABLES
  files,              \* the source's files
  layout,             \* the fields of StfsWriteSession
  signed,             \* whether there is a signing_key
  phase,
  physical_cursor,
  block_num,
  level0_tables,      \* of the hasher, while there is one
  hash_tree,
  next_hash_block,
  hashing_done,
  pc,                 \* driver: which call comes next
  failures,           \* driver: throws so far
  emitted,            \* driver: the blocks received
  spoiled_at          \* driver: blocks received before next_chunk() threw

hashVars == <<level0_tables, hash_tree, next_hash_block, hashing_done>>
streamVars == <<phase, physical_cursor, block_num>>
openVars == <<files, layout, signed>>
writerVars == <<openVars, hashVars, streamVars, pc, failures, emitted, spoiled_at>>

Whole == -1      \* no next_chunk() has thrown

-----------------------------------------------------------------------------
(* Hash tables.  A digest is what it is made of, so that two are equal only  *)
(* for equal blocks.                                                         *)

NoDigest == <<>>
Digest(block) == <<block>>

Record(hash, status, next_block) ==
  [hash |-> hash, status |-> status, next_block |-> next_block]

Locals == 0 .. EntriesPerTable - 1

Table(records, blocks_hashed) ==
  [kind |-> "table", records |-> records, blocks_hashed |-> blocks_hashed]

BlankTable == Table([i \in Locals |-> Record(NoDigest, 0, 0)], 0)

\* HashTreeBuilder::new
NewTables(total_blocks) ==
  [t \in 0 .. CeilDiv(total_blocks, EntriesPerTable) - 1 |-> BlankTable]

\* hash_block: the builder's own next_block goes with next_hash_block.
HashBlock(tables, b, content, next_block) ==
  [tables EXCEPT ![b \div EntriesPerTable].records[b % EntriesPerTable] =
     Record(Digest(content), 128, next_block)]

\* Tables first .. first + n - 1, rolled up.
RollUp(tables, first, n, blocks_hashed) ==
  Table([i \in Locals |-> IF i < n THEN Record(Digest(tables[first + i]), 128, 0)
                          ELSE Record(NoDigest, 0, 0)],
        blocks_hashed)

BlocksInLevel0Table(t, count, total_blocks) ==
  IF t + 1 < count \/ total_blocks % EntriesPerTable = 0 THEN EntriesPerTable
  ELSE total_blocks % EntriesPerTable

Level1(level0, total_blocks) ==
  LET count == Cardinality(DOMAIN level0) IN
  [j \in 0 .. CeilDiv(count, EntriesPerTable) - 1 |->
     LET first == j * EntriesPerTable
         n == Min({EntriesPerTable, count - first})
     IN RollUp(level0, first, n,
          Total([i \in 1 .. n |-> BlocksInLevel0Table(first + i - 1, count, total_blocks)]))]

Tree(level0, level1, top) ==
  [level0 |-> level0, level1 |-> level1, top |-> top, top_hash |-> Digest(top)]

NoTree == [level0 |-> <<>>, level1 |-> <<>>, top |-> BlankTable, top_hash |-> NoDigest]

\* HashTreeBuilder::finish
Finish(top_level, total_blocks, level0) ==
  LET RollUpAll(tables) ==
        RollUp(tables, 0, Cardinality(DOMAIN tables), total_blocks)
  IN CASE top_level = 0 -> Tree(<<>>, <<>>, level0[0])
       [] top_level = 1 -> Tree(level0, <<>>, RollUpAll(level0))
       [] top_level = 2 -> LET level1 == Level1(level0, total_blocks)
                           IN Tree(level0, level1, RollUpAll(level1))

-----------------------------------------------------------------------------
(* Contents of blocks                                                        *)

Pad == <<0, 0>>

\* Bytes of a block that come from the source.
ToRead(e, b) ==
  Min({e.file_size - (b - e.starting_block_num) * BlockSize, BlockSize})

\* fill_data_block_scratch: a byte is <<file, offset in it>>.
DataBlock(b) ==
  LET e == layout.entries[EntryForDataBlock(layout, b)]
      offset == (b - e.starting_block_num) * BlockSize
  IN [kind |-> "data",
      bytes |-> [i \in 1 .. BlockSize |->
                   IF i <= ToRead(e, b) THEN <<e.source_file_index, offset + i - 1>>
                   ELSE Pad]]

\* Two names that begin alike may be stored alike.
Slot(entry) ==
  [name |-> StoredName[entry.name], is_directory |-> entry.is_directory,
   path_indicator |-> entry.parent_index,
   starting_block_num |-> entry.starting_block_num,
   file_size |-> entry.file_size]

\* fill_file_table_block_scratch
FileTableBlock(t) ==
  LET start == t * EntriesPerBlock
      end == Min({start + EntriesPerBlock, Len(layout.entries)})
  IN [kind |-> "listing",
      slots |-> [i \in 1 .. end - start |-> Slot(layout.entries[start + i])]]

InFileTable(b) == b < layout.file_table_block_count

Content(b) == IF InFileTable(b) THEN FileTableBlock(b) ELSE DataBlock(b)

\* Only a block with bytes of a file makes a call to JavaScript.
ReadsSource(b) ==
  /\ ~InFileTable(b)
  /\ ToRead(layout.entries[EntryForDataBlock(layout, b)], b) > 0

\* build_header, padded to whole blocks.
Header ==
  <<[kind |-> "header",
     header_blocks |-> layout.header_blocks,
     file_table_block_count |-> layout.file_table_block_count,
     file_table_block_num |-> 0,
     allocated_block_count |-> layout.total_blocks,
     top_hash_table_hash |-> hash_tree.top_hash]>>
  \o [i \in 1 .. layout.header_blocks - 1 |-> [kind |-> "padding"]]

\* emit_hash_level0: without a tree, the links alone.
Level0Table(b) ==
  LET group == b \div EntriesPerTable
      start == group * EntriesPerTable
  IN IF hash_tree # NoTree
     THEN IF layout.top_level = 0 THEN hash_tree.top ELSE hash_tree.level0[group]
     ELSE Table([i \in Locals |->
                   IF start + i < layout.total_blocks
                   THEN Record(NoDigest, 128, NextBlock(layout, start + i))
                   ELSE Record(NoDigest, 0, 0)], 0)

\* emit_hash_upper_level
UpperTable(at_top, b) ==
  IF hash_tree = NoTree THEN BlankTable
  ELSE IF at_top THEN hash_tree.top
  ELSE hash_tree.level1[b \div PerLevel1]

-----------------------------------------------------------------------------
(* hash_next_block()                                                         *)

HashNextBlock ==
  /\ pc = "hashing"
  /\ ~hashing_done
  /\ LET tables == HashBlock(level0_tables, next_hash_block,
                     Content(next_hash_block), NextBlock(layout, next_hash_block))
         all == next_hash_block + 1 = layout.total_blocks
     IN /\ level0_tables' = IF all THEN <<>> ELSE tables
        /\ hash_tree' = IF all
                        THEN Finish(layout.top_level, layout.total_blocks, tables)
                        ELSE hash_tree
        /\ hashing_done' = all
        /\ pc' = IF all THEN "streaming" ELSE pc
  /\ next_hash_block' = next_hash_block + 1
  /\ UNCHANGED <<openVars, streamVars, failures, emitted, spoiled_at>>

\* Without a key there is nothing to hash.
NothingToHash ==
  /\ pc = "hashing"
  /\ hashing_done
  /\ pc' = "streaming"
  /\ UNCHANGED <<openVars, hashVars, streamVars, failures, emitted, spoiled_at>>

Throw ==
  /\ failures < MaxFailures
  /\ failures' = failures + 1
  /\ pc' = IF failures' = MaxFailures THEN "failed" ELSE pc

\* JavaScript throws while a block is read: the same block is next.
HashingFails ==
  /\ pc = "hashing"
  /\ ~hashing_done
  /\ ReadsSource(next_hash_block)
  /\ Throw
  /\ UNCHANGED <<openVars, hashVars, streamVars, emitted, spoiled_at>>

-----------------------------------------------------------------------------
(* next_chunk()                                                              *)

Append1(block) == emitted' = Append(emitted, block)

Spoil ==
  /\ Throw
  /\ spoiled_at' = IF spoiled_at = Whole THEN Len(emitted) ELSE spoiled_at
  /\ UNCHANGED <<openVars, hashVars, emitted>>

EmitHeader ==
  /\ pc = "streaming"
  /\ phase = "Header"
  /\ phase' = "Body"
  /\ emitted' = emitted \o Header
  /\ UNCHANGED <<openVars, hashVars, physical_cursor, block_num, pc, failures,
                 spoiled_at>>

\* Signing fails, when the phase has been changed already.
HeaderFails ==
  /\ pc = "streaming"
  /\ phase = "Header"
  /\ signed
  /\ phase' = "Body"
  /\ Spoil
  /\ UNCHANGED <<physical_cursor, block_num>>

\* step_physical_block
InBody == pc = "streaming" /\ phase = "Body"
BlocksLeft == block_num < layout.total_blocks
AtData == physical_cursor >= BackingDataBlock(block_num)
AtLevel1 == layout.top_level # 0 /\ physical_cursor = BackingLevel1(block_num)
AtLevel2 == layout.top_level = 2 /\ physical_cursor = BackingLevel2

StepOver(blocks) ==
  /\ physical_cursor' = physical_cursor + 1
  /\ block_num' = block_num + blocks
  /\ UNCHANGED phase

EmitUpperTable ==
  /\ InBody /\ BlocksLeft /\ ~AtData
  /\ AtLevel1 \/ AtLevel2
  /\ Append1(UpperTable(AtLevel2 \/ layout.top_level = 1, block_num))
  /\ StepOver(0)
  /\ UNCHANGED <<openVars, hashVars, pc, failures, spoiled_at>>

\* Every other block before the next data block, second copies included.
EmitLevel0Table ==
  /\ InBody /\ BlocksLeft /\ ~AtData
  /\ ~AtLevel1 /\ ~AtLevel2
  /\ Append1(Level0Table(block_num))
  /\ StepOver(0)
  /\ UNCHANGED <<openVars, hashVars, pc, failures, spoiled_at>>

EmitData ==
  /\ InBody /\ BlocksLeft /\ AtData
  /\ Append1(Content(block_num))
  /\ StepOver(1)
  /\ UNCHANGED <<openVars, hashVars, pc, failures, spoiled_at>>

\* Faulty: the cursors stay where they are, so that a repeated call makes up.
StreamingFailsInPlace ==
  /\ InBody /\ BlocksLeft /\ AtData
  /\ ReadsSource(block_num)
  /\ Spoil
  /\ UNCHANGED streamVars

\* JavaScript throws while a block is read, when the cursors are past it.
StreamingFails ==
  /\ InBody /\ BlocksLeft /\ AtData
  /\ ReadsSource(block_num)
  /\ Spoil
  /\ StepOver(1)

\* The call that finds nothing left returns null.
Exhausted ==
  /\ InBody /\ ~BlocksLeft
  /\ phase' = "Done"
  /\ UNCHANGED <<openVars, hashVars, physical_cursor, block_num, pc, failures,
                 emitted, spoiled_at>>

WriterInit ==
  /\ files \in {l \in Listings : Plannable(l)}
  /\ \E has_installer \in BOOLEAN : layout = Plan(files, has_installer)
  /\ signed \in BOOLEAN
  /\ phase = "Header"
  /\ physical_cursor = 0
  /\ block_num = 0
  /\ level0_tables = IF signed THEN NewTables(layout.total_blocks) ELSE <<>>
  /\ hash_tree = NoTree
  /\ next_hash_block = 0
  /\ hashing_done = ~signed
  /\ pc = "hashing"
  /\ failures = 0
  /\ emitted = <<>>
  /\ spoiled_at = Whole

WriterCall ==
  \/ HashNextBlock \/ NothingToHash
  \/ EmitHeader \/ EmitUpperTable \/ EmitLevel0Table \/ EmitData
  \/ Exhausted

WriterFails == HashingFails \/ HeaderFails \/ StreamingFails

-----------------------------------------------------------------------------
(* Properties                                                                *)

\* The cursors stay within the plan, there is a hasher exactly while there
\* is something to hash, and a tree exactly when a signed session has hashed.
WriterTypeOK ==
  /\ files \in Listings
  /\ layout.top_level \in 0 .. 2
  /\ {signed, hashing_done} \subseteq BOOLEAN
  /\ phase \in {"Header", "Body", "Done"}
  /\ physical_cursor \in 0 .. TotalPhysicalBlocks(layout)
  /\ block_num \in 0 .. layout.total_blocks
  /\ (level0_tables # <<>>) <=> ~hashing_done
  /\ (hash_tree # NoTree) <=> (signed /\ hashing_done)
  /\ next_hash_block \in 0 .. layout.total_blocks
  /\ pc \in {"hashing", "streaming", "failed"}
  /\ failures \in 0 .. MaxFailures
  /\ \A i \in DOMAIN emitted :
       emitted[i].kind \in {"header", "padding", "listing", "data", "table"}
  /\ spoiled_at \in {Whole} \cup 0 .. Len(emitted)

Done == phase = "Done"

\* What is handed over is exactly as long as the manifest says, unless
\* next_chunk() has thrown: a driver that repeats the call gets a package
\* that is short by what was being made, and can tell by its size alone.
ShortExactlyIfThrown ==
  Done => (Len(emitted) * BlockSize = TotalOutputSize(layout) <=> spoiled_at = Whole)

\* The refinement mapping to PartStream.  The session is one file, and has
\* failed for good once next_chunk() has thrown.
Phase ==
  IF pc = "failed" \/ spoiled_at # Whole THEN "failed"
  ELSE IF pc = "hashing" THEN "planning"
  ELSE IF Done THEN "done" ELSE "streaming"

Promised == IF hashing_done /\ pc # "hashing" THEN <<TotalOutputSize(layout)>> ELSE <<>>

Received == IF spoiled_at = Whole THEN Len(emitted) ELSE spoiled_at

HandedOver == [p \in DOMAIN Promised |-> Received * BlockSize]

Stream ==
  INSTANCE PartStream WITH phase <- Phase, manifest <- Promised, written <- HandedOver

\* The session implements PartStream: one file of the promised size, whatever
\* calls of hash_next_block() throw and are repeated, and a driver that keeps
\* calling gets it or a call of next_chunk() that threw.
ImplementsPartStream == Stream!LiveSpec
=============================================================================
