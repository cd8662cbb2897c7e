----------------------------- MODULE StfsReader -----------------------------
(***************************************************************************)
(* StfsReader (src/crate/src/formats/stfs/read.rs) over the package that a *)
(* StfsWriteSession handed over: open() finds the top table and the file   *)
(* table, read_file_range() follows a file's chain of blocks through the   *)
(* hash tables and remembers where it stopped.                             *)
(*                                                                         *)
(* A call whose read throws changes nothing: a failed open() leaves no     *)
(* reader, and the chain cursor is only set at the end of a call.          *)
(***************************************************************************)
EXTENDS StfsWriter

CONSTANTS
  SafeNames,        \* is_safe_path_component
  ReadOffsets,      \* where the ranges a caller reads begin
  ReadLengths       \* and how long they are

ASSUME ReaderAssumption == ReadOffsets \subseteq Nat /\ ReadLengths \subseteq Nat

VARIABLES
  reader,           \* "closed", "open" or "rejected"
  top_table,        \* the fields of StfsReader: statuses of the top table
  level1_status,
  listed,           \* files
  chain_cursor,
  last_read         \* caller: the range read last, and what came back

readerVars == <<reader, top_table, level1_status, listed, chain_cursor, last_read>>
vars == <<writerVars, readerVars>>

NoCursor == [file |-> -1, block |-> 0, pos |-> 0]
NoRead == [file |-> -1, offset |-> 0, len |-> 0, ok |-> TRUE, bytes |-> <<>>]

-----------------------------------------------------------------------------
(* The package                                                               *)

descriptor == emitted[1]
allocated == descriptor.allocated_block_count
Level == TopLevel(allocated)

\* The block at a physical address behind the header.
PhysicalBlock(n) ==
  IF descriptor.header_blocks + n + 1 \in DOMAIN emitted
  THEN emitted[descriptor.header_blocks + n + 1]
  ELSE [kind |-> "padding"]

\* Bytes that are no table are read as one all the same.
RecordAt(block, i) ==
  IF block.kind = "table" THEN block.records[i] ELSE Record(NoDigest, 0, 0)

\* status & 0x40: the second copy is the active one.
SecondCopy(status) == IF (status \div 64) % 2 = 1 THEN 1 ELSE 0

-----------------------------------------------------------------------------
(* open()                                                                    *)

TopAddress ==
  CASE Level = 0 -> 0
    [] Level = 1 -> BackingLevel1(0)
    [] Level = 2 -> BackingLevel2

\* load_top_table
TopTable ==
  LET divisor == CASE Level = 0 -> 1
                   [] Level = 1 -> EntriesPerTable
                   [] Level = 2 -> PerLevel1
  IN [i \in 0 .. CeilDiv(allocated, divisor) - 1 |->
        RecordAt(PhysicalBlock(TopAddress), i).status]

\* load_level1_status
Level1Status(top) ==
  IF Level # 2 THEN <<>>
  ELSE [g \in DOMAIN top |->
          LET table == PhysicalBlock(BackingLevel1(g * PerLevel1) + SecondCopy(top[g]))
          IN [i \in Locals |-> RecordAt(table, i).status]]

\* hash_address_of_block, which looks up the status of the level-0 table of
\* a large package by the number of the block, not of the table.
LinkOf(b, top, level1) ==
  LET copy == CASE Level = 0 -> 0
                [] Level = 1 -> SecondCopy(top[b \div EntriesPerTable])
                [] Level = 2 ->
                     SecondCopy(level1[b \div PerLevel1][b % EntriesPerTable])
  IN RecordAt(PhysicalBlock(BackingLevel0(b) + copy), b % EntriesPerTable).next_block

\* The blocks n steps down a chain, as long as they are legal.
Chain(first, n, top, level1) ==
  LET at[k \in 0 .. n] ==
        IF k = 0 THEN first
        ELSE LET last == at[k - 1]
             IN IF last >= allocated THEN EndOfChain ELSE LinkOf(last, top, level1)
  IN at

Legal(chain) == \A k \in DOMAIN chain : chain[k] < allocated

\* read_file_listing: a slot keeps the index of its place in the table.
SlotsOf(chain) ==
  [i \in 0 .. Cardinality(DOMAIN chain) * EntriesPerBlock - 1 |->
     LET block == PhysicalBlock(BackingDataBlock(chain[i \div EntriesPerBlock]))
         n == (i % EntriesPerBlock) + 1
     IN IF block.kind = "listing" /\ n \in DOMAIN block.slots
        THEN <<block.slots[n]>> ELSE <<>>]

\* build_paths: names up to the root, safe ones and through directories alone,
\* or nothing.  A directory precedes what is in it, where the code counts the
\* steps.
PathOf(slots, i) ==
  LET IsDirectory(k) == k \in DOMAIN slots /\ slots[k] # <<>> /\ slots[k][1].is_directory
      path[k \in DOMAIN slots] ==
        LET entry == slots[k][1]
            up == IF entry.path_indicator < k /\ IsDirectory(entry.path_indicator)
                  THEN path[entry.path_indicator] ELSE <<>>
        IN IF entry.name \notin SafeNames THEN <<>>
           ELSE IF entry.path_indicator = RootEntryIndex THEN <<entry.name>>
           ELSE IF up = <<>> THEN <<>> ELSE Append(up, entry.name)
  IN path[i]

\* In the order of the table.
FilesIn(slots) ==
  LET Listed(i) ==
        IF slots[i] = <<>> \/ slots[i][1].is_directory THEN <<>>
        ELSE <<[path |-> PathOf(slots, i),
                starting_block |-> slots[i][1].starting_block_num,
                size |-> slots[i][1].file_size]>>
  IN FoldLeft(\o, <<>>, [n \in 1 .. Cardinality(DOMAIN slots) |-> Listed(n - 1)])

OpenReader ==
  /\ Done
  /\ spoiled_at = Whole
  /\ reader = "closed"
  /\ LET top == TopTable
         level1 == Level1Status(top)
         chain == Chain(descriptor.file_table_block_num,
                        descriptor.file_table_block_count - 1, top, level1)
         found == FilesIn(SlotsOf(chain))
     IN IF Legal(chain) /\ \A f \in DOMAIN found : found[f].path # <<>>
        THEN /\ reader' = "open"
             /\ top_table' = top
             /\ level1_status' = level1
             /\ listed' = found
        ELSE /\ reader' = "rejected"
             /\ UNCHANGED <<top_table, level1_status, listed>>
  /\ UNCHANGED <<writerVars, chain_cursor, last_read>>

-----------------------------------------------------------------------------
(* read_file_range()                                                         *)

\* Faulty: the cursor of another file is used.
CursorServesAny(f, offset) == chain_cursor # NoCursor /\ chain_cursor.pos <= offset

CursorServes(f, offset) == chain_cursor.file = f /\ chain_cursor.pos <= offset

BlockAt(n) == PhysicalBlock(BackingDataBlock(n))

ByteOf(block, i) == IF block.kind = "data" THEN block.bytes[i] ELSE Pad

ReadFileRange(f, offset, len) ==
  LET start == IF CursorServes(f, offset)
               THEN [block |-> chain_cursor.block, pos |-> chain_cursor.pos]
               ELSE [block |-> listed[f].starting_block, pos |-> 0]
      \* The last block visited: of the first byte, or of the last one.
      hops == (offset + Max({len, 1}) - 1 - start.pos) \div BlockSize
      chain == Chain(start.block, hops, top_table, level1_status)
  IN /\ reader = "open"
     /\ offset + len <= listed[f].size
     /\ IF Legal(chain)
        THEN /\ last_read' =
                  [file |-> f, offset |-> offset, len |-> len, ok |-> TRUE,
                   bytes |-> [i \in 1 .. len |->
                     LET at == offset + i - 1 - start.pos
                     IN ByteOf(BlockAt(chain[at \div BlockSize]), (at % BlockSize) + 1)]]
             /\ chain_cursor' =
                  [file |-> f, block |-> chain[hops], pos |-> start.pos + hops * BlockSize]
        ELSE /\ last_read' =
                  [file |-> f, offset |-> offset, len |-> len, ok |-> FALSE, bytes |-> <<>>]
             /\ UNCHANGED chain_cursor
     /\ UNCHANGED <<writerVars, reader, top_table, level1_status, listed>>

ReaderInit ==
  /\ reader = "closed"
  /\ top_table = <<>>
  /\ level1_status = <<>>
  /\ listed = <<>>
  /\ chain_cursor = NoCursor
  /\ last_read = NoRead

Stopped ==
  /\ pc = "failed" \/ reader = "rejected" \/ (Done /\ spoiled_at # Whole)
  /\ UNCHANGED vars

ReaderCall ==
  \/ OpenReader
  \/ \E f \in DOMAIN listed, offset \in ReadOffsets, len \in ReadLengths :
       ReadFileRange(f, offset, len)

Init == WriterInit /\ ReaderInit

Next ==
  \/ WriterCall /\ UNCHANGED readerVars
  \/ WriterFails /\ UNCHANGED readerVars
  \/ ReaderCall
  \/ Stopped

Spec == Init /\ [][Next]_vars

\* A driver that keeps calling; JavaScript need not ever throw.
FairSpec == Spec /\ WF_vars(WriterCall /\ UNCHANGED readerVars)

-----------------------------------------------------------------------------
(* Properties                                                                *)

\* The writer's types, and the reader's: statuses for as many tables as the
\* package has, a cursor at the start of a block.
TypeOK ==
  /\ WriterTypeOK
  /\ reader \in {"closed", "open", "rejected"}
  /\ reader = "open" =>
       /\ Level = layout.top_level
       /\ \A b \in 0 .. allocated - 1 :
            Level = 1 => b \div EntriesPerTable \in DOMAIN top_table
       /\ Level = 2 => DOMAIN level1_status = DOMAIN top_table
  /\ chain_cursor.pos % BlockSize = 0
  /\ chain_cursor.block \in 0 .. layout.total_blocks - 1
  /\ last_read.file \in {-1} \cup DOMAIN listed

Lists(table, i, block) == RecordAt(table, i).hash = Digest(block)

\* From the header of a signed package every block is reached through digests:
\* the header has that of the top table, and each table, where a reader looks
\* for it, those of the tables or blocks below, counting the blocks.
HashTreeVerifies ==
  Done /\ signed /\ spoiled_at = Whole =>
    /\ descriptor.top_hash_table_hash = Digest(PhysicalBlock(TopAddress))
    /\ Level # 0 => PhysicalBlock(TopAddress).blocks_hashed = allocated
    /\ \A b \in 0 .. allocated - 1 :
         LET level0 == PhysicalBlock(BackingLevel0(b))
             level1 == PhysicalBlock(BackingLevel1(b))
             top == PhysicalBlock(TopAddress)
             group == b \div EntriesPerTable
         IN /\ Lists(level0, b % EntriesPerTable, BlockAt(b))
            /\ Level = 1 => Lists(top, group, level0)
            /\ Level = 2 =>
                 /\ Lists(level1, group % EntriesPerTable, level0)
                 /\ Lists(top, b \div PerLevel1, level1)
                 /\ level1.blocks_hashed =
                      Min({PerLevel1, allocated - (b \div PerLevel1) * PerLevel1})

\* What holds of the package in every state.
PackageSound == TypeOK /\ HashTreeVerifies

\* No file is named like another, or lies below it.
Apart(fs) == \A f, g \in DOMAIN fs : IsPrefix(fs[f].path, fs[g].path) => f = g

StoredPath(path) == [i \in DOMAIN path |-> StoredName[path[i]]]

IsSafe(path) == Range(StoredPath(path)) \subseteq SafeNames

\* The reader rejects what the writer made exactly if a name, as it is stored,
\* is not safe; or else it lists the source's files in their order, each under
\* its path with the names cut as they are stored, so that two may be alike.
ListingRoundTrips ==
  /\ reader = "rejected" => \E f \in DOMAIN files : ~IsSafe(files[f].path)
  /\ reader = "open" =>
       /\ \A f \in DOMAIN files : IsSafe(files[f].path)
       /\ [f \in DOMAIN listed |-> [path |-> listed[f].path, size |-> listed[f].size]] =
            [f \in DOMAIN files |-> [path |-> StoredPath(files[f].path), size |-> files[f].size]]

\* Whatever was read before, a read returns the bytes of its range.  It fails
\* only where it would return nothing: at the end of a file of whole blocks,
\* whose chain does not go there.
ReadsReturnTheFile ==
  IF last_read.ok
  THEN last_read.bytes =
         [i \in 1 .. last_read.len |-> <<last_read.file, last_read.offset + i - 1>>]
  ELSE /\ last_read.len = 0
       /\ last_read.offset = listed[last_read.file].size
       /\ last_read.offset % BlockSize = 0

\* What the reader makes of a package is what went into it, as long as no file
\* is named like another, which the plan would leave out, or lies below one.
ContentRoundTrips == Apart(files) => ListingRoundTrips /\ ReadsReturnTheFile
=============================================================================
