------------------------------ MODULE GodWriter ------------------------------
(***************************************************************************)
(* GodSession (src/crate/src/formats/god/write.rs): the two-pass writer of *)
(* the Games-on-Demand format.  The image is cut into Data files.  A Data  *)
(* file is a master hash table followed by subparts, a subpart is a hash   *)
(* table followed by the data blocks it lists.  The master hash table of a *)
(* file lists the file's hash tables and, after them, the digest of the    *)
(* next file's master hash table; the digest of the first one goes into    *)
(* the package header.  The chain can only be built from its end, so       *)
(* hash_next_part() reads the whole image once, a file per call, before    *)
(* next_chunk() reads it again to stream it.                               *)
(*                                                                         *)
(* Every subpart is read through the source, which may fail: a subpart is  *)
(* a step.  A call that throws leaves the session usable and the driver    *)
(* may call again.  Lengths and offsets are counted in sectors; SHA-1 is   *)
(* taken to be free of collisions.  Reads come up full length: data_size   *)
(* is derived from the very total_sectors() that bounds the reader.        *)
(***************************************************************************)
EXTENDS Integers, Sequences, SequencesExt

CONSTANTS
  MaxSectors,        \* longest image considered
  BlockSectors,      \* BLOCK_SIZE in sectors (2), also the size of a table
  BlocksPerSubpart,  \* BLOCKS_PER_SUBPART
  SubpartsPerPart,   \* SUBPARTS_PER_PART
  HeaderSize,        \* size of the package header, in sectors
  MaxFailures        \* bound on the number of calls that throw

ASSUME GodAssumption ==
  /\ MaxSectors \in Nat \ {0}
  /\ BlockSectors \in Nat \ {0}
  /\ BlocksPerSubpart \in Nat \ {0}
  /\ SubpartsPerPart \in Nat \ {0}
  /\ HeaderSize \in Nat \ {0}
  /\ MaxFailures \in Nat

VARIABLES
  data_size,              \* the fields of GodSession, in its order
  chained_mhts,
  precomputed_parts,
  master_digest,
  last_part_size,
  raw_mhts,
  next_hash_part,
  hashing_done,
  current_part_index,
  current_subpart_index,
  current_part,
  header_emitted,
  last_entry_name,
  pc,                     \* "hashing" while compute_hashes() runs
  part,                   \* the PartState hash_next_part() works on
  files,                  \* driver: what each output file holds
  failures                \* number of calls that threw

hashVars == <<chained_mhts, master_digest, last_part_size, raw_mhts,
              next_hash_part, hashing_done>>
streamVars == <<current_part_index, current_subpart_index, current_part,
                header_emitted, last_entry_name>>
vars == <<data_size, hashVars, precomputed_parts, streamVars, pc, part, files,
          failures>>

-----------------------------------------------------------------------------
(* Layout.  A definition marked "faulty" is not part of the model: it is the *)
(* definition after it with a plausible bug, kept to show which property     *)
(* would notice.                                                             *)

Smaller(a, b) == IF a <= b THEN a ELSE b
DivCeil(a, b) == (a + b - 1) \div b

SubpartSize == BlockSectors * BlocksPerSubpart
BlocksPerPart == BlocksPerSubpart * SubpartsPerPart

block_count == DivCeil(data_size, BlockSectors)
part_count == DivCeil(block_count, BlocksPerPart)

PartStart(i) == i * BlocksPerPart * BlockSectors

\* What a block of a file can hold: sectors of the image, a hash table, or
\* the package header.
Data(from, len) == <<"data", from, len>>
Table(hashes) == <<"table", hashes>>
Header(fields) == <<"header", fields>>

Digest(block) == <<"sha1", block>>

Length(block) ==
  CASE block[1] = "data" -> block[3]
    [] block[1] = "table" -> BlockSectors
    [] block[1] = "header" -> HeaderSize

Total(numbers) == FoldLeft(+, 0, numbers)

SizeOf(blocks) == Total([b \in DOMAIN blocks |-> Length(blocks[b])])

\* Names of output files: i for Data file i, one more for the header.
Names == 0 .. part_count
HeaderName == part_count
NoName == -1

\* The data blocks read_range() returns for a subpart, as chunks of a block.
Blocks(start, size) ==
  [k \in 1 .. DivCeil(size, BlockSectors) |->
     Data(start + (k - 1) * BlockSectors,
          Smaller(BlockSectors, size - (k - 1) * BlockSectors))]

EmptyPart == [sub_hash_lists |-> <<>>, subpart_sizes |-> <<>>]
NoPart == [sub_hash_lists |-> <<Table(<<>>)>>, subpart_sizes |-> <<0>>]

\* 0xa290 blocks: the master hash table, the hash tables and the data.
FullPartSize == BlockSectors * (1 + SubpartsPerPart + BlocksPerPart)

\* Faulty: the subpart that is not full is not counted.
FullSubparts(bytes) == bytes \div SubpartSize

\* Number of turns of output_manifest()'s loop over a file's subparts.
PlannedSubparts(bytes) == DivCeil(bytes, SubpartSize)

\* output_manifest(): sizes of the Data files, from data_size alone, and of
\* the header.
OutputManifest ==
  [p \in 1 .. part_count + 1 |->
     IF p = part_count + 1 THEN HeaderSize
     ELSE LET bytes == Smaller(SubpartsPerPart * SubpartSize, data_size - PartStart(p - 1))
          IN BlockSectors + PlannedSubparts(bytes) * BlockSectors + bytes]

Init ==
  /\ data_size \in 1 .. MaxSectors
  /\ chained_mhts = <<>>
  /\ precomputed_parts = [i \in 0 .. part_count - 1 |-> NoPart]
  /\ master_digest = Digest(Table(<<>>))
  /\ last_part_size = 0
  /\ raw_mhts = <<>>
  /\ next_hash_part = 0
  /\ hashing_done = FALSE
  /\ current_part_index = 0
  /\ current_subpart_index = 0
  /\ current_part = NoPart
  /\ header_emitted = FALSE
  /\ last_entry_name = NoName
  /\ pc = "idle"
  /\ part = EmptyPart
  /\ files = [name \in Names |-> <<>>]
  /\ failures = 0

-----------------------------------------------------------------------------
(* Hashing                                                                   *)

\* hash_next_part() opens the next part and enters compute_hashes().
HashNextPart ==
  /\ pc = "idle"
  /\ ~hashing_done
  /\ pc' = "hashing"
  /\ part' = EmptyPart
  /\ UNCHANGED <<data_size, hashVars, precomputed_parts, streamVars, files, failures>>

SubpartStart == PartStart(next_hash_part) + Len(part.sub_hash_lists) * SubpartSize

MoreSubparts ==
  /\ Len(part.sub_hash_lists) < SubpartsPerPart
  /\ SubpartStart < data_size

\* One turn of compute_hashes(): a subpart is read and its blocks hashed.
HashSubpart ==
  /\ pc = "hashing"
  /\ MoreSubparts
  /\ LET want == Smaller(SubpartSize, data_size - SubpartStart)
         blocks == Blocks(SubpartStart, want)
     IN part' = [sub_hash_lists |->
                   Append(part.sub_hash_lists,
                          Table([k \in DOMAIN blocks |-> Digest(blocks[k])])),
                 subpart_sizes |-> Append(part.subpart_sizes, want)]
  /\ UNCHANGED <<data_size, hashVars, precomputed_parts, streamVars, pc, files, failures>>

\* The part's master hash list: a digest per hash table.
MhtEntries ==
  [k \in DOMAIN part.sub_hash_lists |-> Digest(part.sub_hash_lists[k])]

\* actual_size() of the part just hashed.
ActualSize ==
  BlockSectors + Len(part.sub_hash_lists) * BlockSectors
    + Total(part.subpart_sizes)

\* Faulty: a table embeds the digest the next one had before it was chained.
ChainOfRawTables(mhts) ==
  [i \in DOMAIN mhts |->
     Table(IF i = Len(mhts) THEN mhts[i]
           ELSE Append(mhts[i], Digest(Table(mhts[i + 1]))))]

\* finish_hashing(): from the last table to the first, append the digest of
\* the table after it.
Chained(mhts) ==
  LET n == Len(mhts)
      Chain[i \in 1 .. n] ==
        Table(IF i = n THEN mhts[i] ELSE Append(mhts[i], Digest(Chain[i + 1])))
  IN [i \in 1 .. n |-> Chain[i]]

RawMhtsLeft(last) == IF last THEN <<>> ELSE Append(raw_mhts, MhtEntries)

\* compute_hashes() is through: keep the part's tables for streaming; after
\* the last part, build the chain.
FinishPart ==
  /\ pc = "hashing"
  /\ ~MoreSubparts
  /\ LET last == next_hash_part = part_count - 1
     IN /\ last_part_size' = IF last THEN ActualSize ELSE last_part_size
        /\ chained_mhts' =
             IF last THEN Chained(Append(raw_mhts, MhtEntries)) ELSE chained_mhts
        /\ master_digest' = IF last THEN Digest(chained_mhts'[1]) ELSE master_digest
        /\ raw_mhts' = RawMhtsLeft(last)
        /\ hashing_done' = last
  /\ precomputed_parts' = [precomputed_parts EXCEPT ![next_hash_part] = part]
  /\ next_hash_part' = next_hash_part + 1
  /\ part' = EmptyPart
  /\ pc' = "idle"
  /\ UNCHANGED <<data_size, streamVars, files, failures>>

\* Reading a subpart fails: hash_next_part() returns the error and the part
\* it was hashing is dropped.
HashingFails ==
  /\ pc = "hashing"
  /\ MoreSubparts
  /\ failures < MaxFailures
  /\ failures' = failures + 1
  /\ part' = EmptyPart
  /\ pc' = "idle"
  /\ UNCHANGED <<data_size, hashVars, precomputed_parts, streamVars, files>>

-----------------------------------------------------------------------------
(* Streaming                                                                 *)

IsDone == header_emitted

\* The driver appends a chunk to the file currentEntryName() names.
AppendToFile(name, blocks) ==
  /\ last_entry_name' = name
  /\ files' = [files EXCEPT ![name] = @ \o blocks]

\* A call in the streaming phase first closes a part that has no subpart
\* left; between parts, index is the part it goes on with.
BetweenParts(index) ==
  /\ pc = "idle"
  /\ hashing_done
  /\ ~header_emitted
  /\ \/ current_part = NoPart /\ index = current_part_index
     \/ /\ current_part # NoPart
        /\ current_subpart_index >= Len(current_part.sub_hash_lists)
        /\ index = current_part_index + 1

\* Open the next part, taking its tables, and hand over its master table.
StreamMasterTable(index) ==
  /\ BetweenParts(index)
  /\ index < part_count
  /\ current_part_index' = index
  /\ current_part' = precomputed_parts[index]
  /\ precomputed_parts' = [precomputed_parts EXCEPT ![index] = NoPart]
  /\ current_subpart_index' = 0
  /\ AppendToFile(index, <<chained_mhts[index + 1]>>)
  /\ UNCHANGED <<data_size, hashVars, header_emitted, pc, part, failures>>

InsidePart ==
  /\ pc = "idle"
  /\ hashing_done
  /\ current_part # NoPart
  /\ current_subpart_index < Len(current_part.sub_hash_lists)

\* Hand over a subpart: its table and its blocks, read again.
StreamSubpart ==
  /\ InsidePart
  /\ LET k == current_subpart_index + 1
         start == PartStart(current_part_index) + current_subpart_index * SubpartSize
     IN AppendToFile(current_part_index,
                     <<current_part.sub_hash_lists[k]>>
                       \o Blocks(start, current_part.subpart_sizes[k]))
  /\ current_subpart_index' = current_subpart_index + 1
  /\ UNCHANGED <<data_size, hashVars, precomputed_parts, current_part_index,
                 current_part, header_emitted, pc, part, failures>>

\* Reading the subpart fails: the call throws and changes nothing.
StreamingFails ==
  /\ InsidePart
  /\ failures < MaxFailures
  /\ failures' = failures + 1
  /\ UNCHANGED <<data_size, hashVars, precomputed_parts, streamVars, pc, part, files>>

\* Behind the last part: the header, with the digest of the first table and
\* the size of all Data files.
StreamHeader(index) ==
  /\ BetweenParts(index)
  /\ index >= part_count
  /\ current_part' = NoPart
  /\ current_part_index' = index
  /\ header_emitted' = TRUE
  /\ AppendToFile(HeaderName,
       <<Header([blocks |-> block_count, parts |-> part_count,
                 size |-> last_part_size + (part_count - 1) * FullPartSize,
                 mht_hash |-> master_digest])>>)
  /\ UNCHANGED <<data_size, hashVars, precomputed_parts, current_subpart_index,
                 pc, part, failures>>

\* Building the header fails (signing it may): the last part stays closed.
HeaderFails(index) ==
  /\ BetweenParts(index)
  /\ index >= part_count
  /\ failures < MaxFailures
  /\ failures' = failures + 1
  /\ current_part' = NoPart
  /\ current_part_index' = index
  /\ UNCHANGED <<data_size, hashVars, precomputed_parts, current_subpart_index,
                 header_emitted, last_entry_name, pc, part, files>>

\* Calls after the header return nothing and change nothing.
Ended == header_emitted /\ UNCHANGED vars

Call ==
  \/ HashNextPart \/ HashSubpart \/ FinishPart
  \/ StreamSubpart
  \/ \E index \in 0 .. part_count : StreamMasterTable(index) \/ StreamHeader(index)

Failure ==
  \/ HashingFails \/ StreamingFails
  \/ \E index \in 0 .. part_count : HeaderFails(index)

Next == Call \/ Failure \/ Ended

Spec == Init /\ [][Next]_vars

\* A driver that keeps calling until isDone(), also after a call that threw.
FairSpec == Spec /\ WF_vars(Call)

-----------------------------------------------------------------------------
(* Properties                                                                *)

IsPart(p) == Len(p.sub_hash_lists) = Len(p.subpart_sizes)

\* Cursors stay within the image, a part has a size for every table, and
\* the lists that build the chain exist only while it is being built.
TypeOK ==
  /\ data_size \in 1 .. MaxSectors
  /\ Len(chained_mhts) = IF hashing_done THEN part_count ELSE 0
  /\ \A i \in 0 .. part_count - 1 : IsPart(precomputed_parts[i])
  /\ last_part_size \in 0 .. FullPartSize
  /\ Len(raw_mhts) = IF hashing_done THEN 0 ELSE next_hash_part
  /\ next_hash_part \in 0 .. part_count
  /\ hashing_done <=> next_hash_part = part_count
  /\ current_part_index \in 0 .. part_count
  /\ current_subpart_index \in 0 .. SubpartsPerPart
  /\ IsPart(current_part)
  /\ header_emitted \in BOOLEAN
  /\ last_entry_name \in Names \cup {NoName}
  /\ pc \in {"idle", "hashing"}
  /\ IsPart(part) /\ Len(part.sub_hash_lists) <= SubpartsPerPart
  /\ DOMAIN files = Names
  /\ failures \in 0 .. MaxFailures

\* Entry k of the table at position t of a file is the digest of block b.
Lists(file, t, k, b) ==
  t \in DOMAIN file /\ b \in DOMAIN file => file[t][2][k] = Digest(file[b])

\* The hash chain a console checks holds in the bytes handed over so far:
\* every data block is listed by the table of its subpart, every table by
\* the master table of its file, every master table by the one before it,
\* at the fixed last place, and the first one by the header.
HashChainVerifies ==
  /\ \A i \in 0 .. part_count - 1 :
       LET file == files[i]
           TableAt(j) == 2 + j * (BlocksPerSubpart + 1)
       IN /\ \A j \in 0 .. SubpartsPerPart - 1 :
               /\ Lists(file, 1, j + 1, TableAt(j))
               /\ \A k \in 1 .. BlocksPerSubpart :
                    Lists(file, TableAt(j), k, TableAt(j) + k)
          /\ i > 0 /\ file # <<>> =>
               files[i - 1][1][2][SubpartsPerPart + 1] = Digest(file[1])
  /\ \A b \in DOMAIN files[HeaderName] :
       files[HeaderName][b][2].mht_hash = Digest(files[0][1])

DataBlocksIn(blocks) ==
  Total([b \in DOMAIN blocks |-> IF blocks[b][1] = "data" THEN 1 ELSE 0])

\* The header, computed from the first pass's sizes, describes the files the
\* second pass wrote: how many, how many data blocks, how large in all.
HeaderDescribesFiles ==
  \A b \in DOMAIN files[HeaderName] :
    LET fields == files[HeaderName][b][2]
    IN /\ \A i \in 0 .. part_count - 1 : (files[i] # <<>>) <=> i < fields.parts
       /\ fields.size = Total([i \in 1 .. part_count |-> SizeOf(files[i - 1])])
       /\ fields.blocks = Total([i \in 1 .. part_count |-> DataBlocksIn(files[i - 1])])

\* What holds of the package in every state.
PackageSound == TypeOK /\ HashChainVerifies /\ HeaderDescribesFiles

\* The refinement mapping to PartStream.
Phase ==
  IF IsDone THEN "done" ELSE IF hashing_done THEN "streaming" ELSE "planning"

Promised == IF hashing_done THEN OutputManifest ELSE <<>>

HandedOver == [p \in DOMAIN Promised |-> SizeOf(files[p - 1])]

Stream ==
  INSTANCE PartStream WITH phase <- Phase, manifest <- Promised, written <- HandedOver

\* The session implements PartStream, without ever failing for good: however
\* many calls throw, each file gets exactly the bytes that output_manifest()
\* computed from data_size before anything was read, and a driver that keeps
\* calling finishes.
ImplementsPartStream == Stream!LiveSpec
=============================================================================
