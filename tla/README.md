# TLA+ verification of iso2x

This directory holds TLA+ models of iso2x, the library behind the Xbox
disc-image converter in this repository, the TLC configurations that check
them, and machine-checked proofs about them. `PROJECT.json` lists the runs, the
properties, which source lines each definition models, and the findings.

iso2x is single-threaded Rust compiled to WebAssembly. It is driven from
JavaScript, one call at a time, and calls back into JavaScript for every byte
of the source. What makes it hard is not parallelism. It is

- **two passes over the same image** (`hashNextPart()`, then `nextChunk()`)
  that must agree byte for byte although each is written out separately;
- **work cut at arbitrary points**: a batch, a chunk of at most `max_bytes`, a
  part that is full, a call that throws inside a loop;
- **layout arithmetic** at the borders of sectors, blocks, tables, parts and
  files, which writer and reader state independently;
- **a cache** that prefetches, evicts and must never pass a gap off as the end.

## 1. Inventory

Paths are relative to `src/crate/src/` unless they begin with `src/`.

| Component | State it keeps | Operations | What makes it correct | Modelled by |
|---|---|---|---|---|
| Source layer (`core/source.rs`, `lib.rs`) | the open source behind a handle, what was probed of it | detection, opening, inspection, attach XBE, opening a conversion | a handle answers as a fresh source would; a failed read is no answer | `SourceLayer`, `StfsIdentity`, `Session`, `SourceProofs` |
| Session protocol (`session.rs`, `src/npm/src/session.ts`) | the session behind an enum; the driver's output files | `hashNextPart`, `nextChunk`, `isDone`, `currentEntryName`, `outputManifest`, the generator | every file gets exactly the promised bytes, in order; `isDone` means complete; the loop ends | `PartStream` (promise), the driver in each writer, `Session`, `SourceProofs` |
| CCI writer (`formats/cci/write.rs`, `format.rs`) | sizing cursor and accounting, parts, streaming stage and cursors | `hash_next_part`, `next_chunk` | parts partition the image; the index of pass one describes the bytes of pass two; 31-bit positions | `CciWriter`, `CciProofs` |
| CCI reader (`formats/cci/read.rs`) | per-part header and index | `open`, `read_sector`, `read_bytes` | accepts what the writer writes and returns each range of it | `CciReader`, `CciProofs` |
| CISO writer (`formats/ciso/write.rs`, `format.rs`) | index table, positions, part sizes, padding flag | `hash_next_part`, `next_chunk` | both passes end parts alike; positions relative to the file | `CisoWriter`, `CisoProofs` |
| CISO reader (`formats/ciso/read.rs`) | header, index, boundaries | `open`, `stored_range`, `read_sector` | as for CCI | `CisoReader`, `CisoProofs` |
| GOD writer (`formats/god/write.rs`, `hash_list.rs`) | hash lists, chained tables, part and subpart cursors | `hash_next_part`, `next_chunk` | the hash chain verifies; header and manifest match; a call that throws can be repeated | `GodWriter`, `GodProofs` |
| GOD reader (`formats/god/read.rs`) | parts, block cache | `open`, `remap_sector`, `read_bytes` | inverts the writer's layout | `GodReader`, `GodProofs` |
| JS reader (`core/reader.rs`) | resident blocks, ticks, streak, readahead window, position | `read`, `seek`, `set_sequential_mode` | returns the bytes asked for or an error; bounded cache | `JsReader`, `ExtractedProofs` |
| XISO writer (`formats/xiso/write.rs`) | plan, sector cursor, entry name | `open`, `next_chunk` | chunks never cross a split; every sector in its place, zeroed only where the mode says | `XisoWriter`, `XisoWriterProofs` |
| XISO reader (`formats/xiso/read.rs`) | root offset, parts | `open`, `read_bytes` | one image out of several files, shifted by the offset of its volume | `Xdvdfs`, `ExtractedWriter`, `SplitParts` |
| Scrub planning (`core/scrub.rs`) | cursor and run of the search | `scan`, `plan_direct`, `find_security_sectors` | no used sector trimmed or zeroed; security sectors found | `Scrub`, `XisoWriterProofs` |
| STFS writer and hash tree (`formats/stfs/write.rs`, `hash_tree.rs`) | planned entries, hash tables per level, physical and logical block cursor | `open`, `hash_next_block`, `next_chunk` | every block listed by its table and tables by the level above, up to the header; one manifest size | `StfsLayout`, `StfsWriter`, `StfsIdentity`, `StfsProofs` |
| STFS reader (`formats/stfs/read.rs`) | table statuses, file list, chain cursor | `open`, `read_file_range` | finds blocks, links and paths where the writer put them, whatever was read before | `StfsReader`, `StfsProofs` |
| ZAR writer and reader (`formats/zar/`) | phase, file cursor, block buffer, offset records; the block decompressed last | `build`, `next_chunk`; `open`, `read_file_range` | blocks found through the records, paths through the tree; a call that throws can be repeated | `ZarLayout`, `ZarWriter`, `ZarReader`, `SourceProofs` |
| Extracted writer (`formats/extracted.rs`) and filesystem (`core/extracted_fs.rs`) | file cursor, pending patch; names, active reader, overrides | `open`, `next_chunk`; listing, reads, copies, overrides | every file whole under its own name; reads do not depend on reads before | `ExtractedFs`, `ExtractedWriter`, `FileStore` (promise), `ExtractedProofs` |
| Directory parsing (`core/iso/`) | the stack of the walk | volume probe, walk, used prefix | each table walked once, each entry listed once, also in loops | `Xdvdfs`, `ExtractedProofs` |
| Split detection (`core/split_detect/`) | candidates, classification, what was reported | probe, classify, search subsets, verify, resolve | every file accounted for once; a split is genuine; none is lost | `SubsetSearch`, `SplitParts`, `SplitDetect` |
| Executables and metadata (`core/executable`, `core/title`) | none | parsing | the title comes from the right executable | in `SourceLayer`; parsing is not modelled |
| Signing and profiles (`core/signing`, `core/xprofile`) | none | profile transfer, signing | header and account name the same profile | in `StfsIdentity`; cryptography is not modelled |
| npm facade (`src/npm/src`) | none | wrappers, `scanBatch` | as the layer below | in `Session` and `SplitDetect` |
| Textures, thumbnails, game list, utilities | none | pure functions | pixels and tables | not modelled |

**Interaction.** JavaScript resolves a batch of files (split detection), opens
a source and a session over it; a session owns its source
(`OwnedSourceReader`), which reads through one `JsReader` per input file, which
calls JavaScript's `readFn`. Errors pass straight up and end the call.
JavaScript asks for chunks until `isDone()` and routes each to the file
`currentEntryName()` names.

**Hard behaviours.** Listed, each at its line, under `hazards` in
`PROJECT.json`, with the properties that watch it, or the reason none does.

## 2. How the modules correspond to the code

| Layer | Modules |
|---|---|
| promises (abstract specifications) | `PartStream` (a session to its driver), `FileStore` (a view of files to its callers) |
| writers | `CciWriter`, `CisoWriter`, `GodWriter`, `XisoWriter` (on `Scrub`), `StfsWriter` (on `StfsLayout`), `ZarWriter` (on `ZarLayout`), `ExtractedWriter` (on `ExtractedFs`, `Xdvdfs`) |
| readers, composed with the writer whose files they read | `CciReader`, `CisoReader`, `GodReader`, `StfsReader`, `ZarReader` |
| cache | `JsReader` |
| split detection | `SplitDetect` on `SplitParts` (on `Xdvdfs`) and `SubsetSearch` |
| the whole | `Session` on `SourceLayer` and `StfsIdentity` |
| instances | `MC*` |
| proofs | `CciProofs`, `CisoProofs`, `GodProofs`, `XisoWriterProofs`, `StfsProofs`, `ExtractedProofs` (also `JsReader`), `SourceProofs` (`Session` and `ZarReader`), on `CommonLemmas` |

### PartStream and FileStore: the promises

`PartStream` has three variables: `phase`, `manifest` (sizes promised) and
`written` (sizes handed over). `Publish` ends planning, `Deliver(p)` appends to
file `p` only when all earlier files are complete and no later one has begun,
never beyond the promise, and `phase` becomes `"done"` only when all is
delivered; `Fail` ends a session whose call threw. `LiveSpec` adds that a
session ends, done or failed. The CCI, CISO, GOD, XISO, STFS and Extracted
writers each instantiate it with a refinement mapping and check it as a property
(`ImplementsPartStream`). ZAR does not: its size is unknown until
the footer, so its manifest is no promise, and it has `EventuallyDone`.

`FileStore` is what a view of packaged files promises: files are listed when
it opens, a range read is that range of its file or an error whatever was read
before, and only a whole file can be replaced. `ZarReader` and `ExtractedFs`
implement it (`ImplementsFileStore`).

### CciWriter

Variables are the fields of `CciSession` under their own names, then the call
in progress (`pc`, `sector`, `max_bytes`, `out_len`) and the driver (`written`,
`landed`). An iteration of either sector loop is one step, because each calls
JavaScript, which may throw: `SizeSector`/`SizingReadFails` and
`EmitSector`/`StreamingReadFails`. Everything else a call does is one step:
`HashNextPart` enters the loop, `YieldBatch`/`FinishLastBatch` leave it,
`StreamHeader`, `StreamSectors` and `StreamIndex` are the stages of
`next_chunk`, and `StreamIndex` includes the call that turns from an exhausted
sector stage to the index by calling itself.

A sector is abstracted to the length of its LZ4 block; an index to its entries;
`sizing_part_index_infos` keeps the running end of each slot in place of its
length, which is what `finalize_sizing_part` sums up. A file name is its number
(0 is the bare name of a single-part output). `ReaderAccepts` and `ReaderSlot`
verify and look up as `cci/read.rs` does. `CciReader` goes on with them over the
files handed over: opening, locating the part of a sector, copying or
decoding its slot, and reads of any range across sectors and parts. Each read
answers with the sector or byte it finds, with `"garbled"` if it finds another's,
or `"error"`.

### CisoWriter

The same shape. A CISO output has one header and index for all parts, positions
are relative to a sector's part, and the padding at the end of a part is a
chunk of its own (`StreamPadding`). `CisoReader` infers where parts begin
(`PartBoundaries`), derives a stored length from the next position with the
wrapping subtraction of the code (`StoredLength`, modulo `WordValues`), and
decodes. The images are any, with stored lengths aligned or not. `InStep(s)` says
that each part before sector s ended aligned: only then the passes cut alike up to
s and s lies where the index says; `ManifestHolds` that all did, only then the
manifest is a promise (otherwise the mapping to `PartStream` publishes none and ends
as failed). `Readable` adds what the reader takes from the next position.
`CisoSplitsDisagree` and `CisoSplitUnreadable` show what fails without these (§7).

### GodWriter

Lengths are counted in sectors, and a file is the sequence of blocks handed
over: data (an extent of the image), a hash table (a sequence of digests) or
the header. A digest is the block itself, tagged, so two digests are equal only
for equal content (SHA-1 free of collisions). A subpart is a step
(`HashSubpart`, `StreamSubpart`). A call that throws leaves the session usable,
and the model lets the driver call again: `HashingFails` drops the part being
hashed, `StreamingFails` changes nothing, `HeaderFails` leaves the last part
closed. Reads are full length: `data_size` is `total_sectors()` sectors, the
very bound of the reader, and a scrub plan that goes beyond the image is
rejected by `scan()` (unless only an empty entry lies there, see `Scrub`).
`GodReader` counts the sectors from the size of the last Data file, remaps a
sector to its file and offset, and reads ranges; a sector it counts in excess
(§7) is refused.

### JsReader

Bytes are abstracted to their offsets: a block holds an extent `[from, len]`.
`ReadCached` enters `ensure_range`; `FetchRun` is one round of it (make room,
fetch, distribute slices), `FetchFails` the round whose `readFn` throws or
returns a wrong count, `CopyOut` the stamping and copying at its end.
`ReadSequential`/`FillFails` serve Sequential mode. `last_read` is a history
variable: when a caller's read of a block last succeeded. Left out: the window
size setter, and readers with a base offset, which only add a constant.

### Scrub and XisoWriter

`Scrub` has the directory tree of a disc (`disc`), the search's loop
(`sector_index`, `run_start`) and the plan that comes of it (`total_sectors`,
`zero_sectors`). `scan()` calls nobody, so it is a set of operators
(`UsedSectors`, `MaxEnd`, `ScanFails`); an iteration of `scan_for_zero_run()`
reads a sector and is a step (`ScanSector`, `ScanReadFails`). The plan of a
partial scrub goes to a CCI, CISO or GOD session, which `Scrub` leaves at that.

`XisoWriter` extends it with `XisoSession`: `OpenTrim`, `OpenZero`,
`OpenRebuilt` and `OpenFails` are `open()`, `NextChunk` is `next_chunk()`, which
reads once and so is one step; `ReadFails` and `ReadBeyondImage` are the calls
that throw. The driver may repeat those and gives up after `MaxFailures`. What
the library lays out in mode full is external: an image of some length.

### StfsLayout, StfsWriter and StfsReader

`StfsLayout` is `build_tree`, `assign_layout`, `plan` and the address arithmetic
of writer and reader, as operators: `BackingLevel0` only the reader computes, the
writer finds those tables by walking. `StfsWriter` has the fields of
`StfsWriteSession` and of its `HashTreeBuilder` (whose own `next_block` always
equals `next_hash_block`). A call handles one block and is one step:
`HashNextBlock`, `NothingToHash` and `HashingFails` are `hash_next_block()`; `EmitHeader`,
`EmitUpperTable`, `EmitLevel0Table`, `EmitData`, `Exhausted`, `HeaderFails` and
`StreamingFails` are `next_chunk()`. A repeated `hash_next_block()` hashes the
same block; a repeated `next_chunk()` goes on with the next one, because
`step_physical_block` has moved the cursors before the source is read. The
model lets the driver do both and remembers in `spoiled_at` what it had
received when a chunk was lost; from then on the session counts as failed.

`StfsReader` reads the blocks handed over: `OpenReader` is `open()`,
`ReadFileRange` is `read_file_range()`. `StoredName` is what the 0x28 bytes of a slot
keep of a name, `SafeNames` the names that pass `is_safe_path_component()`, without
which `open()` fails. A byte is its file and offset, a digest the block itself. What a signature or a header field other than counts and top
hash holds is left out, and so is a package that was not written here.

### ZarLayout, ZarWriter and ZarReader

`ZarLayout` is the directory of an archive as operators: the path tree that
`ZarSession::build()` makes of a listing, or its refusal, the name table with
headers of one or two bytes, the file tree in breadth-first order with offsets
and sizes in two words, and the reader's way back (`BuildFiles`). A name is a
model value with its lower case, its rank, its encoding and its length. What
the code does in loops over paths, nodes and entries is a fold whose step has a
name (`InsertPath` and in it `Descend`, `Intern`, `Enqueue`, `ListDirectory` and
in it `ListChild`).
`ZarWriter` is the phase machine of `advance()`: one action for each of its
steps, of which `ReadFile` and `FlushBlocks` may throw (`FileReadFails`), and
`BeginCall`, `Drain`, `ReturnChunk` for the call around them. A call that threw
can be repeated: what it had queued stays queued. `ZarReader` opens the archive
(`OpenReader`), reads ranges through the block cache (`ReadFileRange`) and throws
at any block (`BlockReadFails`), with the blocks before it cached. zstd is a
choice of stored lengths; what fills the space of a decode that goes wrong is
noise that no source holds.

### Xdvdfs, ExtractedFs and ExtractedWriter

`Xdvdfs` is the volume probe (`IsoType`), the walk over directory tables with
its stack and the guard that ends loops (`ProbedBy`), and the used prefix. A
table is a set of nodes by sector; a table may be out of reach, shared or part
of a loop. `ExtractedFs` has the names of a view (loose ones validated and
normalised, those of a package as listed; looked up exactly, the first one found),
one active reader at a time, overrides and copies. `ExtractedWriter` is `ExtractedSession` over either: `OpenSource`,
`OpenSession`, `NextChunk` with the patched executable pending, `ChunkFails`
for a read that throws and is repeated, and the reads of a caller on the view
in between. A byte is its file, position and who put it there.

### SubsetSearch, SplitParts and SplitDetect

`SubsetSearch` is the search for sets of fragments of a given sum, with its
cuts and its budget of steps, next to a reference definition. `SplitParts` is
what a concatenation of files is: a part says which bytes of which disc it
holds, so that a volume, a table or an executable is found exactly if all its
bytes are there in order; on that stand `ProbeView`, `VerifyOrdering` and
`MultiPartReader`. `SplitDetect` is `resolveBatch()` and
`resolveBatchEntry()`: each probe of a file is a step (`Detect`, `Classify`), and
`LoseFile` may take a file away between steps, or within a probe, from
when on its reads throw. The search over headers, subsets and orderings is one
step, because it only reads and a lost file counts as one that does not
verify. GOD folders, sets of discs, split names and early reports are part of it;
`NameRank` is the order of names in which headers come to claim.

### SourceLayer, StfsIdentity and Session

A source is a record: what its first and last bytes say, whether it opens and
can be walked, its files (an executable gives a title), and its header.
`SourceLayer` has detection, what a handle caches, inspection and attach XBE;
`StfsIdentity` has the identity fields of a converted package and the profile
transfer, as operators. `Session` has one action for each call of JavaScript,
with a handle or by a standalone function, each with at most one read failing
(`fault`); a session then plans `PlanUnits` units and streams its pieces by hand
(`HashNextPart`, `NextChunk`) or by the generator of the npm package
(`StartGenerator`, `WaitForRoom`, `GeneratorStep`), in any order. How each target
makes its bytes is the subject of its own module.

### Faulty definitions

Next to a definition there may be one marked "faulty": the same with a plausible
bug (a dropped guard, a bound off by one, a missing reset). It is not part of
the model. `PROJECT.json` pairs each property with the faulty definition that
breaks it, which is how we know that the property constrains the code.

## 3. What the runs check

Where a property in a cfg is a conjunction of named parts (`CacheSound`,
`PackageSound`, `PlanSound`, `ArchiveSound`, `SessionSound`, `ContentRoundTrips`,
`DirectoryRoundTrips`, `TreesAreWhole`), each part has a comment of its own at
its definition.

| Run | Instance | States | What it shows |
|---|---|---|---|
| `Cci` | images of up to 5 sectors, slots of 4, 8 or 16 bytes, header 8, split point 20, batches of 2, chunks of at most 5 or 64 bytes | 21,398 | parts partition the image, stay within 31-bit positions, and every range of the image is read back through them; `PartStream` implemented, the driver's loop ends |
| `Ciso` | images of up to 6 sectors, stored lengths 2, 3, 5, 8 (raw), split point 32, alignment 2, padding to 4, words of 64 values | 390,844 | whatever the images: a sector in step lands where the index says, every readable one is read back, `PartStream` with progress |
| `God` | images of up to 27 sectors of 3 bytes: blocks of 2 sectors, subparts of 3 blocks, files of 2 subparts; up to 3 throws | 1,437 | the hash chain verifies from the header down to each data block, the header describes the files, every range of the image is read back, `PartStream` with progress, without failing |
| `XisoWriter` | discs of 6, 7 and 9 sectors of 2 bytes, up to 2 of 7 entries, at most 2 sectors not blank, split after 3, chunks of 1, 2 or 4 sectors, 2 throws | 247,472 | no needed sector cut off or zeroed, security sectors found exactly, every sector in its place, `PartStream` with progress |
| `Stfs` | packages of 2 to 27 blocks: tables of 3 entries (one, two and three levels), file tables of 2 entries a block, blocks of 2 bytes, signed or not, two header sizes, 2 throws; ranges of 0, 1 and 5 bytes at 8 offsets | 62,252 | the hash tree verifies from the header to each block at the reader's addresses, ranges and the listing, by stored names, come back or an unsafe name is refused, a package is short exactly if a chunk threw, `PartStream` with progress |
| `Zar` | blocks of 3 bytes, two to a record, 12 listings (4 refused), names that fold, collide or need long headers, chunks of at most 5 or 90 bytes, 2 throws | 14,879 | every block decodes through its record, progress counts the bytes read, the directory round-trips or is refused exactly when ambiguous, `FileStore` implemented, the driver is done or gives up |
| `Extracted` | sectors of 2 bytes, volumes at byte 0, 4, 8 and 12; 11 discs, 7 listings, 4 packages, one with paths listed twice, with overrides, skipped updates and a patched executable; chunks of 1, 2 and 5 bytes, 2 throws | 1,899 | every file arrives whole under its name, the walk lists each reachable table once, an image laid out from the listing reaches every file, `PartStream` with progress and `FileStore` |
| `Detection` | `SplitDetect`: 18 batches of up to 5 files of 9 discs, searches of at most 3 fragments, 30 orderings, 200 steps, 2 headers permuted, one lost file. `JsReader`: 11 bytes in blocks of 2, cache of 3 blocks, reads of 1, 2 or 7 bytes, at most 4 touching calls, streak up to 2 | 911,215 | the search finds the sets a reference finds, every file is accounted for once but where an early report hides a namesake, splits are genuine, those that are unambiguous are found, verified GOD folders open with each file in its place; cached bytes are right, no short read before the end, blocks passed by a running read stay, fetches respect the cap, eviction goes by recency |
| `Session` | 16 sources, 8 claims about their format, 16 sets of options, 2 planning units, one failed read a call | 126,877 | a handle answers as a fresh source whatever was asked before, a transferred profile is consistent, a generator that ends has delivered everything |
| `CisoSplitsDisagree` | as `Ciso` | | **violated**: the sizing pass tests the split after alignment padding, the streaming pass before, so a sector lands in another part than the index says |
| `CisoSplitUnreadable` | as `Ciso` | | **violated**: a split image is not read like the same image in one part, though both passes cut it alike: the last sector of a part is refused |
| `SplitClaimsTwice` | the batches of `Detection` | | **violated**: with two files of one name the file a split is made of is not the file removed, and a second split is made of it |

**Why the bounds are enough.** The sizes keep the ratios that make cases differ,
not the real magnitudes. In `Cci` a part takes one to three slots before
it outgrows the split point, five sectors make up to three parts, and a
chunk of 5 bytes cuts headers and indices while one of 64 takes everything in
one call. In `Ciso` two of the lengths are unaligned, the first part
carries the header and the later ones do not, and both multi-part and
single-part images occur. In `God` the last block, subpart and file are
each full and not full, and a third file has a predecessor with a predecessor.
In `Detection` the longest read needs more blocks than the cache holds, and the
end of the source cuts a block. In `XisoWriter` regions end within, at and
between sectors, redump and other sizes occur, the search ends before the image
does, and an image takes one to three split files. In `Stfs` every number of
blocks occurs up to a full third level, so that each table, group and level is
full, not full and just begun; three entries a table keep the distances of
tables apart that the code's formulas add up. In `Zar` a listing fills no
block, part of one, one exactly and several records; files begin and end within
blocks, an offset needs its high half, and a chunk of 5 bytes ends within a
block's output while one of 90 takes the whole archive. In `Extracted` each
root offset, and a file of no, part of a, one and several chunks occur. In
`Detection` a cut lies before, inside and behind a directory table and an
executable, and there are twins, strangers, both orders in which two headers may
have to claim, and repeated names, also of an image reported early. The cache and
the detection share no state and a probe is one step, so that one rests in an
initial state while the other runs: the run is the sum of the two; batches of three headers are beyond
`MaxPermutedHeaders` and are resolved in one pass. `Session` has a source for
every branch of the conversions and meets every call before and after every
other. Throws are bounded by `MaxFailures` (`MaxThrows` in `Zar`), since a throw leaves only what the
throw before left. `Extracted` does not check for deadlock: its driver stops
when the session is done and there may be no view to read from.

## 4. Fairness

The driver in `src/npm/src/session.ts` (`chunksFromSession`, and
`hashNextPart()` in a loop before it) calls again as long as `isDone()` is
false, and a call runs through its loop without waiting for anyone. That
justifies weak fairness of the driver's calls, and nothing else is assumed:
`Call` in the `FairSpec` of `Cci`, `Ciso` and `God` and in the `SmallSpec` of
`XisoWriter`, the writer's call in `Stfs` and `Zar`, `OpenSource`,
`OpenSession` and `NextChunk` in `Extracted`. Failures are never fair:
JavaScript need not throw, and need not stop throwing except that
`MaxFailures` (`MaxThrows` in `Zar`) bounds the throws where a call can be repeated. Reading a package
back is not fair either. Progress is a part of `ImplementsPartStream` (as
`LiveSpec`) for CISO, GOD, XISO, STFS and Extracted, and `EventuallyDone` for CCI
and ZAR. `JsReader`, `SplitDetect` and `Session` have no liveness property: they
answer calls, nothing has to follow.

## 5. What is proved

Each proof module extends the modules of its component and proves, for every
value of the constants, that is, for images of any length, any sizes of
sectors, blocks, parts and chunks, and any number of failures:

| Module | Theorem | Statement |
|---|---|---|
| `CciProofs` | `Invariant` | `Spec => []IInv` |
| | `TypeCorrect` | `Spec => []TypeOK` |
| | `PartsPartition` | `Spec => []PartsPartitionImage` |
| | `PartsReadable` | `Spec => []EveryPartReadable` |
| | `PartsBounded` | `Spec => []PartsStayBounded` |
| | `IndexFinds` | `Spec => []IndexFindsEverySector` |
| | `KeepsManifest` | `Spec => []ManifestKept`: sizes handed over never exceed the manifest and meet it at the end |
| | `Refines` | `Spec => ImplementsPartStream` |
| | `ReaderReads` | `Spec => []ReaderReadsImage` |
| `CisoProofs` | `Invariant` | `Spec => []IInv` |
| | `SessionIsSound` | `Spec => []SessionSound` |
| | `ReaderFinds` | `Spec => []ReaderFindsSectors` |
| | `Refines` | `Spec => Stream!Spec` |
| `GodProofs` | `Invariant` | `Spec => []IInv` |
| | `PackageIsSound` | `Spec => []PackageSound` |
| | `ReaderFinds` | `Spec => []ReaderFindsEverySector` |
| | `Refines` | `Spec => Stream!Spec` |
| `XisoWriterProofs` | `Invariant` | `Spec => []IInv` |
| | `PlansAreSound` | `Spec => []PlanSound` |
| | `InPlace` | `Spec => []SectorsLandInPlace` |
| | `Refines` | `Spec => Stream!Spec` |
| `StfsProofs` | `Invariant` | `Spec => []IInv` |
| | `LengthIsTrue` | `Spec => []ShortExactlyIfThrown` |
| | `PackageIsSound` | `Spec => []PackageSound` |
| | `ContentSurvives` | `Spec => []ContentRoundTrips` |
| | `Refines` | `Spec => Stream!Spec` |
| `ExtractedProofs` | `Invariant` | `Spec => []IInv` |
| | `SessionIsSound` | `Spec => []SessionSound` |
| | `StreamsParts` | `Spec => Driver!Spec` |
| | `ViewsFiles` | `Spec => ImplementsFileStore` |
| | `WalkComplete` | `IsImage(image)` implies `WalkIsComplete` |
| | `TreesWhole` | `Spec => []TreesAreWhole` |
| `ExtractedProofs`, JS reader | `CacheInvariant` | `ReaderSpec => []CacheInv` |
| | `Sound` | `ReaderSpec => []CacheSound` |
| | `CapRespected` | `ReaderSpec => FetchesRespectCap` |
| | `EvictionByReads` | `ReaderSpec => HotBlocksStay` |
| `SourceProofs`, sessions | `Invariant` | `Spec => []IInv` |
| | `Transparent` | `Spec => []HandleIsTransparent` |
| | `Transfers` | `Spec => []TransferIsConsistent` |
| | `GeneratorDelivers` | `Spec => []GeneratorDeliversAll` |
| `SourceProofs`, ZAR | `ZarInvariant` | `ZarSpec => []ZarInv` |
| | `ArchiveIsSound` | `ZarSpec => []ArchiveSound` |
| | `DirectoryComesBack` | `ZarSpec => []DirectoryRoundTrips` |
| | `ReadsTheSource` | `ZarSpec => ImplementsFileStore` |

`Stream!Spec`, in `ExtractedWriter` `Driver!Spec`, is `PartStream` under the
refinement mapping of the writer. It is the safety part of the property
`ImplementsPartStream` of the runs, which for CISO, GOD, XISO, STFS and Extracted
also has progress. `ImplementsFileStore` has no such part and is proved whole.
`ContentRoundTrips` is about listings in which no file is named like another or lies
below one (`Apart`), as in a real directory or image; of others `build_tree` leaves
one file out (§7). `MCStfs` has listings of both kinds.

`CommonLemmas` has what several proofs need and the library does not: least and
greatest elements, division by a size, counts and ranks, sequences and what appending, joining and
cutting makes of them, and the folds of the community modules, for which a run
is shown to exist: a function from 0 .. n whose k-th value is the fold of the
first k elements. A claim about a fold is then an induction along its run.
Induction over the naturals is done by the least-element principle on the set
of the numbers for which a claim fails.

### Assumptions

They are assumptions on constants, each named in the module that declares
them, and TLC evaluates each for its instance.

| Assumption | Beyond types | Why the code justifies it |
|---|---|---|
| `CciAssumption` | sector and header are multiples of the alignment, a sector is longer than a length prefix and an alignment, a header lies before the split point | constants of `cci/format.rs` |
| `IndexFits` | split point plus one sector is within the 31-bit positions | the same |
| `CisoAssumption` | sector, header and index entry are multiples of the alignment; stored lengths are 1 to a sector; header, index, and a sector with its padding lie before the split point | constants of `ciso/format.rs`; the index of the longest disc is some 15 MB of the 4 GB |
| `WordAssumption` | the longest part with all its padding fits into 32 bits | the same |
| `GodAssumption`, `SectorAssumption`, `JsReaderAssumption`, `XisoAssumption`, `BoundsAssumption` | nothing | |
| `LayoutAssumption` | a table has more than one entry and one or two copies | `EntriesPerTable` is 0xAA, `1 << sex_shift` is 1 or 2 |
| `StfsAssumption`, `ReaderAssumption` | a listing is a sequence of paths and sizes, a stored name is a name | the list a source gives |
| `ScrubAssumption` | finitely many sizes and entries; the root table lies behind the volume descriptor; the video partition of a redump does not fill it | sizes are machine words; see §7 for the root table |
| `XdvdfsAssumption` | nothing | |
| `ExtractedFsAssumption` | no path is without a component | a path is split at slashes |
| `ExtractedAssumption` | each disc is an image (`IsImage`): finitely many tables, no name twice in a table | a table is a search tree by name |
| `SplitDetectAssumption` | `NameRank` tells the names of a batch apart | names are compared as strings |
| `ZarLayoutAssumption` | names are not empty and decode to a safe component; no two lower-case names have the same place in the byte order | `insert_path()` drops empty components; loose files and packages are refused for what `is_safe_path_component()` refuses, names on a disc are not (§7); bytes are compared |
| `ZarAssumption` | the bytes of a listing are fewer than 2^48 | the two words and a half that an entry has for an offset; 2^48 bytes are 256 TiB |
| `ZarReaderAssumption` | nothing | |
| `SourceAssumption`, `HeaderAssumption`, `OptionsAssumption` | only a package has a header of its own | `SourceLayer` describes sources by records; a source of another format has no STFS header to read |

### Arguments

No property but those of `Session` is inductive. The inductive invariants, `IInv` in
each module, are conjunctions of named parts; the proof that a step keeps
`IInv` has one lemma or step per action and one step under it for each part the
action can disturb. Each property then follows from `IInv`, and `Refines` from
it and one lemma per action that maps it to an action of `PartStream` or a stutter.

**CCI.** `InfosOK`: the running ends recorded for the open part are the sums of
the slots of its sectors, so that finishing it yields the right index.
`PartsOK`: a finished part describes a contiguous range of slots and begins
where the one before ended. `PlanningOK`: during the first pass the finished
parts and the open one make up the sectors sized so far; afterwards, all of the
image. `StreamOK`: what has been handed over is what the parts up to the
streaming cursor promise. For the reader, `IndexPlaces` says where in which file
each slot is, so that locating a sector yields its own slot; a range is then a
concatenation of intervals (`ReadConcats`).

**CISO.** Neither pass keeps a table of parts: the index is what ties them
together. A sector begins a part exactly if its position is below its
predecessor's, and `PartAt` counts these. `SizingOK` says that the index so far
is the layout of the image (`IndexOK`) and that each part that ended has its
size (`SizesOK`); `DoneOK` says so of all; `PlanningOK` that nothing is streamed
before; `StreamOK` that the streaming pass stands, in its part and in its file,
where the index puts its next sector, as long as it is on track (`OnTrack`).
That both passes end a part at the same sector is `CutsAgree`, which needs that
the part ended aligned; no image is excluded, what is claimed of a sector depends on
the parts before it. The reader's
difference of positions wraps around exactly at the end of a part, because a
part with its padding is shorter than a word has values.

**GOD.** The layout of an image is a function of its length: how long part p
is, how many subparts it has, which block stands where (`PartLen`, `SubCount`,
`SubLen`, `FileBlock`). `HashOK` says that the first pass has hashed the layout up
to its cursor, `PartsOK` which parts are kept for the second pass, and `StreamOK`
that the files are those of the layout before, within or behind the
part being streamed (`FilesBefore`, `FilesAt`, `FilesDone`). `PackageSound` is then
a statement about the layout; that the header's count of blocks is the sum over the
files is an induction over the parts. The reader's `remap_sector` inverts the
layout (`RemapAt`), its count exceeds the image by a block of sectors at most,
and a sector behind the image is behind the end of the last file.

**STFS.** The addresses are the core: `From(n)` is the one behind block n - 1, and
the addresses from there up to block n's are those of the tables that n opens
(`Gaps`); the addresses that the reader computes for the tables of n lie in just that
gap (`Level0InGap`, `Level1InGap`, `Level2InGap`), so that they collide with no block.
`WInv` says where the writer stands: `CursorsOK` that the physical cursor is in the
gap of the logical one, `HashOK` that the tables made so far are those of the
blocks hashed so far (`TablesAfter`), `LengthOK` how much has been handed over, and
`PlacedOK` what is at each address once handed over, unless a call has thrown. That the count of
a finished package meets the manifest is arithmetic over `BlocksBelow`.
`PackageSound` follows the reader from the header to each block through the tables
that `PlacedOK` puts in its way. `ReaderOK` says that an open reader keeps the
statuses and the listing of the package it was opened on.

`ContentSurvives` needs more. `TreeOK` says of the tree, while `BuildTree` adds
file after file: nodes have distinct paths, each lies in a directory before it,
and each file added has a node of its path; `Apart` keeps it true. Blocks are handed
out in the order of nodes, so each has one owner, and the links in the level-0
tables lead from each block to the next of its owner and end behind the last: from
an entry's first block the reader's walk meets just its blocks, and parents
lead up to the path the file was added under. `ReadingOK` then says of the
reader that its cursor (`CursorOK`) is at the start of some block of its file, or
behind the last, so that a read that goes on from it meets the same bytes as one
that walks from the first block.

**Scrub and XISO.** `PlanOK` remembers where a plan comes from, `SearchOK` that
the search for the security sectors has missed no run and that the current one
goes back to its first candidate, `WrittenOK` how many sectors each split file
holds. That `scan()` marks exactly the sectors with a needed byte is proved apart,
about the rounding of byte ranges to sectors.

**JS reader.** `CallOK` says how far a running call has come: resident blocks of
its range are shielded from eviction. `TicksAreReads` says that the ticks the
code evicts by are those of the reads callers saw succeed. The two facts about
eviction rest on a counting argument: the number of colder candidates is a rank
that no two candidates share, so evicting the ranks below n evicts
exactly n blocks, and the coldest ones.

**Session.** `HandleOK`: a handle is the source just opened, or keeps a probe in
which no read failed. `SessionOK`: a session is an answer to the call that made
it. `StreamOK`: what was delivered is all before the cursor, unless a read failed
in one of the two writers that go on after it. `HandleIsTransparent` then follows from
comparing each call on a handle with the same call on the source opened for it,
fault by fault.

**Extracted.** The walk over directory tables is a fold over the regions still
to visit. Its invariant pairs each entry listed with the node of a visited table
it was made of; injectively, so that none is listed twice. The walk ends because
each turn marks a sector or takes a region off the stack, of which there are
finitely many. For the session, `SourceOK` and `FilesOK` say where its files come
from, `PlaceOK` where it stands in the file being read or patched, and `ArrivedOK`
how much of it the driver has. `RebuildReachesFiles` is about operators alone: which
prefixes of paths `read_dir()` takes for directories.

**ZAR.** `InputInv` ties the writer to the source laid end to end: the buffer is
the piece of it behind the blocks written, and together they are what has been read
so far, also after a read that threw. `BlocksInv` says that each block of the
archive is its piece, `ArchiveInv` that items lie end to end, `RecordsInv` that a
record has the lengths of its blocks, `SectionsInv` that the footer names the
places of the sections. `CompressedOffset` is then the place of the block, and reads
of a range are as for the images above.

The directory is proved apart from the state machine, for any listing. While
`InsertPath` adds path after path, the tree has a key for each node (its path in
lower case), no two alike, each a child of the node of the key one shorter
(`IsPathTree`), and one file node for each file so far (`FilesHeld`); that an
insertion fails exactly on a clash needs that every prefix of a key is there.
Sorting by rank is a permutation of the children, the queue passes each node once
and lays children side by side (`IsBreadthFirst`), and offset and size survive
their split into words. The reader's listing has as its invariant (`Listing`)
that after x entries its files are the file entries among them, in order, and its
queue the directories, each spelled as its node's path; that the entries of the
next directory begin just where the last ended is what the breadth-first
order gives.

## 6. What is only model-checked

Liveness: `EventuallyDone`, and progress in `ImplementsPartStream`, are out of the
proof system's reach. So is what a recursion over data computes for every input:
`SubsetSearch` is recursive, and with it nothing in `SplitDetect` can be proved;
the five properties of `SplitDetect` in `Detection` are checked on its instance and
not proved. All other safety properties of the passing runs are proved.

## 7. What is not modelled, and remarks

Not modelled because a state machine adds nothing: parsing executables,
signing, profile encryption, textures and thumbnails, the generated game list,
naming and number helpers: pure functions from bytes to bytes. Their correctness
is byte layout and cryptography, and the repository tests them with fixtures.
Not modelled in the JS reader: the setter of the sequential window and readers
with a base offset. Left out of the session: the deserialisation of options,
except for fields of a wrong length.

Abstracted in the modelled parts: LZ4, zstd and SHA-1 (a length, and a function
without collisions), file names (numbers or model values with a case folding),
the bytes of headers, the binary tree inside a directory table, integer
widths except where a property is about them, and memory.

Things met while modelling that no run is about. CCI, CISO, GOD, XISO:

- `ciso/write.rs:437`: if a part ends unaligned, the next may begin with alignment
  padding its index does not count. `ciso/write.rs:348`: the end of an unaligned last
  sector is rounded down in the index, so the reader gets it cut short.
  `ciso/read.rs:165`: the length of a part's last sector is a difference
  of positions in two files and wraps (`CisoSplitUnreadable`; a debug build
  panics). `ReaderFindsSectors` promises the other sectors as far as they are
  `InStep`, and nothing of those behind a part that ended unaligned. A doc near
  `ciso/read.rs:105` says that positions are validated not to go down; nothing
  validates that, and `PartBoundaries` relies on their going down.
- `god/read.rs:64` counts the hash table of a last subpart that is not full as
  data. `ReaderFindsEverySector` says that the sectors in excess are refused.
- `scrub.rs:222`: a partial scrub behind a root offset adds the offset twice; the
  search overshoots the image or finds another run.
- `cci/write.rs:263-265` calls the cap on a part's size what `FILE_SPLIT_POINT`
  is; a part may exceed that point by one slot and its index, which is what
  `PartsStayBounded` bounds.
- `XisoMode::Zero` (`xiso/write.rs:33-35`) is documented to trim Xbox 360
  images; the code passes them through at full size, as its own comment at
  193-195 says. `xiso/write.rs:188-191` explains a `div_ceil` by a trailing
  partial sector; `source.total_sectors()` has rounded down before
  (`xiso/read.rs:61`), so the partial sector is dropped, and a file that ends in
  it cannot be read to its end.
- `used_sectors` has the volume descriptor, `max_end` does not. A trimmed image
  whose files and tables all lie before sector 0x20 would lose its descriptor;
  `ScrubAssumption` rules it out (every known authoring tool puts the root table
  behind it).

STFS, ZAR, Extracted:

- `stfs/read.rs:440` looks up the status of a level-0 table of a large package
  by `block_num % 0xAA`, the index of the block in that table; the index of the
  table is `block_num / 0xAA % 0xAA`. The packages written here have no second
  active copies, so every status leads to the first copy.
- `read_file_range` (`stfs/read.rs:651-659`) fails for an empty range at the end
  of a file of whole blocks; `ReadsReturnTheFile` says so. No caller asks.
- `stfs/write.rs:1082-1084` cuts a name at 0x28 bytes without a word: files or
  directories whose names begin alike are listed under one path. A name that is not
  safe is written and makes `open()` refuse the package. Of a path given twice, or
  a file where another needs a directory, `build_tree` leaves one out.
- `next_chunk` of an STFS session that has thrown goes on without the block or
  header it was making (`stfs/write.rs:1168`, `1174`), and `is_done()` becomes
  true all the same; `ShortExactlyIfThrown` says that the size then gives it away.
- ZAR: a directory keeps the case of its first mention; names that cannot be
  encoded become `?` and may then collide; empty directories do not survive; the
  hash in the footer is written and never checked.
- ZAR of an image: nothing checks the names of directory entries, so a disc with an
  entry named `..`, or with a `\` in a name, makes an archive that the reader refuses
  (`zar/read.rs:91`). `ZarLayoutAssumption` leaves such discs out: the naming rules of the console allow neither.
- `validate_names` accepts a file `a` next to `a/b`; `ends_with` takes
  `mydefault.xbe` for the launch executable, which the doc near
  `extracted.rs:71` does not say; over a packed container (CCI, CISO, GOD) with a
  root offset other than zero a session reads the wrong place (`ciso/read.rs:93-95`,
  `source.rs:38-41`), so `FilesArriveWhole` claims bytes only if `StoredAtRoot`;
  nothing checks that a package lists a path once, and both files then come under
  that name, in turn, which a consumer keyed by name appends; `locate_in` relies on `binary_search`
  landing behind the last of equal ends (parts of no bytes).

Split detection:

- `raw_split.rs:39`: orderings of the same names collapse to the first, though
  `entry.rs:99` and `batch.rs:97` speak of distinct orderings. `raw_split.rs:34`
  says "falls back", but sums of at least the target are always searched.
  Winners are compared by lower-case name (`raw_split.rs:100`).
- `batch.rs:505-518` keeps what was reported as a set of names: a disc of a set that
  is returned alone is dropped if a complete image of its name was reported early.
  `AccountedForOnce` excepts just this (`MayHide`). A `MultiDiscSet` is documented to have distinct media ids; they
  are not compared. A set of GOD discs is named by the first file alone.
- `probe.rs:88` says that I/O errors are returned; any error becomes "not
  XDVDFS", which is why a lost file ends as unresolved, not as an error.

Source layer and sessions:

- `GeneratorDeliversAll` excepts CISO and STFS sessions in which a read failed:
  these go on with what they had begun. A driver that resumes after a failed CISO
  read is in no run of `Ciso`. `GodFoldersOpenInPlace` is about folders that were
  verified; a folder opened directly is not checked for a missing part
  (`source.rs:813`).

- A folder without an executable converted to STFS without a content type
  becomes a game on demand with title 0, though `lib.rs:388-390` speaks of a hard
  error; an image without one cannot become STFS even with an explicit title.
- A failed read of an executable counts as none: title 0, which is listed as
  "Retroarch". `HandleIsTransparent` names this exception.
- `transfer.rs:13` finds the account without regard to case, the override asks
  for its exact name: a package with `account` cannot be transferred; one with
  both has the first read and the other replaced.
- A header type that is not recognised yields to the type of the executable,
  though the doc puts the header first; a GOD header's type counts for inspection
  but not for a conversion to STFS. Licenses are lost in unsigned packages, and
  thumbnails are never copied.
- An executable that does not parse makes the inspection of content that cannot
  boot throw, while its conversion works.
- A ZAR whose first block is stored raw and begins with the magic of another
  format is detected as that format.
- `src/npm/src/session.ts:26-27` says `currentEntryName()` is null for god
  sessions; the Rust session returns a name, and splitting relies on it. A handle is
  consumed even if `openConversionSession` throws.

## 8. Plan

All components with state are modelled, and the safety properties of all but one
are proved. What is left:

1. **Split detection**: a search for subsets without recursion, equal to the
   code's, would bring `SubsetsMatchReference` and what rests on it within reach.
2. **Composition**: `Session` has its targets as pieces; putting `PartStream` in
   their place would join the theorems of the writers with `GeneratorDelivers`.
