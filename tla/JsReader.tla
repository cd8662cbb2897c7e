------------------------------ MODULE JsReader ------------------------------
(***************************************************************************)
(* JsReader (src/crate/src/core/reader.rs): the Read + Seek view of a      *)
(* JavaScript readFn(offset, length) that every source is read through.    *)
(* In Cached mode it keeps fixed-size blocks of the source, fetches runs   *)
(* of missing blocks in one call, prefetches behind a streak of contiguous *)
(* runs and evicts the least recently touched blocks above a cap.  In      *)
(* Sequential mode it keeps a single readahead window.                     *)
(*                                                                         *)
(* A fetch is a step of its own, since it calls into JavaScript and may    *)
(* fail: the call throws, or returns fewer or more bytes than it was asked *)
(* for.  Bytes are abstracted to their offset in the source: a buffer is   *)
(* the offset of its first byte and its length.                            *)
(***************************************************************************)
EXTENDS Integers, FiniteSets, FiniteSetsExt

CONSTANTS
  Size,               \* declared size of the source
  BlockSize,          \* DEFAULT_BLOCK_SIZE
  MaxResidentBlocks,  \* MAX_RESIDENT_BLOCKS
  PrefetchBlocks,     \* MAX_STREAK_PREFETCH_BYTES in blocks
  StreakThreshold,    \* STREAK_THRESHOLD
  SeqWindow,          \* seq_window_size
  Lengths,            \* buffer lengths callers read into
  MaxTouches,         \* bound on touch_clock, so that it stays finite
  MaxStreak           \* bound on seq_streak, which failing fetches drive up

ASSUME JsReaderAssumption ==
  /\ Size \in Nat \ {0}
  /\ BlockSize \in Nat \ {0}
  /\ MaxResidentBlocks \in Nat \ {0}
  /\ PrefetchBlocks \in Nat \ {0}
  /\ StreakThreshold \in Nat \ {0}
  /\ SeqWindow \in Nat \ {0}
  /\ Lengths \subseteq Nat \ {0}
  /\ MaxTouches \in Nat
  /\ MaxStreak \in Nat

VARIABLES
  position,            \* the fields of JsReader
  mode,
  blocks,              \* resident block -> [from, len] of the bytes it holds
  last_touched,        \* block -> tick, for blocks that were touched
  touch_clock,
  last_run_end_block,  \* NoRun: None
  seq_streak,
  seq_buffer,          \* [from, len] of the readahead window
  pc,                  \* "idle", or "ensuring": inside ensure_range()
  buf_len,             \* the caller's buffer
  next_block,          \* `b` of ensure_range()
  fetched_this_call,   \* blocks the running (or last) call shields
  result,              \* outcome of the last read: how much was wanted, how
                       \* much was copied, or that it failed
  last_read            \* history: tick of the last read of each resident block

cacheVars == <<blocks, last_touched, touch_clock, last_run_end_block, seq_streak>>
callVars == <<buf_len, next_block, fetched_this_call>>
readerVars == <<position, mode, cacheVars, seq_buffer, pc, callVars, result, last_read>>

NoRun == -2   \* one before it is no block either
NoBytes == [from |-> 0, len |-> 0]
NoResult == [wanted |-> 0, got |-> 0, ok |-> TRUE]

Blocks == 0 .. (Size - 1) \div BlockSize
Smaller(a, b) == IF a <= b THEN a ELSE b

\* [domain restriction] what a HashMap keeps when the other keys are removed
Keep(f, keys) == [k \in DOMAIN f \cap keys |-> f[k]]

-----------------------------------------------------------------------------
(* ensure_range() and fetch_block_range()                                    *)

\* Bytes a read at the position wants, and the last block it touches.
Want(len) == Smaller(len, Size - position)
StartBlock == position \div BlockSize
EndBlock == (position + Want(buf_len) - 1) \div BlockSize

\* Missing blocks the running call has not come to yet; the next run of them
\* goes from the first one to the last before a resident one.
Missing == {b \in next_block .. EndBlock : b \notin DOMAIN blocks}
RunStart == Min(Missing)
RunEnd == Max({e \in RunStart .. EndBlock : RunStart .. e \subseteq Missing})

Streak == IF last_run_end_block = RunStart - 1 THEN seq_streak + 1 ELSE 1

\* A streak widens the fetch over missing blocks behind the run.
FetchLast ==
  IF Streak >= StreakThreshold
  THEN Max({e \in RunEnd .. RunEnd + PrefetchBlocks :
              RunEnd + 1 .. e \subseteq Blocks \ DOMAIN blocks})
  ELSE RunEnd

Incoming == RunStart .. FetchLast

NeedToFree == Cardinality(DOMAIN blocks) + Cardinality(Incoming) - MaxResidentBlocks

Tick(b) == IF b \in DOMAIN last_touched THEN last_touched[b] ELSE 0

\* Order of eviction: the coldest block first, ties by block index.
Colder(b, c) == Tick(b) < Tick(c) \/ (Tick(b) = Tick(c) /\ b < c)

\* Faulty: blocks this call still needs are not shielded.
AnyResidentBlock == DOMAIN blocks

Candidates == DOMAIN blocks \ fetched_this_call

\* Faulty: room is made for one block only.
EvictedForOne ==
  {b \in Candidates :
     NeedToFree > 0 /\ \A c \in Candidates : ~Colder(c, b)}

Evicted ==
  {b \in Candidates : Cardinality({c \in Candidates : Colder(c, b)}) < NeedToFree}

\* The part of the fetched bytes that belongs to block b.
Slice(b) ==
  [from |-> RunStart * BlockSize + (b - RunStart) * BlockSize,
   len |-> Smaller(BlockSize, Size - b * BlockSize)]

\* Faulty: only the blocks that were missing are stamped.
TouchMissingOnly ==
  [b \in DOMAIN last_touched \cup fetched_this_call |->
     IF b \in fetched_this_call \ DOMAIN last_touched THEN touch_clock + 1 ELSE Tick(b)]

\* Every block the call touched gets a fresh tick.
Touched ==
  [b \in DOMAIN last_touched \cup fetched_this_call |->
     IF b \in fetched_this_call THEN touch_clock + 1 ELSE Tick(b)]

-----------------------------------------------------------------------------
ReaderInit ==
  /\ position = 0
  /\ mode = "cached"
  /\ blocks = [b \in {} |-> NoBytes]
  /\ last_touched = [b \in {} |-> 0]
  /\ touch_clock = 0
  /\ last_run_end_block = NoRun
  /\ seq_streak = 0
  /\ seq_buffer = NoBytes
  /\ pc = "idle"
  /\ buf_len = 0
  /\ next_block = 0
  /\ fetched_this_call = {}
  /\ result = NoResult
  /\ last_read = [b \in {} |-> 0]

\* seek(): any position that is not negative, also beyond the end.
SeekTo(pos) ==
  /\ pc = "idle"
  /\ position' = pos
  /\ result' = NoResult
  /\ UNCHANGED <<mode, cacheVars, seq_buffer, pc, callVars, last_read>>

SeqBufferAfterSwitch(enabled) == IF enabled THEN seq_buffer ELSE NoBytes

\* set_sequential_mode(): the unused mode's buffers are dropped.
SetSequentialMode(enabled) ==
  /\ pc = "idle"
  /\ mode' = IF enabled THEN "sequential" ELSE "cached"
  /\ mode' # mode
  /\ IF enabled
     THEN /\ blocks' = Keep(blocks, {})
          /\ last_touched' = Keep(last_touched, {})
          /\ last_read' = Keep(last_read, {})
          /\ last_run_end_block' = NoRun
          /\ seq_streak' = 0
     ELSE UNCHANGED <<blocks, last_touched, last_read, last_run_end_block, seq_streak>>
  /\ seq_buffer' = SeqBufferAfterSwitch(enabled)
  /\ result' = NoResult
  /\ UNCHANGED <<position, touch_clock, pc, callVars>>

\* A read at or behind the end of the source copies nothing.
ReadAtEnd ==
  /\ pc = "idle"
  /\ position >= Size
  /\ result' = NoResult
  /\ UNCHANGED <<position, mode, cacheVars, seq_buffer, pc, callVars, last_read>>

\* read_cached() enters ensure_range(): resident blocks of the range are
\* shielded from eviction first.
ReadCached(len) ==
  /\ pc = "idle"
  /\ mode = "cached"
  /\ position < Size
  /\ touch_clock < MaxTouches
  /\ pc' = "ensuring"
  /\ buf_len' = len
  /\ next_block' = StartBlock
  /\ fetched_this_call' =
       DOMAIN blocks \cap (StartBlock .. (position + Want(len) - 1) \div BlockSize)
  /\ result' = NoResult
  /\ UNCHANGED <<position, mode, cacheVars, seq_buffer, last_read>>

\* fetch_block_range() makes room before it fetches; making room also ends
\* the streak.
MakeRoom ==
  LET kept == DOMAIN blocks \ Evicted
  IN /\ last_touched' = Keep(last_touched, kept)
     /\ seq_streak' = IF NeedToFree > 0 THEN 0 ELSE Streak
     /\ last_read' = Keep(last_read, kept)

\* The next run of missing blocks is fetched in one call of readFn.
FetchRun ==
  /\ pc = "ensuring"
  /\ Missing # {}
  /\ MakeRoom
  /\ blocks' = [b \in (DOMAIN blocks \ Evicted) \cup Incoming |->
                  IF b \in Incoming THEN Slice(b) ELSE blocks[b]]
  /\ fetched_this_call' = fetched_this_call \cup Incoming
  /\ last_run_end_block' = FetchLast
  /\ next_block' = RunEnd + 1
  /\ UNCHANGED <<position, mode, touch_clock, seq_buffer, pc, buf_len, result>>

\* readFn throws or returns too few or too many bytes: the read fails, but
\* the room has been made and the streak counted.
FetchFails ==
  /\ pc = "ensuring"
  /\ Missing # {}
  /\ Streak <= MaxStreak
  /\ MakeRoom
  /\ blocks' = Keep(blocks, DOMAIN blocks \ Evicted)
  /\ last_run_end_block' = IF NeedToFree > 0 THEN NoRun ELSE last_run_end_block
  /\ pc' = "idle"
  /\ result' = [wanted |-> Want(buf_len), got |-> 0, ok |-> FALSE]
  /\ UNCHANGED <<position, mode, touch_clock, seq_buffer, callVars>>

\* Whether the copy loop of read_cached() finds the byte at pos.
Found(pos) ==
  LET b == pos \div BlockSize
  IN pos < Size /\ b \in DOMAIN blocks /\ pos % BlockSize < blocks[b].len

\* Every block of the range is resident: stamp what was touched and copy
\* until the buffer is full, the source ends or a block is missing.
CopyOut ==
  /\ pc = "ensuring"
  /\ Missing = {}
  /\ last_touched' = Touched
  /\ touch_clock' = touch_clock + 1
  /\ LET got == Max({n \in 0 .. buf_len :
                       \A k \in 0 .. n - 1 : Found(position + k)})
     IN /\ position' = position + got
        /\ result' = [wanted |-> Want(buf_len), got |-> got, ok |-> TRUE]
  /\ last_read' = [b \in DOMAIN last_read \cup (StartBlock .. EndBlock) |->
                     IF b \in StartBlock .. EndBlock THEN touch_clock + 1
                     ELSE last_read[b]]
  /\ pc' = "idle"
  /\ UNCHANGED <<mode, blocks, last_run_end_block, seq_streak, seq_buffer, callVars>>

-----------------------------------------------------------------------------
(* Sequential mode                                                           *)

SeqBufferCovers(pos) ==
  seq_buffer.len > 0 /\ pos \in seq_buffer.from .. seq_buffer.from + seq_buffer.len - 1

\* read_sequential() copies from the window, after refilling it from the
\* position on if the position is outside it; one read never spans two windows.
ReadSequential(len) ==
  /\ pc = "idle"
  /\ mode = "sequential"
  /\ position < Size
  /\ seq_buffer' = IF SeqBufferCovers(position) THEN seq_buffer
                   ELSE [from |-> position, len |-> Smaller(Size - position, SeqWindow)]
  /\ LET left == seq_buffer'.from + seq_buffer'.len - position
         got == Smaller(Want(len), left)
     IN /\ position' = position + got
        /\ result' = [wanted |-> Want(len), got |-> got, ok |-> TRUE]
  /\ UNCHANGED <<mode, cacheVars, pc, callVars, last_read>>

\* The refill fails: the old window stays as it was.
FillFails(len) ==
  /\ pc = "idle"
  /\ mode = "sequential"
  /\ position < Size
  /\ ~SeqBufferCovers(position)
  /\ result' = [wanted |-> Want(len), got |-> 0, ok |-> FALSE]
  /\ UNCHANGED <<position, mode, cacheVars, seq_buffer, pc, callVars, last_read>>

ReaderNext ==
  \/ \E pos \in 0 .. Size + 1 : SeekTo(pos)
  \/ \E enabled \in BOOLEAN : SetSequentialMode(enabled)
  \/ \E len \in Lengths : ReadCached(len) \/ ReadSequential(len) \/ FillFails(len)
  \/ ReadAtEnd
  \/ FetchRun \/ FetchFails \/ CopyOut

ReaderSpec == ReaderInit /\ [][ReaderNext]_readerVars

-----------------------------------------------------------------------------
(* Properties                                                                *)

Extent == [from : 0 .. Size, len : 0 .. Size]

\* The reader's fields have the types the code gives them, every tick and
\* every recorded read is one of a resident block, and the buffers of the
\* mode that is not in use are empty.
ReaderTyped ==
  /\ position \in Nat
  /\ mode \in {"cached", "sequential"}
  /\ DOMAIN blocks \subseteq Blocks /\ \A b \in DOMAIN blocks : blocks[b] \in Extent
  /\ DOMAIN last_touched \subseteq DOMAIN blocks
  /\ DOMAIN last_read \subseteq DOMAIN last_touched
  /\ touch_clock \in 0 .. MaxTouches
  /\ \A b \in DOMAIN last_touched : last_touched[b] \in 1 .. touch_clock
  /\ last_run_end_block \in Blocks \cup {NoRun}
  /\ seq_streak \in Nat
  /\ seq_buffer \in Extent
  /\ pc \in {"idle", "ensuring"}
  /\ mode = "cached" => seq_buffer = NoBytes
  /\ mode = "sequential" => DOMAIN blocks = {} /\ pc = "idle"

\* Whatever was fetched, widened, evicted or failed before, a resident block
\* holds all of its own bytes of the source and nothing else.
BlocksHoldTheirBytes ==
  \A b \in DOMAIN blocks :
    blocks[b] = [from |-> b * BlockSize, len |-> Smaller(BlockSize, Size - b * BlockSize)]

\* A read that reports success before the end of the source has copied all
\* that was wanted in Cached mode and something in Sequential mode: a short
\* count never passes for the end of the file, and a read that failed can be
\* retried at the same position.
NoFalseEnd ==
  result.wanted > 0 /\ result.ok =>
    IF mode = "cached" THEN result.got = result.wanted
    ELSE result.got \in 1 .. result.wanted

\* Every block an ensuring call has passed is still resident: making room
\* for a later run never takes a block an earlier part of the call needs.
PassedBlocksStay ==
  pc = "ensuring" =>
    /\ fetched_this_call \subseteq DOMAIN blocks
    /\ StartBlock .. next_block - 1 \subseteq DOMAIN blocks

\* What holds of the cache in every state.
CacheSound == ReaderTyped /\ BlocksHoldTheirBytes /\ NoFalseEnd /\ PassedBlocksStay

\* A fetch leaves more blocks than the cap only if the running call itself
\* needs (or has prefetched) every one of them: the circuit breaker against
\* looping images holds however calls, failures and streaks are mixed.
FetchesRespectCap ==
  [][DOMAIN blocks' \ DOMAIN blocks # {} =>
       \/ Cardinality(DOMAIN blocks') <= MaxResidentBlocks
       \/ DOMAIN blocks' \subseteq fetched_this_call']_readerVars

\* Eviction goes by the reads callers have seen succeed: no block is evicted
\* that was read later than one that stays, unless the running call needs
\* the latter.
HotBlocksStay ==
  [][pc = "ensuring" =>
       \A b \in DOMAIN last_read \ DOMAIN blocks' :
         \A c \in (DOMAIN last_read \cap DOMAIN blocks') \ fetched_this_call :
           last_read[b] <= last_read[c]]_readerVars
=============================================================================
