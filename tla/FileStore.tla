----------------------------- MODULE FileStore ------------------------------
(***************************************************************************)
(* What every view of packaged files promises its callers (file_entries()  *)
(* and read_file_range() of src/crate/src/core/extracted_fs.rs and of the  *)
(* ZAR and STFS readers): the files are listed when the view is opened, and*)
(* a read of a range of one of them returns exactly those bytes or an      *)
(* error.  What was read before, or failed to be, makes no difference.     *)
(* Only a whole file can be replaced, by one of the same size.             *)
(***************************************************************************)
EXTENDS Integers, Sequences

VARIABLES
  store,     \* the bytes of every file; empty until the view is open
  answer     \* of the last read: the range, and the bytes or an error

vars == <<store, answer>>

NoAnswer == [file |-> 0, offset |-> 0, len |-> 0, ok |-> FALSE, bytes |-> <<>>]

Init == store = <<>> /\ answer = NoAnswer

\* A view never changes once it is open.
Open == store = <<>> /\ store' \in Seq(Seq(Int)) /\ answer' = NoAnswer

InRange(file, offset, len) == file \in DOMAIN store /\ offset + len <= Len(store[file])

Answered(a) ==
  a.ok => /\ InRange(a.file, a.offset, a.len)
          /\ a.bytes = SubSeq(store[a.file], a.offset + 1, a.offset + a.len)

\* An error is always allowed: the source may throw.
Read == Answered(answer') /\ UNCHANGED store

\* The other files and the size stay.
Replace ==
  /\ store' \in [DOMAIN store -> Seq(Int)]
  /\ \E file \in DOMAIN store :
       /\ Len(store'[file]) = Len(store[file])
       /\ \A other \in DOMAIN store \ {file} : store'[other] = store[other]
  /\ UNCHANGED answer

Next == Open \/ Read \/ Replace

Spec == Init /\ [][Next]_vars
=============================================================================
