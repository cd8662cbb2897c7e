----------------------------- MODULE PartStream -----------------------------
(***************************************************************************)
(* What every multi-file conversion session promises the JavaScript driver *)
(* (src/crate/src/session.rs, trait ChunkSource): an optional planning     *)
(* pass, then one manifest of output files and their sizes, then the bytes *)
(* of those files, file after file, until exactly the promised bytes have  *)
(* been handed over.  Formats differ in how they plan and in what they     *)
(* emit; the writer modules of this project are shown to implement this    *)
(* specification under a refinement mapping.                               *)
(***************************************************************************)
EXTENDS Integers, Sequences

VARIABLES
  phase,      \* "planning", "streaming", "done" or "failed"
  manifest,   \* output_manifest(): the promised size of each output file
  written     \* bytes handed over so far for each output file

vars == <<phase, manifest, written>>

TypeOK ==
  /\ phase \in {"planning", "streaming", "done", "failed"}
  /\ manifest \in Seq(Nat)
  /\ written \in Seq(Nat)

Init ==
  /\ phase = "planning"
  /\ manifest = <<>>
  /\ written = <<>>

\* Every file holds exactly the bytes the manifest promised for it.
Complete == written = manifest

\* hash_next_part() returns true: the manifest becomes known and is final.
\* A session that promises nothing is done at once.
Publish ==
  /\ phase = "planning"
  /\ phase' \in {"streaming", "done"}
  /\ phase' = "done" => Complete'
  /\ manifest' \in Seq(Nat)
  /\ written' = [p \in DOMAIN manifest' |-> 0]

(***************************************************************************)
(* next_chunk() hands over the next bytes of file p.  Files are written    *)
(* one after the other: all earlier files are complete, no later one has   *)
(* begun, and a file never outgrows its promised size.  is_done() may      *)
(* become true only once everything promised has been handed over.         *)
(***************************************************************************)
Deliver(p) ==
  /\ phase = "streaming"
  /\ \A q \in DOMAIN manifest : q < p => written[q] = manifest[q]
  /\ \A q \in DOMAIN manifest : q > p => written[q] = 0
  /\ \E size \in written[p] .. manifest[p] :
       written' = [written EXCEPT ![p] = size]
  /\ phase' \in {"streaming", "done"}
  /\ phase' = "done" => Complete'
  /\ UNCHANGED manifest

\* A read of the source failed; the call returned an error.
Fail ==
  /\ phase \in {"planning", "streaming"}
  /\ phase' = "failed"
  /\ UNCHANGED <<manifest, written>>

Next ==
  \/ Publish
  \/ \E p \in DOMAIN manifest : Deliver(p)
  \/ Fail

Spec == Init /\ [][Next]_vars

\* The promise to a driver that keeps calling: the session comes to its end.
LiveSpec == Spec /\ <>(phase \in {"done", "failed"})
=============================================================================
