----------------------------- MODULE MCCciReader -----------------------------
(***************************************************************************)
(* Small sizes for CciWriter and CciReader.  Slots are 4, 8 or 16 bytes    *)
(* (16 is a sector stored raw), the header 8; a part is full past 20       *)
(* bytes, so images of five sectors are cut into two to five parts at      *)
(* every possible place.                                                   *)
(***************************************************************************)
EXTENDS CciReader

MCLz4Lens == {3, 5, 9}
MCChunkLimits == {5, 64}
=============================================================================
