----------------------------- MODULE MCGodReader -----------------------------
(***************************************************************************)
(* Small sizes for GodWriter and GodReader: blocks of two sectors, three   *)
(* blocks to a subpart and two subparts to a Data file, so images of up to *)
(* 27 sectors fill up to three files, the last block, subpart or file of   *)
(* which may or may not be full; up to three calls throw.                  *)
(***************************************************************************)
EXTENDS GodReader
=============================================================================
