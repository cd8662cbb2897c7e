---------------------------- MODULE MCCisoReader ----------------------------
(***************************************************************************)
(* Small sizes for CisoWriter and CisoReader.  A sector is 8 bytes and is  *)
(* stored in 2, 3, 5 or 8; 3 and 5 leave the position unaligned.  Header   *)
(* and index of an image of six sectors take 30 bytes and a part ends at   *)
(* 32, so the first part holds one sector or two, and six raw sectors make *)
(* three parts; images of one or two sectors are never cut.  A word holds  *)
(* more than the longest part, as 2^32 does.                               *)
(***************************************************************************)
EXTENDS CisoReader

MCStoredLens == {2, 3, 5, 8}
MCChunkLimits == {5, 64}
=============================================================================
