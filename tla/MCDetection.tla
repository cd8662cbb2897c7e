---------------------------- MODULE MCDetection -----------------------------
(***************************************************************************)
(* Split detection and the reader that files are probed through, explored  *)
(* side by side: the two keep no state in common, and a probe is atomic in *)
(* SplitDetect, so the one rests in an initial state while the other runs. *)
(*                                                                         *)
(* For JsReader: a source of six blocks of two bytes, the last one short,  *)
(* a cap of three resident blocks, and reads of one byte, of two (which    *)
(* may cross a block border) and of seven (four or five blocks, more than  *)
(* the cap).  The batches of SplitDetect are those of MCSplits.            *)
(***************************************************************************)
EXTENDS MCSplits, JsReader

MCLengths == {1, 2, 7}

\* One of SplitDetect's initial states is where it rests.
DetectionRests ==
  /\ Init
  /\ call.op = "entry"
  /\ files = CHOOSE batch \in Batches : TRUE

DetectionInit == Init /\ ReaderInit

DetectionNext ==
  \/ ReaderInit /\ Next /\ UNCHANGED readerVars
  \/ DetectionRests /\ ReaderNext /\ UNCHANGED vars

DetectionSpec == DetectionInit /\ [][DetectionNext]_<<vars, readerVars>>
=============================================================================
