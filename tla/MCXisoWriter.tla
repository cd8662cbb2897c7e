---------------------------- MODULE MCXisoWriter ----------------------------
(***************************************************************************)
(* Small sizes for XisoWriter and Scrub.  A sector is two bytes.  A redump *)
(* has 9 sectors, 7 without the video partition; the security sectors are  *)
(* two blank ones, searched for up to sector 5.  Entries end inside,       *)
(* at the end of and between sectors; one is empty, one is empty and       *)
(* beyond every image, one is beyond the shorter images.  All but two      *)
(* sectors are blank, which only a partial scrub looks at; only an XISO is *)
(* read behind a root offset.                                              *)
(***************************************************************************)
EXTENDS XisoWriter

MCRoots == {[sector |-> 2, size |-> 2], [sector |-> 5, size |-> 1]}

Entry(sector, size, is_directory) ==
  [sector |-> sector, size |-> size, is_directory |-> is_directory]

MCEntries ==
  {Entry(0, 1, FALSE), Entry(2, 3, FALSE), Entry(3, 0, FALSE), Entry(4, 2, TRUE),
   Entry(5, 3, FALSE), Entry(8, 2, TRUE), Entry(11, 0, FALSE)}

\* Marks matter to the search alone, and nothing of a disc to a rebuild.
SmallInit ==
  /\ Init
  /\ ~Partial => disc.marks = {}
  /\ mode = "full" => disc.entries = {}

SmallSpec == SmallInit /\ [][Next]_vars /\ WF_vars(Call)
=============================================================================
