------------------------------ MODULE MCSplits ------------------------------
(***************************************************************************)
(* Batches of small files: sectors of 2 bytes, volumes that begin at byte  *)
(* 0 or 4, and cuts before, inside and behind directory tables and         *)
(* executables.                                                            *)
(***************************************************************************)
EXTENDS SplitDetect

MCRootOffset == [Xsf |-> 0, Xgd3 |-> 4, Xgd2 |-> 40, Xgd1 |-> 60]

MCExtensionOf ==
  [n \in {"default.xbe", "b.dll", "c", "d"} |->
     CASE n = "default.xbe" -> "xbe" [] n = "b.dll" -> "dll" [] n \in {"c", "d"} -> "none"]

FileNode(name, sector, size) ==
  [name |-> name, is_directory |-> FALSE, sector |-> sector, size |-> size]
DirNode(name, sector) == [name |-> name, is_directory |-> TRUE, sector |-> sector, size |-> 2]

Title(id, count, number) == [id |-> id, disc_count |-> count, disc_number |-> number]
Xbe == [kind |-> "xbe", header |-> 2]
Dll == [kind |-> "dll", header |-> 1]

Disc(magic, length, tables, exes, title) ==
  [magics |-> {magic}, length |-> length, root |-> [sector |-> 1, size |-> 2],
   tables |-> tables, exes |-> exes, title |-> title, read_from |-> {}]

\* An executable in the first part, a table and a library behind.
Tree == (1 :> <<FileNode("default.xbe", 2, 2), DirNode("d", 3)>>)
          @@ (3 :> <<FileNode("b.dll", 4, 2), FileNode("c", 5, 1)>>)
\* Nothing to check behind the first part.
Plain == 1 :> <<FileNode("default.xbe", 2, 2), FileNode("c", 3, 4)>>
Short == 1 :> <<FileNode("default.xbe", 2, 2)>>

Folder(title) ==
  [magics |-> {}, length |-> 0, root |-> [sector |-> 0, size |-> 0], tables |-> <<>>,
   exes |-> <<>>, title |-> title, read_from |-> {1}]

MCDiscs ==
  [tree |-> Disc("Xsf", 11, Tree, (4 :> Xbe) @@ (8 :> Dll), Title("A", 1, 1)),
   twin |-> Disc("Xsf", 11, Tree, (4 :> Xbe) @@ (8 :> Dll), Title("B", 1, 1)),
   plain |-> Disc("Xsf", 10, Plain, 4 :> Xbe, Title("C", 1, 1)),
   shifted |-> Disc("Xgd3", 15, Tree, (8 :> Xbe) @@ (12 :> Dll), Title("D", 1, 1)),
   one |-> Disc("Xsf", 6, Short, 4 :> Xbe, Title("S", 2, 1)),
   two |-> Disc("Xsf", 6, Short, 4 :> Xbe, Title("S", 2, 2)),
   god1 |-> Folder(Title("G", 2, 1)),
   god2 |-> Folder(Title("G", 2, 2)),
   junk |-> [Folder(NoTitle) EXCEPT !.read_from = {}]]

Part(name, disc, from, size) ==
  [name |-> name, dir |-> "", index |-> 0, kind |-> "xiso", ext |-> "none", stem |-> "", half |-> 0,
   size |-> size, disc |-> disc, from |-> from, lost |-> FALSE]

Data(dir, index) ==
  [Part(dir, dir, index, 1) EXCEPT !.name = dir \o "/Data" \o ToString(index), !.dir = dir, !.index = index]

Half(half) ==
  [Part("pair." \o ToString(half), "junk", 0, 2) EXCEPT !.kind = IF half = 1 THEN "ciso" ELSE "xiso",
                                             !.stem = "pair", !.half = half]

Cut(disc, at, length) ==
  <<Part(disc \o ".1", disc, 0, at), Part(disc \o ".2", disc, at, length - at)>>

\* The names in their order.
Sorted ==
  <<"again", "e", "god1/Data0", "god1/Data1", "god1/Data2", "god2/Data0", "god2/Data1", "p", "pair.1",
    "pair.2", "plain.1", "q", "r", "s", "shifted.1", "t", "tree.1", "tree.2", "twin.1", "u", "x", "y", "z">>
MCRank == [name \in Range(Sorted) |-> CHOOSE k \in DOMAIN Sorted : Sorted[k] = name]

Header(disc, size) == Part(disc \o ".1", disc, 0, size)
Junk(name, size) == Part(name, "junk", 0, size)

MCBatches ==
  {\* a cut in the executable's neighbourhood, an executable alone, a stranger
   Cut("tree", 6, 11) \o <<[Part("x", "tree", 4, 2) EXCEPT !.ext = "xbe"], Junk("y", 3)>>,
   \* three parts, the table in the second
   <<Part("z", "tree", 9, 2), Header("tree", 5), Part("y", "tree", 5, 4)>>,
   \* a table behind the cut, and a byte missing at the end
   <<Header("tree", 5), Part("z", "tree", 5, 5)>>,
   \* nothing to check, and a larger stranger
   <<Header("plain", 7), Part("y", "plain", 7, 3), Junk("z", 4)>>,
   \* two headers whose tails are alike in size, one tail listed twice
   <<Header("tree", 8), Part("t", "tree", 8, 3), Header("shifted", 12), Part("t", "shifted", 12, 3), Junk("t", 1)>>,
   \* twins, and a tail whose name another file has
   <<Header("tree", 8), Junk("t", 3), Header("twin", 8), Part("t", "twin", 8, 3)>>,
   \* a header that any tail completes, and one that only one tail does
   <<Header("plain", 7), Header("tree", 8), Part("t", "tree", 8, 3), Junk("u", 3)>>,
   <<Header("plain", 7), Header("tree", 8), Part("t", "tree", 8, 3)>>,
   \* twins: each completes the other
   <<Header("tree", 8), Header("twin", 8), Part("t", "tree", 8, 3), Part("u", "twin", 8, 3)>>,
   \* more headers than are permuted: names decide who claims first
   <<Header("plain", 7), Header("tree", 8), Header("shifted", 12), Part("u", "tree", 8, 3), Part("t", "shifted", 12, 3)>>,
   <<Header("twin", 8), Header("tree", 8), Header("shifted", 12), Part("t", "tree", 8, 3), Part("u", "shifted", 12, 3)>>,
   \* a set of two discs, a disc twice, images alone, other formats
   <<Part("p", "one", 0, 6), Part("q", "two", 0, 6), Part("r", "tree", 0, 11), Half(1), Half(2)>>,
   <<Half(2), Part("p", "one", 0, 6), Part("q", "one", 0, 7), Half(1), Junk("e", 0)>>,
   \* images of one name: an image alone and discs of a set
   <<Part("p", "one", 0, 6), Part("p", "tree", 0, 11)>>,
   <<Part("p", "tree", 0, 11), Part("p", "two", 0, 6), Part("p", "one", 0, 6), Part("p", "twin", 0, 11)>>,
   \* folders: whole, alone, with a gap, with two files of one number
   <<Data("god1", 1), Data("god2", 0), Data("god1", 0), Data("god2", 1), Part("p", "one", 0, 6)>>,
   <<Data("god1", 1), Junk("s", 1)>>,
   <<Data("god1", 0), Data("god2", 0), Data("god1", 2), [Data("god1", 2) EXCEPT !.name = "again"]>>}
=============================================================================
