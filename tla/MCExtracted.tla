---------------------------- MODULE MCExtracted -----------------------------
(***************************************************************************)
(* Small discs and listings for ExtractedWriter: sectors of 2 bytes, and   *)
(* volumes that begin at byte 0, 4, 8 or 12.                               *)
(***************************************************************************)
EXTENDS ExtractedWriter, TLC

MCRootOffset == [Xsf |-> 0, Xgd3 |-> 4, Xgd2 |-> 8, Xgd1 |-> 12]
MCLower == [n \in {"a", "b", "c", "", "..", "default.xbe", "Default.xbe", "mydefault.xbe",
                   "default.xex", "$SYSTEMUPDATE"} |-> IF n = "Default.xbe" THEN "default.xbe" ELSE n]

FileNode(name, sector, size) ==
  [name |-> name, is_directory |-> FALSE, sector |-> sector, size |-> size]
DirNode(name, sector) == [name |-> name, is_directory |-> TRUE, sector |-> sector, size |-> 2]
EmptyDir(name, sector) == [name |-> name, is_directory |-> TRUE, sector |-> sector, size |-> 0]

Disc(container, magics, length, tables) ==
  [container |-> container, magics |-> magics, length |-> length,
   root |-> [sector |-> 1, size |-> 2], tables |-> tables]

\* An update directory and an executable; tables that form a loop, behind a
\* video partition and packed.
Update == (1 :> <<FileNode("default.xbe", 2, 3), DirNode("$SYSTEMUPDATE", 4), EmptyDir("c", 9)>>)
            @@ (4 :> <<FileNode("a", 3, 1)>>)
Loop == (1 :> <<DirNode("a", 4), FileNode("mydefault.xbe", 2, 3)>>)
          @@ (4 :> <<DirNode("b", 1), FileNode("c", 3, 1), FileNode("a", 9, 0)>>)
\* Two directories that share a table.
Shared == (1 :> <<DirNode("a", 2), DirNode("b", 2)>>)
            @@ (2 :> <<FileNode("c", 3, 4), DirNode("a", 4)>>)
            @@ (4 :> <<FileNode("default.xex", 0, 1)>>)
\* A table beyond the end, and a file that ends in a partial sector.
Beyond == (1 :> <<DirNode("a", 5), FileNode("b", 2, 1)>>) @@ (5 :> <<>>)
Partial == 1 :> <<FileNode("b", 2, 2), FileNode("a", 4, 1)>>

MCImages ==
  {Disc("raw", {"Xsf"}, 10, Update), Disc("raw", {"Xgd2"}, 18, Loop),
   Disc("raw", {"Xgd1", "Xgd3"}, 22, Update),
   Disc("packed", {"Xsf"}, 10, Loop), Disc("packed", {"Xsf"}, 10, Shared),
   Disc("raw", {"Xsf"}, 8, Beyond), Disc("raw", {"Xsf"}, 9, Partial),
   Disc("raw", {}, 10, Update), Disc("raw", {"Xgd2"}, 8, Update),
   [Disc("packed", {"Xsf"}, 4, 1 :> <<>>) EXCEPT !.root.size = 0],
   \* Packed with the video partition in front.
   Disc("packed", {"Xgd2"}, 18, Update)}

Listed(path, size) == [lead |-> FALSE, path |-> path, size |-> size]
Leading(path, size) == [lead |-> TRUE, path |-> path, size |-> size]

MCLoose ==
  {<<>>, <<Listed(<<"">>, 1)>>, <<Listed(<<"a", "..">>, 1)>>,
   <<Listed(<<"a">>, 1), Leading(<<"a">>, 1)>>,
   <<Listed(<<"$SYSTEMUPDATE", "a">>, 1), Leading(<<"default.xbe">>, 3), Listed(<<"a", "b">>, 2)>>,
   <<Listed(<<"a">>, 1), Listed(<<"a", "b">>, 2), Listed(<<"b", "c">>, 0)>>,
   <<Listed(<<"Default.xbe">>, 1), Listed(<<"a", "default.xex">>, 1), Listed(<<"default.xbe">>, 2)>>}

MCPackages ==
  {<<>>,
   <<Listed(<<"a", "b">>, 2), Listed(<<"a", "c">>, 1), Listed(<<"default.xex">>, 2)>>,
   <<Listed(<<"$SYSTEMUPDATE">>, 1), Listed(<<"mydefault.xbe">>, 2), Listed(<<"a">>, 3)>>,
   \* Paths that are listed twice.
   <<Listed(<<"a", "b">>, 2), Listed(<<"a", "b">>, 1), Listed(<<"default.xbe">>, 2),
     Listed(<<"default.xbe">>, 2)>>}

MCPaths == {<<"a", "b">>, <<"default.xbe">>}
MCRanges == {<<0, 2>>, <<1, 3>>}
=============================================================================
