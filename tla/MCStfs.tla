------------------------------- MODULE MCStfs -------------------------------
(***************************************************************************)
(* Small sizes for StfsWriter and StfsReader: tables of three entries, so  *)
(* that packages of up to 3, 9 and 27 blocks have one, two and three       *)
(* levels; file tables of two entries a block; blocks of two bytes.        *)
(***************************************************************************)
EXTENDS StfsReader

\* Two names that are too long and begin alike; one that is not safe, and one
\* that is safe once it is cut.
Long == {"long", "long1", "long2", "long\\"}
MCNames == {"a", "b", "c", "d", "e", ".."} \cup Long
MCStoredName == [name \in MCNames |-> IF name \in Long THEN "long" ELSE name]
MCSafeNames == MCNames \ {"..", "long\\"}

File(path, size) == [path |-> path, size |-> size]

\* One file, for packages of 2 to 28 blocks, the last of them too large.
OneFile == {<<File(<<"a">>, size)>> : size \in {0} \cup {2 * b - 1 : b \in 1 .. 27} \cup {4, 52}}

\* Directories, and file tables of one to four blocks.
Trees ==
  {<<>>, <<File(<<>>, 1)>>,
   <<File(<<"d", "a">>, 2), File(<<"d", "b">>, 3)>>,
   <<File(<<"d", "e", "a">>, 1), File(<<"b">>, 0), File(<<"d", "c">>, 5)>>,
   <<File(<<"a">>, 4), File(<<"d", "a">>, 6), File(<<"d", "d", "a">>, 2),
     File(<<"d", "d", "b">>, 1), File(<<"b">>, 3)>>,
   <<File(<<"d", "a">>, 3), File(<<"b">>, 21), File(<<"d", "c">>, 7)>>}

\* Files and directories that are stored under one name, names that are not
\* safe, a path twice, and a file where another needs a directory.
Odd ==
  {<<File(<<"long1", "a">>, 2), File(<<"long2", "a">>, 3), File(<<"long2", "long\\">>, 1)>>,
   <<File(<<"long1">>, 3), File(<<"long2">>, 5)>>,
   <<File(<<"a">>, 1), File(<<"..", "b">>, 2)>>,
   <<File(<<"d", "..">>, 1)>>,
   <<File(<<"a">>, 3), File(<<"a">>, 5), File(<<"b">>, 1)>>,
   <<File(<<"a">>, 3), File(<<"a", "b">>, 1)>>}

MCListings == OneFile \cup Trees \cup Odd
=============================================================================
