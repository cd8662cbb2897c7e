------------------------------- MODULE MCZar --------------------------------
(***************************************************************************)
(* Small sizes for ZarWriter and ZarReader: blocks of 3 bytes, two to a    *)
(* record; halves of an offset hold 4 values each, so that files beyond    *)
(* the low half occur.  "A" is "a" in upper case, "zh" and "zo" are not in *)
(* Windows-1252 and both encode to "?", and "b" is long enough for a       *)
(* header of two bytes.                                                    *)
(***************************************************************************)
EXTENDS ZarReader

MCFold == [n \in {"a", "A", "b", "zh", "zo"} |-> IF n = "A" THEN "a" ELSE n]
MCRank == [n \in {"a", "b", "zh", "zo"} |->
             CASE n = "a" -> 1 [] n = "b" -> 2 [] n = "zo" -> 3 [] n = "zh" -> 4]
MCEncoded == [n \in {"a", "A", "b", "zh", "zo"} |-> IF n \in {"zh", "zo"} THEN "?" ELSE n]
MCEncodedLen == [n \in {"a", "A", "b", "zh", "zo"} |-> IF n = "b" THEN 4 ELSE 1]

File(path, size) == [path |-> path, size |-> size]

\* Listings that are refused, and listings that are not.
Refused ==
  {<<File(<<>>, 1)>>,
   <<File(<<"a">>, 1), File(<<"A">>, 2)>>,
   <<File(<<"a">>, 1), File(<<"A", "b">>, 2)>>,
   <<File(<<"a", "b">>, 1), File(<<"A">>, 2)>>}

Accepted ==
  {<<>>, <<File(<<"a">>, 0)>>,
   <<File(<<"b">>, 10)>>,
   <<File(<<"b">>, 3), File(<<"a">>, 2)>>,
   <<File(<<"zh">>, 2), File(<<"zo">>, 1)>>,
   <<File(<<"b", "b">>, 4), File(<<"A", "a">>, 1), File(<<"a", "b">>, 0), File(<<"zo">>, 2)>>,
   <<File(<<"b", "zh", "b">>, 2), File(<<"a", "b">>, 1), File(<<"b", "a">>, 3)>>,
   <<File(<<"zh">>, 5), File(<<"b", "a">>, 7), File(<<"A">>, 1)>>}

MCListings == Refused \cup Accepted
=============================================================================
