----------------------------- MODULE ZarLayout ------------------------------
(***************************************************************************)
(* The directory of a ZAR archive: how ZarSession::build() turns the list  *)
(* of files into a path tree, a name table and a file tree                 *)
(* (src/crate/src/formats/zar/write.rs), and how build_files() turns those *)
(* back into a list of files (src/crate/src/formats/zar/read.rs).          *)
(*                                                                         *)
(* A path is a sequence of names.  What the code asks of a name, its ASCII *)
(* lower case, its place in the byte order and its Windows-1252 encoding,  *)
(* is given by functions on the names.  Nodes are numbered from 1 here and *)
(* from 0 in the archive.                                                  *)
(***************************************************************************)
EXTENDS Integers, SequencesExt, FiniteSetsExt

CONSTANTS
  Fold,         \* name |-> its ASCII lower case
  Rank,         \* lower-case name |-> its place in byte order
  Encoded,      \* name |-> what its Windows-1252 bytes decode to
  EncodedLen,   \* name |-> how many bytes those are
  LongName,     \* 0x80: names at least this long have a two-byte header
  Word, Half    \* 2^32 and 2^16

NoName == "no name"

\* No name is empty, none is one is_safe_path_component() refuses, and no two
\* lower-case names have the same place in the byte order.
ASSUME ZarLayoutAssumption ==
  /\ DOMAIN Encoded = DOMAIN Fold /\ DOMAIN EncodedLen = DOMAIN Fold
  /\ \A name \in DOMAIN Fold : /\ Fold[name] \in DOMAIN Rank
                               /\ Encoded[name] # NoName
                               /\ EncodedLen[name] \in Nat \ {0}
  /\ \A a, b \in DOMAIN Rank : Rank[a] \in Nat /\ (Rank[a] = Rank[b] => a = b)
  /\ {LongName, Word, Half} \subseteq Nat \ {0}

-----------------------------------------------------------------------------
(* The path tree                                                             *)

RootNode == [is_file |-> FALSE, name |-> "", children |-> <<>>,
             file_offset |-> 0, file_size |-> 0]

\* With the directory insert_path() has got to.
EmptyTree == [arena |-> <<RootNode>>, running_offset |-> 0, ok |-> TRUE, dir |-> 1]

\* The place of the child of a directory with this name, whatever its case.
ChildNamed(arena, dir, name) ==
  SelectInSeq(arena[dir].children, LAMBDA c : Fold[arena[c].name] = Fold[name])

\* A node at the end of the arena, and of the children of a directory.
AddNode(arena, dir, node) ==
  Append([arena EXCEPT ![dir].children = Append(@, Len(arena) + 1)], node)

\* One component of a path: descend into the child there is, or add one.
Descend(walk, part) ==
  LET at == ChildNamed(walk.arena, walk.dir, part.name)
      child == walk.arena[walk.dir].children[at]
      node == [is_file |-> part.is_last, name |-> part.name, children |-> <<>>,
               file_offset |-> IF part.is_last THEN walk.running_offset ELSE 0,
               file_size |-> IF part.is_last THEN part.size ELSE 0]
  IN CASE ~walk.ok -> walk
       [] walk.ok /\ at # 0 ->
            [walk EXCEPT !.dir = child,
                         !.ok = ~part.is_last /\ ~walk.arena[child].is_file]
       [] OTHER ->
            [walk EXCEPT !.arena = AddNode(@, walk.dir, node),
                         !.running_offset = IF part.is_last THEN @ + part.size ELSE @,
                         !.dir = Len(walk.arena) + 1]

\* The components of a path; the last names the file.
Parts(file) ==
  [i \in DOMAIN file.path |->
     [name |-> file.path[i], is_last |-> i = Len(file.path), size |-> file.size]]

\* insert_path(): duplicates, and files used as directories, are errors.
InsertPath(tree, file) ==
  LET walked == FoldLeft(Descend, [tree EXCEPT !.ok = @ /\ file.path # <<>>, !.dir = 1], Parts(file))
  IN walked

PathTree(files) == FoldLeft(InsertPath, EmptyTree, files)

-----------------------------------------------------------------------------
(* The name table                                                            *)

\* intern_name(): every name once, told apart by case, in order of first use.
Intern(names, node) ==
  IF Contains(names, node.name) THEN names ELSE Append(names, node.name)

Interned(arena) == FoldLeft(Intern, <<>>, Tail(arena))

\* The length before a name: one byte, or two with the top bit of the first set.
NameHeader(len) ==
  IF len >= LongName THEN <<(len % LongName) + LongName, len \div LongName>> ELSE <<len>>

\* The bytes of a name are told apart by the name and their place in it; a
\* byte of a header belongs to no name.
NameBytes(name) == [i \in 1 .. EncodedLen[name] |-> <<Encoded[name], i>>]

NameEntry(name) ==
  LET header == NameHeader(EncodedLen[name])
  IN [i \in DOMAIN header |-> <<"", header[i]>>] \o NameBytes(name)

NameTable(names) == FoldLeft(\o, <<>>, [i \in DOMAIN names |-> NameEntry(names[i])])

NameOffset(names, name) ==
  Len(NameTable(SubSeq(names, 1, SelectInSeq(names, LAMBDA n : n = name) - 1)))

\* read_name(): the name at an offset, NoName where the code returns an error.
ReadName(table, off) ==
  LET b0 == table[off + 1][2]
      long == b0 >= LongName
      len == IF long THEN b0 - LongName + LongName * table[off + 2][2] ELSE b0
      start == IF long THEN off + 2 ELSE off + 1
      bytes == SubSeq(table, start + 1, start + len)
      names == {Encoded[name] : name \in DOMAIN Encoded}
  IN IF /\ off \in 0 .. Len(table) - 1 /\ table[off + 1][1] = ""
        /\ long => off + 1 < Len(table) /\ table[off + 2][1] = ""
        /\ start + len <= Len(table) /\ len > 0
        /\ \E name \in names : bytes = [i \in 1 .. len |-> <<name, i>>]
     THEN bytes[1][1] ELSE NoName

-----------------------------------------------------------------------------
(* The file tree                                                             *)

\* Children are sorted by lower-case name: the i-th has i - 1 before it.
RankOf(arena, c) == Rank[Fold[arena[c].name]]

SortedChildren(arena, n) ==
  LET children == Range(arena[n].children)
      Before(c) == {d \in children : RankOf(arena, d) < RankOf(arena, c)}
  IN [i \in DOMAIN arena[n].children |->
        CHOOSE c \in children : Cardinality(Before(c)) = i - 1]

\* Breadth first: the nodes queued so far, and the children of the i-th.
Enqueue(bfs, i) ==
  IF i <= Len(bfs.queue)
  THEN [bfs EXCEPT !.queue = @ \o SortedChildren(bfs.arena, bfs.queue[i])]
  ELSE bfs

BfsOrder(arena) ==
  FoldLeft(Enqueue, [arena |-> arena, queue |-> <<1>>], [i \in DOMAIN arena |-> i]).queue

\* The index of the first child of the i-th node.
NodeStartIndex(arena, order, i) ==
  1 + FoldLeft(+, 0, [k \in 1 .. i - 1 |-> Len(arena[order[k]].children)])

NoNameOffset == -1   \* 0x7FFFFFFF

\* Faulty: the high halves of offset and size change places.
HighSwapped(offset, size) == ((size \div Word) % Half) + Half * ((offset \div Word) % Half)

\* The last word of a file's entry: the high halves of its offset and size.
HighWord(offset, size) == ((offset \div Word) % Half) + Half * ((size \div Word) % Half)

TreeEntry(arena, order, names, i) ==
  LET node == arena[order[i]] IN
  [is_file |-> node.is_file,
   name_offset |-> IF i = 1 THEN NoNameOffset ELSE NameOffset(names, node.name),
   words |-> IF node.is_file
             THEN <<node.file_offset % Word, node.file_size % Word,
                    HighWord(node.file_offset, node.file_size)>>
             ELSE <<NodeStartIndex(arena, order, i), Len(node.children), 0>>]

\* build_file_tree()
FileTree(arena, names) ==
  LET order == BfsOrder(arena)
  IN [i \in 1 .. Len(order) |-> TreeEntry(arena, order, names, i)]

\* parse_tree_entry(), of a file
FileOffset(entry) == entry.words[1] + Word * (entry.words[3] % Half)
FileSize(entry) == entry.words[2] + Word * ((entry.words[3] \div Half) % Half)

\* One entry of the listing of a directory.
ListChild(walk, child) ==
  LET entry == walk.tree[child.idx + 1]
      path == Append(child.prefix, ReadName(walk.table, entry.name_offset))
  IN CASE ~walk.ok -> walk
       [] walk.ok /\ child.idx >= Len(walk.tree) -> [walk EXCEPT !.ok = FALSE]
       [] OTHER ->
            IF \/ ReadName(walk.table, entry.name_offset) = NoName
               \/ ~entry.is_file /\ child.idx \in {dir.idx : dir \in Range(walk.queue)}
            THEN [walk EXCEPT !.ok = FALSE]
            ELSE IF entry.is_file
            THEN [walk EXCEPT !.files = Append(@, [path |-> path, offset |-> FileOffset(entry),
                                                   size |-> FileSize(entry)])]
            ELSE [walk EXCEPT !.queue = Append(@, [idx |-> child.idx, prefix |-> path])]

\* The entries of the i-th directory of the queue, if there is one.
ListDirectory(walk, i) ==
  LET dir == walk.queue[i]
      words == walk.tree[dir.idx + 1].words
  IN IF walk.ok /\ i <= Len(walk.queue)
     THEN FoldLeft(ListChild, walk, [k \in 1 .. words[2] |-> [idx |-> words[1] + k - 1,
                                                              prefix |-> dir.prefix]])
     ELSE walk

\* build_files(): the listing, or ok = FALSE where the code returns an error.
BuildFiles(table, tree) ==
  FoldLeft(ListDirectory,
           [table |-> table, tree |-> tree, files |-> <<>>,
            queue |-> <<[idx |-> 0, prefix |-> <<>>]>>, ok |-> tree # <<>> /\ ~tree[1].is_file],
           [i \in DOMAIN tree |-> i])
=============================================================================
