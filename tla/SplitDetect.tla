---------------------------- MODULE SplitDetect -----------------------------
(***************************************************************************)
(* Split detection (src/crate/src/core/split_detect): which files of a     *)
(* batch are images of their own, discs of one set, fragments of one image *)
(* or none of these.  resolveBatch() answers for a whole batch,            *)
(* resolveBatchEntry() for its first file.                                 *)
(*                                                                         *)
(* Each probe of a file is a step.  A file may get lost between two steps, *)
(* or between two reads of a probe: from then on its reads throw.  The     *)
(* search for orderings is one step, as it only reads.                     *)
(***************************************************************************)
EXTENDS SplitParts, SubsetSearch

CONSTANTS
  Batches,             \* the lists of files passed
  NameRank,            \* where a name stands when names are sorted
  MaxSteps,            \* MAX_SUBSET_SEARCH_STEPS
  MaxOrderings,        \* MAX_ORDERING_CANDIDATES_TRIED
  MaxPermutedHeaders,  \* MAX_PERMUTED_HEADERS
  MaxLost              \* bound on the files that get lost

ASSUME SplitDetectAssumption ==
  \A batch \in Batches : \A i, j \in DOMAIN batch :
    NameRank[batch[i].name] = NameRank[batch[j].name] => batch[i].name = batch[j].name

VARIABLES
  call,              \* "batch" or "entry", and whether on_item is given
  phase,             \* what the call does next
  next,              \* the part it does it to
  files,             \* the parts passed, and which of them are lost
  xiso, skipped,     \* partition_xiso_candidates(): numbers of parts
  classification,    \* Classification
  reported,          \* resolutions passed to on_item
  results            \* resolutions returned

vars == <<call, phase, next, files, xiso, skipped, classification, reported, results>>

\* What the caller learns: names, and the parts behind an opened handle.
Resolution(kind, names, parts) == [kind |-> kind, names |-> names, parts |-> parts]

Name(i) == files[i].name
Names(numbers) == [k \in DOMAIN numbers |-> Name(numbers[k])]
PartsOf(numbers) == [k \in DOMAIN numbers |-> files[numbers[k]]]
Unresolved(numbers) == Resolution("unresolved", Names(numbers), <<>>)

NoClassification ==
  [complete |-> <<>>, headers |-> <<>>, continuations |-> <<>>, unresolved |-> <<>>,
   god_passthrough |-> <<>>, already_reported |-> {}]

-----------------------------------------------------------------------------
(* What can be read from files and orderings: functions of their contents,   *)
(* tabulated over the batches and the files they may lose.                   *)

Situations ==
  UNION {{[i \in DOMAIN batch |-> [batch[i] EXCEPT !.lost = i \in lost]] :
            lost \in {set \in SUBSET DOMAIN batch : Cardinality(set) <= MaxLost}} :
         batch \in Batches}

Probed == [part \in UNION {Range(s) : s \in Situations} |-> Probe(part)]

\* A header followed by other files of its batch.
Orderings(s) ==
  UNION {{<<s[h]>> \o [k \in DOMAIN order |-> s[order[k]]] :
            order \in UNION {SetToSeqs(set) : set \in {set \in SUBSET (DOMAIN s \ {h}) :
                                                        Cardinality(set) \in 1 .. MaxSplitFragments}}} :
         h \in {h \in DOMAIN s : Probed[s[h]].completeness.recognised}}

Verified == {parts \in UNION {Orderings(s) : s \in Situations} : VerifyOrdering(parts)}

Whole == {parts \in UNION {Orderings(s) : s \in Situations} : HoldsImage(parts)}

-----------------------------------------------------------------------------
(* GOD folders                                                               *)

\* god_data_dir_and_index(): parts named Data#### in a folder *.data.
IsGod(i) == files[i].dir # ""

ByIndex(numbers) ==
  SortSeq(numbers, LAMBDA i, j : files[i].index < files[j].index
                                   \/ (files[i].index = files[j].index /\ i < j))

\* partition_god_candidates(): a folder's parts, in the order of their index.
GodCandidates ==
  LET gods == {i \in DOMAIN files : IsGod(i)}
  IN {ByIndex(SetToSortSeq({i \in gods : files[i].dir = dir}, <)) : dir \in {files[i].dir : i \in gods}}

Remaining == SelectSeq([i \in DOMAIN files |-> i], LAMBDA i : ~IsGod(i))

\* Faulty: the last index is compared with the number of parts.
LastIndexFits(candidate) == files[Last(candidate)].index = Len(candidate) - 1

\* god_candidate_is_contiguous()
IsContiguous(candidate) == \A k \in DOMAIN candidate : files[candidate[k]].index = k - 1

\* Opening the parts as one image: each data file the directory tables and
\* the executable are read from has to be at its place.
GodOpens(parts) ==
  \A k \in Discs[parts[1].disc].read_from :
    k <= Len(parts) /\ ~parts[k].lost /\ parts[k].disc = parts[1].disc /\ parts[k].from = k - 1

Image(numbers, title, shape) == [numbers |-> numbers, title |-> title, shape |-> shape]

\* verify_god_candidate()
VerifyGod(candidate) ==
  /\ IsContiguous(candidate)
  /\ GodOpens(PartsOf(candidate))
  /\ Discs[files[candidate[1]].disc].title # NoTitle

GodImage(candidate) == Image(candidate, Discs[files[candidate[1]].disc].title, "god")

\* open() of a GOD source: parts in the order of their index, the header apart.
OpenGod(parts) ==
  SortSeq(SelectSeq(parts, LAMBDA part : part.dir # ""), LAMBDA p, q : p.index < q.index)

Classified(verified, invalid) ==
  [NoClassification EXCEPT !.complete = [k \in DOMAIN verified |-> GodImage(verified[k])],
                           !.unresolved = invalid]

\* One folder alone is not looked into.
GodClassification(candidates) ==
  IF Cardinality(candidates) <= 1
  THEN [NoClassification EXCEPT !.god_passthrough = FlattenSeq(SetToSeq(candidates))]
  ELSE Classified(SetToSeq({c \in candidates : VerifyGod(c)}),
                  SetToSeq({c \in candidates : ~VerifyGod(c)}))

\* classify_god_candidates()
ClassifyGod ==
  /\ phase = "god"
  /\ classification' = GodClassification(GodCandidates)
  /\ phase' = "classify"
  /\ next' = 1
  /\ UNCHANGED <<call, files, xiso, skipped, reported, results>>

-----------------------------------------------------------------------------
(* Detecting formats and classifying the rest                                *)

CanLose == Cardinality({i \in DOMAIN files : files[i].lost}) < MaxLost

Lose(i) == [files EXCEPT ![i].lost = TRUE]

\* detect(): at least four bytes that can be read, and no other magic.
DetectsXiso(i) == files[i].size > 0 /\ ~files[i].lost /\ files[i].kind = "xiso"

\* partition_xiso_candidates(), one part: resolveBatchEntry() passes on the
\* parts of GOD folders too.
ToDetect == IF call.op = "batch" THEN Remaining ELSE [i \in DOMAIN files |-> i]

Detect ==
  /\ phase = "detect"
  /\ next <= Len(ToDetect)
  /\ LET i == ToDetect[next] IN
     IF DetectsXiso(i) THEN xiso' = Append(xiso, i) /\ UNCHANGED skipped
     ELSE skipped' = Append(skipped, i) /\ UNCHANGED xiso
  /\ next' = next + 1
  /\ UNCHANGED <<call, phase, files, classification, reported, results>>

SkippedResolutions == [k \in DOMAIN skipped |-> Unresolved(<<skipped[k]>>)]

\* What was skipped is reported at once.
ReportSkipped ==
  /\ phase = "detect"
  /\ next > Len(ToDetect)
  /\ phase' = IF call.op = "batch" THEN "god" ELSE "classify"
  /\ reported' = IF call.on_item THEN SkippedResolutions ELSE reported
  /\ next' = 1
  /\ UNCHANGED <<call, files, xiso, skipped, classification, results>>

\* Faulty: an image of a set is reported before the set is known.
ReportsEarly(title) == call.on_item

ReportsAlone(title) == title.disc_count <= 1 /\ call.on_item

\* A complete image; one with a title that has no further discs is final.
ClassifyComplete(i, title) ==
  IF title = NoTitle
  THEN /\ classification' = [classification EXCEPT !.unresolved = Append(@, <<i>>)]
       /\ UNCHANGED reported
  ELSE /\ classification' =
            [classification EXCEPT
               !.complete = Append(@, Image(<<i>>, title, "file")),
               !.already_reported = IF ReportsAlone(title) THEN @ \cup {Name(i)} ELSE @]
       /\ reported' = IF ReportsAlone(title)
                      THEN Append(reported, Resolution("standalone", <<Name(i)>>, <<>>)) ELSE reported

\* classify_parts(), one part.  `lost_at` says which read was the first to throw.
ClassifyAs(i, lost_at, found) ==
  IF ~found.completeness.recognised
  THEN /\ classification' = [classification EXCEPT !.continuations = Append(@, i)]
       /\ UNCHANGED reported
  ELSE IF ~found.completeness.is_complete \/ lost_at = "walk"
  THEN /\ classification' = [classification EXCEPT !.headers = Append(@, i)]
       /\ UNCHANGED reported
  ELSE ClassifyComplete(i, IF lost_at = "title" THEN NoTitle ELSE found.title)

Classify ==
  /\ phase = "classify"
  /\ next <= Len(xiso)
  /\ \E lost_at \in {"never", "walk", "title"} :
       /\ lost_at # "never" => CanLose /\ ~files[xiso[next]].lost
       /\ ClassifyAs(xiso[next], lost_at, Probed[files[xiso[next]]])
       /\ files' = IF lost_at = "never" THEN files ELSE Lose(xiso[next])
  /\ next' = next + 1
  /\ UNCHANGED <<call, phase, xiso, skipped, results>>

\* A file that is gone between two steps.
LoseFile ==
  /\ phase \notin {"done"}
  /\ CanLose
  /\ \E i \in DOMAIN files : ~files[i].lost /\ files' = Lose(i)
  /\ UNCHANGED <<call, phase, next, xiso, skipped, classification, reported, results>>

-----------------------------------------------------------------------------
(* resolve_complete_images()                                                 *)

GroupOf(image, complete) ==
  {k \in DOMAIN complete : /\ complete[k].title.id = image.title.id
                           /\ complete[k].title.disc_count = image.title.disc_count
                           /\ complete[k].shape = image.shape}

Numbers(complete, group) == {complete[k].title.disc_number : k \in group}

\* Different discs, each one of the set, and not more than there are.
IsDiscSet(complete, group, count) ==
  /\ Cardinality(Numbers(complete, group)) = Cardinality(group)
  /\ Cardinality(group) <= count
  /\ Numbers(complete, group) \subseteq 1 .. count

ResolveGroup(complete, group) ==
  LET images == SetToSortSeq(group, <)
      count == complete[images[1]].title.disc_count
      Each(kind) == [k \in DOMAIN images |->
                       Resolution(kind, Names(complete[images[k]].numbers), complete[images[k]].numbers)]
  IN CASE count <= 1 \/ Len(images) = 1 -> Each("standalone")
       [] count > 1 /\ Len(images) > 1 ->
            IF IsDiscSet(complete, group, count)
            \* a disc goes by the name of its first file
            THEN <<Resolution("multi_disc_set",
                              [k \in DOMAIN images |-> Name(complete[images[k]].numbers[1])],
                              FlattenSeq([k \in DOMAIN images |-> complete[images[k]].numbers]))>>
            ELSE Each("unresolved")

ResolveCompleteImages(complete) ==
  LET groups == SetToSeq({GroupOf(complete[k], complete) : k \in DOMAIN complete})
  IN FlattenSeq([g \in DOMAIN groups |-> ResolveGroup(complete, groups[g])])

-----------------------------------------------------------------------------
(* find_raw_split()                                                          *)

Loose(continuations) ==
  SelectSeq([k \in DOMAIN continuations |-> k],
            LAMBDA k : ~Probed[files[continuations[k]]].known_file)

Fragments(continuations, loose) ==
  [f \in DOMAIN loose |-> [index |-> loose[f], size |-> files[continuations[loose[f]]].size]]

Needed(header) == Max({0, Probed[files[header]].completeness.required - files[header].size})

\* Sets that fill the image exactly, then sets that fill it and more: what is
\* left of the budget is theirs.
AndLarger(fragments, needed, exactly) ==
  exactly.found
    \o AllMatchingSubsets(fragments, [target |-> needed, exact |-> FALSE], exactly.budget).found

SubsetsFor(fragments, needed) ==
  AndLarger(fragments, needed,
            AllMatchingSubsets(fragments, [target |-> needed, exact |-> TRUE], MaxSteps))

Subsets(header, continuations) ==
  SubsetsFor(Fragments(continuations, Loose(continuations)), Needed(header))

\* How often a name stands in a list: names may repeat.
Uses(names, name) == Cardinality({k \in DOMAIN names : names[k] = name})

SameNames(a, b) == \A name \in Range(a) \cup Range(b) : Uses(a, name) = Uses(b, name)

\* Whether the search is over after a number of orderings tried.
SearchOver(search, subset) ==
  \/ Len(search.winners) >= 2
  \/ search.tried >= MaxOrderings
  \/ search.winners # <<>> /\ Len(subset) # Len(search.winners[1]) - 1

\* One ordering; the same files in another order are the same winner.
IsWinner(search, numbers) ==
  /\ PartsOf(numbers) \in Verified
  /\ \A w \in Range(search.winners) : ~SameNames(Names(w), Names(numbers))

TryFiles(search, numbers) ==
  [winners |-> IF IsWinner(search, numbers) THEN Append(search.winners, numbers) ELSE search.winners,
   tried |-> search.tried + 1]

TryOrdering(search, header, continuations, ordering) ==
  TryFiles(search, <<header>> \o [k \in DOMAIN ordering |-> continuations[ordering[k]]])

TrySubset(search, header, continuations, subset) ==
  FoldLeft(LAMBDA s, ordering :
             LET before == s
             IN IF SearchOver(before, subset) THEN before
                ELSE TryOrdering(before, header, continuations, ordering),
           search, IndexPermutations(subset))

\* The winners: none, one, or two of the same number of files.
FindRawSplit(header, continuations) ==
  IF ~Probed[files[header]].completeness.recognised THEN <<>>
  ELSE FoldLeft(LAMBDA s, subset :
                  LET before == s
                  IN IF before.stopped \/ SearchOver(before.search, subset)
                     THEN [before EXCEPT !.stopped = TRUE]
                     ELSE [before EXCEPT
                             !.search = TrySubset(before.search, header, continuations, subset)],
                [search |-> [winners |-> <<>>, tried |-> 0], stopped |-> FALSE],
                Subsets(header, continuations)).search.winners

-----------------------------------------------------------------------------
(* batch.rs                                                                  *)

\* The first uses of some names in a list of parts; the list is in the order
\* the parts were passed in.
TakeByName(numbers, names) ==
  SelectSeq(numbers, LAMBDA i :
    Cardinality({j \in Range(numbers) : Name(j) = Name(i) /\ j <= i}) <= Uses(names, Name(i)))

Without(numbers, claimed) == SelectSeq(numbers, LAMBDA i : i \notin Range(claimed))

\* unclaimed_leftovers(): as many of a name are left as were not claimed.
Leftovers(numbers, claimed) == Without(numbers, claimed)

Each(numbers) == [k \in DOMAIN numbers |-> Unresolved(<<numbers[k]>>)]

\* resolve_one_header(): the split, if there is exactly one, and the parts
\* claimed by it: they are told by their names.
Claim(header, pool, winners) ==
  IF Len(winners) = 1
  THEN [resolved |-> TRUE, split |-> winners[1],
        claimed |-> TakeByName(pool, Tail(Names(winners[1])))]
  ELSE [resolved |-> FALSE, split |-> <<header>>, claimed |-> <<>>]

ResolveOneHeader(header, pool) == Claim(header, pool, FindRawSplit(header, pool))

RawSplit(split) == Resolution("raw_split", Names(split), split)

\* One pass over the headers in an order; what one claims the next has not.
PassOn(pass, header, one) ==
  [splits |-> IF one.resolved THEN Append(pass.splits, one.split) ELSE pass.splits,
   failed |-> IF one.resolved THEN pass.failed ELSE Append(pass.failed, header),
   pool |-> Without(pass.pool, one.claimed)]

GreedyPass(headers, pool) ==
  FoldLeft(LAMBDA p, header :
             LET pass == p IN PassOn(pass, header, ResolveOneHeader(header, pass.pool)),
           [splits |-> <<>>, failed |-> <<>>, pool |-> pool], headers)

Splits(pass) == [k \in DOMAIN pass.splits |-> RawSplit(pass.splits[k])]

\* Faulty: the headers are taken in the order they were found in.
OneOrder(headers) == <<headers>>

Orders(headers) ==
  IF Len(headers) > MaxPermutedHeaders THEN <<>> ELSE IndexPermutations(headers)

\* try_all_header_orderings(): the passes that place every header, one for
\* each set of splits they end in.
Fingerprint(pass) == {Names(split) : split \in Range(pass.splits)}

OnePerFingerprint(passes) ==
  {CHOOSE pass \in passes : Fingerprint(pass) = f : f \in {Fingerprint(pass) : pass \in passes}}

Solutions(headers, continuations) ==
  OnePerFingerprint({pass \in {GreedyPass(order, continuations) : order \in Range(Orders(headers))} :
                       pass.failed = <<>>})

\* The fallback: headers of one name stay in the order of the parts.
ByName(headers) ==
  SortSeq(headers, LAMBDA i, j : \/ NameRank[Name(i)] < NameRank[Name(j)]
                                 \/ Name(i) = Name(j) /\ i < j)

\* resolve_raw_split_bucket()
OneHeaderResolved(header, continuations, one) ==
  IF one.resolved THEN <<RawSplit(one.split)>> \o Each(Leftovers(continuations, one.claimed))
  ELSE <<Unresolved(<<header>> \o continuations)>>

ResolveOnlyHeader(header, continuations) ==
  IF continuations = <<>> THEN Each(<<header>>)
  ELSE OneHeaderResolved(header, continuations, ResolveOneHeader(header, continuations))

AsFarAsFound(pass) ==
  Splits(pass) \o (IF pass.failed = <<>> THEN Each(pass.pool)
                   ELSE <<Unresolved(pass.failed \o pass.pool)>>)

ResolveBy(headers, continuations, solutions) ==
  IF solutions = {} THEN AsFarAsFound(GreedyPass(ByName(headers), continuations))
  ELSE IF Cardinality(solutions) > 1 THEN <<Unresolved(headers \o continuations)>>
  ELSE AsFarAsFound(CHOOSE pass \in solutions : TRUE)

ResolveHeaders(headers, continuations) ==
  ResolveBy(headers, continuations, Solutions(headers, continuations))

ResolveRawSplitBucket(headers, continuations) ==
  CASE headers = <<>> /\ continuations = <<>> -> <<>>
    [] headers = <<>> /\ continuations # <<>> -> <<Unresolved(continuations)>>
    [] Len(headers) = 1 -> ResolveOnlyHeader(headers[1], continuations)
    [] Len(headers) > 1 -> ResolveHeaders(headers, continuations)

\* into_resolutions()
IntoResolutions(c) ==
  ResolveCompleteImages(c.complete)
    \o [k \in DOMAIN c.unresolved |-> Unresolved(c.unresolved[k])]
    \o (IF c.god_passthrough = <<>> THEN <<>>
        ELSE <<Resolution("god_folder", Names(c.god_passthrough), <<>>)>>)
    \o ResolveRawSplitBucket(c.headers, c.continuations)

\* What was reported already is not returned again, nor is a namesake of it.
NotReported(resolutions) ==
  SelectSeq(resolutions, LAMBDA r :
    ~(r.kind = "standalone" /\ Range(r.names) \subseteq classification.already_reported))

Returns(resolutions) ==
  IF call.on_item THEN NotReported(resolutions) ELSE resolutions \o SkippedResolutions

ResolveBatch ==
  /\ phase = "classify"
  /\ call.op = "batch"
  /\ next > Len(xiso)
  /\ results' = Returns(IntoResolutions(classification))
  /\ phase' = "done"
  /\ UNCHANGED <<call, next, files, xiso, skipped, classification, reported>>

-----------------------------------------------------------------------------
(* entry.rs                                                                  *)

\* find_named_split(): the other half of a pair *.1.* and *.2.*.
Partner(i) ==
  {j \in DOMAIN files : /\ files[i].stem # "" /\ files[j].stem = files[i].stem
                        /\ files[j].half # files[i].half}

\* detect_named_split(): the reader of the format says whether it is a pair.
ResolveNamedSplit ==
  /\ phase = "named"
  /\ IF Partner(1) = {} THEN phase' = "detect" /\ UNCHANGED results
     ELSE /\ \E opens \in BOOLEAN :
               LET partner == Min(Partner(1))
                   pair == IF files[1].half = 1 THEN <<1, partner>> ELSE <<partner, 1>>
               IN results' = <<Resolution(IF opens THEN "dir" ELSE "invalid", Names(pair), <<>>)>>
          /\ phase' = "done"
  /\ UNCHANGED <<call, next, files, xiso, skipped, classification, reported>>

\* raw_split_outcome_for_entry(): no evidence without a header.
Outcome(headers, continuations, winners) ==
  IF Len(winners) = 1 THEN <<Resolution("dir", Names(winners[1]), winners[1])>>
  ELSE <<Resolution("invalid", Names(headers \o continuations), <<>>)>>

EntryOutcome(headers, continuations) ==
  CASE headers = <<>> \/ (Len(headers) = 1 /\ continuations = <<>>) -> <<>>
    [] Len(headers) > 1 -> <<Resolution("invalid", Names(headers \o continuations), <<>>)>>
    [] Len(headers) = 1 /\ continuations # <<>> ->
         Outcome(headers, continuations, FindRawSplit(headers[1], continuations))

\* An outcome that does not name the entry is about others.
About(outcome) == SelectSeq(outcome, LAMBDA r : Name(1) \in Range(r.names))

\* resolve_batch_entry(): else the entry is a file, if its format is detected.
EntryResults(outcome) ==
  IF outcome # <<>> THEN outcome
  ELSE IF files[1].size = 0 \/ files[1].lost THEN <<Resolution("error", <<>>, <<>>)>>
  ELSE <<Resolution("file", <<Name(1)>>, <<>>)>>

ResolveBatchEntry ==
  /\ phase = "classify"
  /\ call.op = "entry"
  /\ next > Len(xiso)
  /\ results' = EntryResults(About(EntryOutcome(classification.headers, classification.continuations)))
  /\ phase' = "done"
  /\ UNCHANGED <<call, next, files, xiso, skipped, classification, reported>>

-----------------------------------------------------------------------------
Init ==
  /\ \E op \in {"batch", "entry"}, on_item \in BOOLEAN :
       /\ op = "entry" => ~on_item
       /\ call = [op |-> op, on_item |-> on_item]
       /\ phase = IF op = "batch" THEN "detect" ELSE "named"
  /\ files \in Batches
  /\ next = 1
  /\ xiso = <<>>
  /\ skipped = <<>>
  /\ classification = NoClassification
  /\ reported = <<>>
  /\ results = <<>>

\* The call has returned.
Returned == phase = "done" /\ UNCHANGED vars

Next ==
  \/ ResolveNamedSplit
  \/ Detect \/ ReportSkipped
  \/ ClassifyGod \/ Classify
  \/ ResolveBatch \/ ResolveBatchEntry
  \/ LoseFile
  \/ Returned

Spec == Init /\ [][Next]_vars

-----------------------------------------------------------------------------
(* Properties                                                                *)

Done == phase = "done"
Continuations == Range(classification.continuations)
Headers == Range(classification.headers)

\* The sizes of any files, and of the fragments of the batch, are searched for
\* every target: with any budget the answer names matching sets only, each
\* once, the smaller and then the tighter ones first, and with a budget that
\* is not used up it names all of them.
SubsetsMatchReference ==
  next = 1 /\ phase = "detect" =>
    LET fragments == [i \in DOMAIN files |-> [index |-> Len(files) + 1 - i, size |-> files[i].size]]
    IN \A target \in 0 .. 8, exact \in BOOLEAN, budget \in {0, 5, 9, MaxSteps} :
         AnswersWithin(fragments, [target |-> target, exact |-> exact], budget)

\* A disc of a set stands for all files of its folder.
MentionedBy(resolution) ==
  IF resolution.kind = "multi_disc_set" THEN Names(resolution.parts) ELSE resolution.names

Mentioned ==
  LET all == reported \o results
  IN FlattenSeq([k \in DOMAIN all |-> MentionedBy(all[k])])

AllNames == [i \in DOMAIN files |-> Name(i)]

\* A file reported early takes a disc of its name with it that is returned
\* alone: what was reported is a set of names (batch.rs:505).
MayHide(name) ==
  /\ name \in classification.already_reported
  /\ \E image \in Range(classification.complete) :
       Names(image.numbers) = <<name>> /\ image.title.disc_count > 1

\* Whatever is reported early, claimed by a split, left over or lost half way,
\* every name passed is found among the resolutions reported and returned, never
\* more often than it was passed, and exactly as often, also if it repeats,
\* unless a complete image of that name was reported early and a disc of a set
\* has it too; and what is said of one entry names that entry.
AccountedForOnce ==
  Done =>
    IF call.op = "batch"
    THEN \A i \in DOMAIN files :
           LET passed == Uses(AllNames, Name(i))
               told == Uses(Mentioned, Name(i))
           IN told \in 1 .. passed /\ (MayHide(Name(i)) \/ told = passed)
    ELSE \E r \in Range(results) : Name(1) \in Range(r.names) \/ r.kind = "error"

IsSplit(resolution) == resolution.kind \in {"raw_split", "dir"} /\ resolution.parts # <<>>

NoFileInTwoSplits ==
  \A k, l \in DOMAIN results : k # l => Range(results[k].parts) \cap Range(results[l].parts) = {}

DistinctNames == IsInjective(AllNames)

\* Every split returned parses whole from its parts in the order given, with
\* its executables where its directories say; and no file is a part of two
\* resolutions, as long as no two files have one name.
SplitsAreGenuine ==
  /\ \A r \in Range(results) : IsSplit(r) => PartsOf(r.parts) \in Whole
  /\ DistinctNames => NoFileInTwoSplits

\* The sets of fragments that complete a header in some order.
Completions(header) ==
  {set \in SUBSET {i \in Continuations : ~Probed[files[i]].known_file} :
     /\ Cardinality(set) \in 1 .. MaxSplitFragments
     /\ \E order \in SetToSeqs(set) : PartsOf(<<header>> \o order) \in Verified}

IsFound(header, set) ==
  \E r \in Range(results) :
    IsSplit(r) /\ r.parts[1] = header /\ Range(r.parts) = {header} \cup set

Unshared(header, set) ==
  \A other \in Headers \ {header} : \A s \in Completions(other) : s \cap set = {}

\* The ways to give each header a fragment that completes it.
Pairings ==
  {p \in [Headers -> Continuations] :
     /\ IsInjective(p)
     /\ \A h \in Headers : {p[h]} \in Completions(h)}

SingleFragments ==
  \A h \in Headers : \A set \in Completions(h) : \E i \in set : {i} \in Completions(h)

\* The search loses no split: a header that only one set of fragments
\* completes, which completes no other header, gets that set; and if one
\* fragment is enough for each header and they can be paired in one way only,
\* that pairing is found, in whatever order the headers would have to claim,
\* as long as there are no more headers than are permuted.
GenuineSplitsAreFound ==
  Done /\ call.op = "batch" =>
    /\ \A h \in Headers :
         LET sets == Completions(h) IN
         Cardinality(sets) = 1 /\ Unshared(h, CHOOSE s \in sets : TRUE)
           => IsFound(h, CHOOSE s \in sets : TRUE)
    /\ SingleFragments /\ Cardinality(Pairings) = 1 /\ Cardinality(Headers) <= MaxPermutedHeaders =>
         \A h \in Headers : IsFound(h, {(CHOOSE p \in Pairings : TRUE)[h]})

\* A GOD folder that is returned as an image opens with every data file at
\* its place, in whatever order its files are passed back, although opening
\* goes by position and the names were numbered by someone else.
GodFoldersOpenInPlace ==
  \A image \in Range(classification.complete) :
    image.shape = "god" =>
      LET opened == OpenGod(Reverse(PartsOf(image.numbers)))
      IN \A k \in DOMAIN opened : opened[k].from = k - 1 /\ opened[k].disc = opened[1].disc

\* batch.rs:428: "Remove exactly the claimed instances, one-for-one by name".
\* So what one header has claimed no other header claims, also if names repeat.
ClaimedInstancesAreRemoved == NoFileInTwoSplits
=============================================================================
