---------------------------- MODULE SubsetSearch ----------------------------
(***************************************************************************)
(* The bounded search for sets of fragments by their sizes                 *)
(* (src/crate/src/core/split_detect/subset_search.rs), and the orders in   *)
(* which a set is tried.  A fragment is [index, size]; a question is       *)
(* [target, exact]; the state of a search is [found, budget].              *)
(***************************************************************************)
EXTENDS Integers, SequencesExt, FiniteSetsExt, TLC

CONSTANT MaxSplitFragments    \* MAX_SPLIT_FRAGMENTS_CEILING

ASSUME SubsetSearchAssumption == MaxSplitFragments \in Nat \ {0}

SizeSum(fragments, set) == FoldSet(LAMBDA i, sum : sum + fragments[i].size, 0, set)

\* The search goes from the largest fragment to the smallest.
BySize(fragments) ==
  SortSeq(fragments, LAMBDA f, g : f.size > g.size \/ (f.size = g.size /\ f.index < g.index))

Matches(sum, question) == IF question.exact THEN sum = question.target ELSE sum >= question.target

\* The most, and the least, that `slots` more fragments can add.
BestCase(sorted, start, slots) == SizeSum(sorted, start + 1 .. start + slots)
WorstCase(sorted, slots) == SizeSum(sorted, Len(sorted) - slots + 1 .. Len(sorted))

\* Faulty: a sum that just reaches the target is cut off.
CutExact(sorted, start, slots, sum, question) ==
  \/ Len(sorted) - start < slots
  \/ sum + BestCase(sorted, start, slots) <= question.target

\* No completion of the choice can match.
Hopeless(sorted, start, slots, sum, question) ==
  \/ Len(sorted) - start < slots
  \/ sum + BestCase(sorted, start, slots) < question.target
  \/ question.exact /\ sum + WorstCase(sorted, slots) > question.target

RECURSIVE SearchSubsetSum(_, _, _, _, _, _, _)

\* search_subset_sum(): every node visited costs one step of the budget.
SearchSubsetSum(sorted, start, slots, chosen, sum, question, search) ==
  LET visited == [search EXCEPT !.budget = @ - 1]
      nexts == [j \in 1 .. Len(sorted) - slots - start + 1 |-> start + j]
  IN CASE search.budget = 0 -> search
       [] search.budget > 0 /\ slots = 0 ->
            IF Matches(sum, question) THEN [visited EXCEPT !.found = Append(@, chosen)] ELSE visited
       [] search.budget > 0 /\ slots > 0 ->
            IF Hopeless(sorted, start, slots, sum, question) THEN visited
            ELSE FoldLeft(LAMBDA s, i :
                            LET before == s
                            IN SearchSubsetSum(sorted, i, slots - 1, Append(chosen, sorted[i].index),
                                               sum + sorted[i].size, question, before),
                          visited, nexts)

\* subsets_at_k(): the sets of k fragments, the tightest first.
SubsetsAtK(fragments, k, question, budget) ==
  LET search == SearchSubsetSum(BySize(fragments), 0, k, <<>>, 0, question,
                                [found |-> <<>>, budget |-> budget])
      SumOf(subset) == SizeSum(fragments, {i \in DOMAIN fragments :
                                             fragments[i].index \in Range(subset)})
      tagged == [i \in DOMAIN search.found |->
                   [sum |-> SumOf(search.found[i]), at |-> i, subset |-> search.found[i]]]
      sorted == SortSeq(tagged, LAMBDA a, b : a.sum < b.sum \/ (a.sum = b.sum /\ a.at < b.at))
  IN [found |-> [i \in DOMAIN sorted |-> sorted[i].subset], budget |-> search.budget]

\* all_matching_subsets(): all sizes share the budget.
AllMatchingSubsets(fragments, question, budget) ==
  FoldLeft(LAMBDA s, k :
             LET before == s
                 at_k == SubsetsAtK(fragments, k, question, before.budget)
             IN IF before.budget = 0 THEN before
                ELSE [found |-> before.found \o at_k.found, budget |-> at_k.budget],
           [found |-> <<>>, budget |-> budget],
           [k \in 1 .. Min({Len(fragments), MaxSplitFragments}) |-> k])

RECURSIVE IndexPermutations(_)

\* index_permutations(), and all_permutations() of the headers
IndexPermutations(indices) ==
  IF Len(indices) <= 1 THEN <<indices>>
  ELSE FlattenSeq([i \in DOMAIN indices |->
         LET rest == IndexPermutations(RemoveAt(indices, i))
         IN [p \in DOMAIN rest |-> <<indices[i]>> \o rest[p]]])

-----------------------------------------------------------------------------
(* What the search promises                                                  *)

\* The sets of at most MaxSplitFragments fragments that match, by definition.
MatchingSets(fragments, question) ==
  {set \in SUBSET DOMAIN fragments :
     /\ Cardinality(set) \in 1 .. MaxSplitFragments
     /\ Matches(SizeSum(fragments, set), question)}

IndicesOf(fragments, set) == {fragments[i].index : i \in set}

\* The answer names every matching set once, smaller sets first and tighter
\* ones first among those of one size.
Answers(fragments, question, found) ==
  LET Set(i) == {j \in DOMAIN fragments : fragments[j].index \in Range(found[i])}
      Rank(i) == <<Cardinality(Set(i)), SizeSum(fragments, Set(i))>>
  IN /\ {Range(found[i]) : i \in DOMAIN found} =
          {IndicesOf(fragments, s) : s \in MatchingSets(fragments, question)}
     /\ \A i, j \in DOMAIN found : i < j =>
          /\ Range(found[i]) # Range(found[j])
          /\ \/ Rank(i)[1] < Rank(j)[1]
             \/ Rank(i)[1] = Rank(j)[1] /\ Rank(i)[2] <= Rank(j)[2]

\* With too small a budget some may be missing, but none is made up.
AnswersWithin(fragments, question, budget) ==
  LET search == AllMatchingSubsets(fragments, question, budget)
  IN IF search.budget > 0 THEN Answers(fragments, question, search.found)
     ELSE {Range(search.found[i]) : i \in DOMAIN search.found} \subseteq
            {IndicesOf(fragments, s) : s \in MatchingSets(fragments, question)}
=============================================================================
