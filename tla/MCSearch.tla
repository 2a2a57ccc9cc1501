------------------------------ MODULE MCSearch ------------------------------
(***************************************************************************)
(* Small instances of the three searches, one behaviour for each: kind     *)
(* says which.  What it does not use stays as it is set here.  Which       *)
(* cursor reads which list does not matter, so shorter lists come first.   *)
(***************************************************************************)
EXTENDS TermCursors, SegmentedSearch

VARIABLES
  kind,
  lists, filter, accepted, minScore, at, theta, iterations,
  active, passive, sumPass,                \* MaxScore alone
  iterators, curDoc                        \* WAND alone

question == <<lists, filter, accepted, minScore, at, theta, iterations>>
ofMaxScore == <<active, passive, sumPass>>
ofWand == <<iterators, curDoc>>
ofSegments == <<scoresOf, share, order, current, pending>>
vars == <<kind, question, topK, heap, answered, answer, ofMaxScore, ofWand, ofSegments>>

\* The two loops come with what is proved of them, for SearchProofs to build on.
MaxScoreSearch == INSTANCE MaxScoreProofs
WandSearch == INSTANCE WandProofs

\* Every list of up to two blocks over four documents.
ShortLists == UNION {[docs -> {1, 2}] : docs \in SUBSET (0 .. 3) \ {{}}}

\* Lists of up to three blocks over six documents whose impacts are 1 but for at
\* most one, so that one block stands out.
LongLists ==
  UNION {{list \in [docs -> {1, 4}] :
            Cardinality({d \in docs : list[d] = 4}) <= 1} :
         docs \in {0 .. 5, {0, 2, 3, 5}, {1, 4}}}

ByLength(some) ==
  \A i, j \in DOMAIN some :
    i < j => Cardinality(DOMAIN some[i]) <= Cardinality(DOMAIN some[j])

Pairs == {some \in [1 .. 2 -> ShortLists] : ByLength(some)}
Triples == {some \in [1 .. 3 -> LongLists] : ByLength(some)}

\* Documents were deleted and one restored; and of a reordered index a mask is
\* allowed without a deleted document.
Deleted == [NoFilter EXCEPT !.deleted = {remove(from_iter(<<3, 0, 2>>), 2)}]

Allowed ==
  [deleted |-> {from_iter(<<1>>)}, allowed |-> {from_mask(<<TRUE, TRUE, TRUE>>)},
   map |-> {[d \in 0 .. 3 |-> (d + 1) % 4]}]

\* Everything is accepted, also in a segmented search under way; or a filter is.
Asked ==
  {[filter |-> NoFilter, accepted |-> 0 .. 3, topK |-> 1, minScore |-> 0],
   [filter |-> NoFilter, accepted |-> 0 .. 3, topK |-> 2, minScore |-> 2]}

AskedFiltered ==
  {[filter |-> Deleted, accepted |-> 1 .. 2, topK |-> 2, minScore |-> 0],
   [filter |-> Allowed, accepted |-> {0, 2}, topK |-> 1, minScore |-> 0]}

Search(some, asked) ==
  [lists |-> some, filter |-> asked.filter, accepted |-> asked.accepted,
   topK |-> asked.topK, minScore |-> asked.minScore]

Plainly(some) == \A d \in DOMAIN some[1] : some[1][d] = 1

\* Pairs for every question, those with a plain list for the filters, and triples,
\* where several cursors are passive.
SmallSearches ==
  {Search(p, asked) : p \in Pairs, asked \in Asked}
    \cup {Search(p, asked) : p \in {some \in Pairs : Plainly(some)}, asked \in AskedFiltered}
    \cup {Search(t, [filter |-> NoFilter, accepted |-> 0 .. 5, topK |-> 1,
                         minScore |-> 0]) : t \in Triples}

----------------------------------------------------------------------------
IdleMaxScore == active = <<>> /\ passive = <<>> /\ sumPass = 0
IdleWand == iterators = <<>> /\ curDoc = -1
IdleSegments ==
  scoresOf = <<>> /\ share = FALSE /\ order = <<>> /\ current = {} /\ pending = <<>>
IdleQuestion ==
  /\ lists = <<>> /\ filter = <<>> /\ accepted = {} /\ minScore = 0
  /\ at = <<>> /\ theta = 0 /\ iterations = 0

Init ==
  \/ kind = "maxscore" /\ MaxScoreSearch!Init /\ IdleWand /\ IdleSegments
  \/ kind = "wand" /\ WandSearch!Init /\ IdleMaxScore /\ IdleSegments
  \/ kind = "segments" /\ SegmentsInit /\ IdleQuestion /\ IdleMaxScore /\ IdleWand

Next ==
  /\ \/ kind = "maxscore" /\ MaxScoreSearch!Next /\ UNCHANGED <<ofWand, ofSegments>>
     \/ kind = "wand" /\ WandSearch!Next /\ UNCHANGED <<ofMaxScore, ofSegments>>
     \/ /\ kind = "segments" /\ SegmentsNext
        /\ UNCHANGED <<question, ofMaxScore, ofWand>>
     \/ kind = "segments" /\ answered /\ UNCHANGED vars
  /\ UNCHANGED kind

Spec == Init /\ [][Next]_vars

----------------------------------------------------------------------------
(***************************************************************************)
(* The properties of each search are stated beside it.                     *)
(***************************************************************************)
\* The variables of the search under way have their types.
TypeOK ==
  CASE kind = "maxscore" -> MaxScoreSearch!TypeOK
    [] kind = "wand" -> WandSearch!TypeOK
    [] kind = "segments" -> SegmentsTypeOK

\* Every decision of a loop is safe: an accepted document that beats the threshold
\* is in the heap or still ahead of the cursors that hold it, the bound the passive
\* terms of MaxScore are skipped on holds, the cursors of WAND stay sorted, and the
\* heap answers the search of the segments done.
LoopInvariant ==
  /\ kind = "maxscore" => MaxScoreSearch!NothingLost /\ MaxScoreSearch!PassiveStaysBelow
  /\ kind = "wand" => WandSearch!NothingLost /\ WandSearch!StaysSorted
  /\ kind = "segments" => MergedSoFar

\* Every iteration leaves the cursors less to read: the loops end.
BoundedWork ==
  /\ kind = "maxscore" => MaxScoreSearch!BoundedWork
  /\ kind = "wand" => WandSearch!BoundedWork

\* The threshold the earlier decisions relied on never falls, and MaxScore proposes
\* a document once, in the order of ids, or the heap may hold it twice.
SearchAdvances ==
  [][/\ theta' >= theta
     /\ kind = "maxscore" /\ active # <<>> /\ active' # <<>>
          => MaxScoreSearch!Candidate' > MaxScoreSearch!Candidate]_vars

\* Every search answers with the k best accepted documents of what it searches.
Scores ==
  CASE kind = "maxscore" -> MaxScoreSearch!Scores
    [] kind = "wand" -> WandSearch!Scores
    [] kind = "segments" -> SegmentsScores

Contract == INSTANCE SearchContract WITH scores <- Scores

ImplementsContract == Contract!Spec
=============================================================================
