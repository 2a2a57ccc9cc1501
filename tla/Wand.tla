-------------------------------- MODULE Wand --------------------------------
(***************************************************************************)
(* The block-max WAND algorithm, search_wand_core and WandSearch of        *)
(* src/src/search/wand.rs.                                                 *)
(*                                                                         *)
(* The cursors are kept sorted by the document they are at.  The pivot is  *)
(* the first document the lists of the cursors up to it can bring above    *)
(* the threshold theta: what lies before it is skipped.  A step is one     *)
(* iteration of WandSearch::next, the one that finds a candidate together  *)
(* with the scoring of that candidate.                                     *)
(***************************************************************************)
EXTENDS TermCursors

VARIABLES
  lists, filter, topK, minScore,     \* the search: chosen once
  accepted,    \* the documents the caller filters for, by the ids it knows
  at,          \* cached_docid: the document each cursor is at
  iterators,   \* the cursors that are not exhausted, sorted
  curDoc,      \* cur_doc: the last candidate, -1 before the first
  theta,       \* what a document has to beat
  heap,        \* the best documents so far
  answered, answer,
  iterations   \* of the loop so far: counted for BoundedWork, not by the code

input == <<lists, filter, accepted, topK, minScore>>
\* The iterators of the query's terms.
Cursors == DOMAIN lists

vars == <<input, at, iterators, curDoc, theta, heap, answered, answer,
          iterations>>

Sorted(seq, pos) == \A i \in 2 .. Len(seq) : pos[seq[i - 1]] <= pos[seq[i]]

Init ==
  /\ \E search \in Searches :
       /\ lists = search.lists /\ filter = search.filter /\ accepted = search.accepted
       /\ topK = search.topK /\ minScore = search.minScore
  /\ at = [c \in Cursors |-> Min(DOMAIN lists[c])]
  /\ iterators \in {seq \in SetToSeqs(Cursors) : Sorted(seq, at)}
  /\ curDoc = -1
  /\ theta = minScore
  /\ heap = {}
  /\ answered = FALSE
  /\ answer = <<>>
  /\ iterations = 0

----------------------------------------------------------------------------
BoundOf == Bounds(lists)
BlockBoundOf == BlockBounds(lists, at)

\* What the first n cursors add up to.
Total(values, n) == SumOver(values, {iterators[i] : i \in 1 .. n})

\* find_pivot_term: the first position where the bounds of the lists exceed
\* theta, moved to the last cursor at the same document; none if they never do.
Pivots ==
  LET enough == {i \in DOMAIN iterators : Total(BoundOf, i) > theta}
  IN IF enough = {} THEN {}
     ELSE {Max({i \in DOMAIN iterators :
                  at[iterators[i]] = at[iterators[Min(enough)]]})}

\* The cursor at position i moves to its first later document that is at
\* least least: it is dropped when there is none, and bubbles to the right of
\* the cursors at smaller documents otherwise.
AdvanceTo(i, least) ==
  LET c      == iterators[i]
      onward == Onward(lists[c], at[c], least)
      others == RemoveAt(iterators, i)
      behind == {j \in DOMAIN others : j < i \/ at[others[j]] < Min(onward)}
  IN IF onward = {}
     THEN iterators' = others /\ UNCHANGED at
     ELSE /\ at' = [at EXCEPT ![c] = Min(onward)]
          /\ iterators' = InsertAt(others, Cardinality(behind) + 1, c)

\* The pivot is the last candidate.
Considered(p) == at[iterators[p]] <= curDoc

\* The first cursor, and so every one up to p, is at the pivot.
Aligned(p) == at[iterators[1]] = at[iterators[p]]

\* find_pivot_term found a pivot that is not at hand: the first cursor moves to
\* it, or past it when it was the last candidate.
AdvanceFirst ==
  /\ \E p \in Pivots :
       /\ Considered(p) \/ ~Aligned(p)
       /\ AdvanceTo(1, at[iterators[p]])
  /\ UNCHANGED <<input, curDoc, theta, heap, answered, answer>>
  /\ iterations' = iterations + 1

\* Mutant of SkipTo: the cursors after the pivot are not looked at.
SkipToBlockEnd(p) ==
  Min({MaxBlockDocId(lists[iterators[i]], at[iterators[i]]) : i \in 1 .. p}) + 1

\* Where the cursors at the pivot p may go: past the first of their blocks to
\* end, but not past the next cursor, and forward.
SkipTo(p) ==
  LET ends  == {MaxBlockDocId(lists[iterators[i]], at[iterators[i]]) : i \in 1 .. p}
      after == {at[iterators[i]] : i \in (p + 1) .. Len(iterators)}
  IN Max({at[iterators[p]] + 1, Min({Min(ends) + 1} \cup after)})

\* The last of the cursors up to p with the largest bound.
Costliest(p) ==
  Max({i \in 1 .. p : \A j \in 1 .. p : BoundOf[iterators[j]] <= BoundOf[iterators[i]]})

\* The blocks at the pivot cannot beat the threshold: one cursor skips them.
PruneBlocks ==
  /\ \E p \in Pivots :
       /\ ~Considered(p) /\ Aligned(p)
       /\ Total(BlockBoundOf, p) <= theta
       /\ AdvanceTo(Costliest(p), SkipTo(p))
  /\ UNCHANGED <<input, curDoc, theta, heap, answered, answer>>
  /\ iterations' = iterations + 1

\* The pivot is a candidate (WandSearch::next returns it).
IsCandidate(p) ==
  /\ ~Considered(p) /\ Aligned(p)
  /\ Total(BlockBoundOf, p) > theta

\* The filter rejects the candidate.
Reject ==
  /\ \E p \in Pivots :
       /\ IsCandidate(p)
       /\ ~Accept(filter, at[iterators[p]])
       /\ curDoc' = at[iterators[p]]
  /\ UNCHANGED <<input, at, iterators, theta, heap, answered, answer>>
  /\ iterations' = iterations + 1

(***************************************************************************)
(* Scoring the candidate, which the cursors up to p hold: the bound of its *)
(* blocks is tightened by each value in turn, and scoring stops when it    *)
(* falls to theta.                                                         *)
(***************************************************************************)
ValueOf == [c \in Cursors |-> lists[c][at[c]]]

Tightened(n, p) ==
  Total(BlockBoundOf, p) - Total(BlockBoundOf, n) + Total(ValueOf, n)

Dominated(p) == \E n \in 1 .. p : Tightened(n, p) <= theta

\* The candidate is scored and, unless it cannot beat theta, offered to the heap.
ScoreCandidate ==
  /\ \E p \in Pivots :
       LET candidate == at[iterators[p]] IN
       /\ IsCandidate(p)
       /\ Accept(filter, candidate)
       /\ curDoc' = candidate
       /\ IF Dominated(p) THEN UNCHANGED <<heap, theta>>
          ELSE /\ heap' \in Added(heap, topK, Hit(candidate, Total(ValueOf, p)))
               /\ theta' = Threshold(heap', topK, minScore)
  /\ UNCHANGED <<input, at, iterators, answered, answer>>
  /\ iterations' = iterations + 1

\* No pivot: nothing that is left can beat the threshold.
Finish ==
  /\ ~answered
  /\ Pivots = {}
  /\ answered' = TRUE
  /\ \E hits \in Decreasing(heap) : answer' = Remapped(filter, hits)
  /\ UNCHANGED <<input, at, iterators, curDoc, theta, heap, iterations>>

\* The caller has its answer.
Done == answered /\ UNCHANGED vars

Next == AdvanceFirst \/ PruneBlocks \/ Reject \/ ScoreCandidate \/ Finish \/ Done

Spec == Init /\ [][Next]_vars

----------------------------------------------------------------------------
Candidates == Eligible(lists, filter, accepted)

\* The variables have their types: cursors are where they have a posting.
TypeOK ==
  /\ at \in [Cursors -> Nat] /\ \A c \in Cursors : at[c] \in DOMAIN lists[c]
  /\ IsInjective(iterators) /\ ToSet(iterators) \subseteq Cursors
  /\ curDoc \in Nat \cup {-1} /\ theta \in Nat
  /\ heap \subseteq [docid : Candidates, score : Nat] /\ Cardinality(heap) <= topK
  /\ answered \in BOOLEAN /\ \A i \in DOMAIN answer : answer[i].docid \in accepted

\* find_pivot_term and the scoring of a candidate rely on the cursors being
\* sorted, which is done once: the moves of one cursor at a time keep it.
StaysSorted == Sorted(iterators, at)

(***************************************************************************)
(* Pruning is safe at every step: an accepted document that beats the      *)
(* threshold and is not in the heap has not been a candidate, and is still *)
(* ahead of every cursor that holds it.                                    *)
(***************************************************************************)
NothingLost ==
  \A d \in Candidates :
    Score(lists, d) > theta /\ d \notin Docids(heap) =>
      /\ d > curDoc
      /\ \A c \in Holders(lists, d) : c \in ToSet(iterators) /\ at[c] <= d

\* What the documents that may be returned score.
Scores == ScoresOf(lists, filter, accepted)

(***************************************************************************)
(* The search ends: every iteration leaves the cursors less to read, or    *)
(* makes the document of the first one the last candidate, which happens   *)
(* at most once before that cursor moves.                                  *)
(***************************************************************************)
Left == SumOver(ToRead(lists, at), ToSet(iterators))

BoundedWork == iterations + 2 * Left <= 2 * SumOver(Lengths(lists), Cursors) + 1
=============================================================================
