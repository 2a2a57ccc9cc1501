----------------------------- MODULE MaxScore -----------------------------
(***************************************************************************)
(* The MaxScore algorithm, search_maxscore_core of                         *)
(* src/src/search/maxscore.rs.                                             *)
(*                                                                         *)
(* Cursors are split into active ones, that propose candidates, and        *)
(* passive ones, whose lists together cannot bring a document above the    *)
(* threshold theta and which are only consulted to score a candidate.  A   *)
(* step is one iteration of the loop.                                      *)
(***************************************************************************)
EXTENDS TermCursors

VARIABLES
  lists, filter, topK, minScore,     \* the search: chosen once
  accepted,    \* the documents the caller filters for, by the ids it knows
  at,          \* the document each cursor is at
  active,      \* the cursors that propose candidates, in order
  passive,     \* the others, the last to become passive last
  sumPass,     \* what the passive lists can add at most
  theta,       \* what a document has to beat
  heap,        \* the best documents so far
  answered, answer,
  iterations   \* of the loop so far: counted for BoundedWork, not by the code

input == <<lists, filter, accepted, topK, minScore>>
\* The iterators of the query's terms.
Cursors == DOMAIN lists

vars == <<input, at, active, passive, sumPass, theta, heap, answered, answer,
          iterations>>

\* sort_by on the length (increasing) or on the maximum (decreasing): equal
\* cursors stay in the order of the query's hash map, which is any order.
Ordered(seq, byLength) ==
  \A i \in 2 .. Len(seq) :
    LET a == lists[seq[i - 1]]
        b == lists[seq[i]]
    IN IF byLength THEN Cardinality(DOMAIN a) <= Cardinality(DOMAIN b)
       ELSE MaxValue(a) >= MaxValue(b)

Init ==
  /\ \E search \in Searches :
       /\ lists = search.lists /\ filter = search.filter /\ accepted = search.accepted
       /\ topK = search.topK /\ minScore = search.minScore
  /\ at = [c \in Cursors |-> Min(DOMAIN lists[c])]
  /\ \E byLength \in BOOLEAN :
       active \in {seq \in SetToSeqs(Cursors) : Ordered(seq, byLength)}
  /\ passive = <<>>
  /\ sumPass = 0
  /\ theta = minScore
  /\ heap = {}
  /\ answered = FALSE
  /\ answer = <<>>
  /\ iterations = 0

----------------------------------------------------------------------------
Candidate == Min({at[c] : c \in ToSet(active)})

AtCandidate == {c \in ToSet(active) : at[c] = Candidate}

\* The bound of the blocks around the candidate.
BlockBound == SumOver(BlockBounds(lists, at), AtCandidate) + sumPass

\* Where the active cursors at the candidate may go without a look: past the
\* first of their blocks to end, but not past another active cursor.
SkipTo ==
  Min({MaxBlockDocId(lists[c], at[c]) + 1 : c \in AtCandidate}
      \cup {at[c] : c \in ToSet(active) \ AtCandidate})

Exhausted(least) == {c \in AtCandidate : Onward(lists[c], at[c], least) = {}}

\* Mutant of Moved: one of the cursors at the candidate moves.
MovedOne(least) ==
  LET c == CHOOSE x \in AtCandidate : TRUE
  IN [at EXCEPT ![c] = IF c \in Exhausted(least) THEN @
                       ELSE Min(Onward(lists[c], @, least))]

\* retain_mut: the cursors at the candidate move; those with nothing left go.
Moved(least) ==
  [c \in Cursors |->
     IF c \in AtCandidate \ Exhausted(least)
     THEN Min(Onward(lists[c], at[c], least)) ELSE at[c]]

\* What is left of some cursors without those of gone.
Without(some, gone) ==
  LET kept == {i \in DOMAIN some : some[i] \notin gone}
      place(i) == Cardinality({j \in kept : j <= i})
  IN [n \in 1 .. Cardinality(kept) |-> some[CHOOSE i \in kept : place(i) = n]]

Retained(least) == Without(active, Exhausted(least))

\* The end of each iteration: the last active cursor becomes passive when it
\* and all passive ones together stay below the threshold.
Expand(left, pass, sum) ==
  IF left # <<>> /\ MaxValue(lists[Last(left)]) + sum < theta'
  THEN /\ active' = Front(left)
       /\ passive' = Append(pass, Last(left))
       /\ sumPass' = sum + MaxValue(lists[Last(left)])
  ELSE active' = left /\ passive' = pass /\ sumPass' = sum

\* Mutant of ConsultOne: the bound of the cursor is subtracted too early.
ConsultOneLate(c, s) ==
  IF s.stopped \/ s.score + s.rest - MaxValue(lists[c]) <= theta
  THEN [s EXCEPT !.stopped = TRUE]
  ELSE
    LET onward == Onward(lists[c], at[c] - 1, Candidate)
        added  == IF Candidate \in onward THEN lists[c][Candidate] ELSE 0
    IN IF onward = {}
       THEN [s EXCEPT !.rest = @ - MaxValue(lists[c]), !.gone = @ \cup {c}]
       ELSE [s EXCEPT !.rest = @ - MaxValue(lists[c]),
                      !.score = @ + added,
                      !.at[c] = Min(onward)]

(***************************************************************************)
(* Scoring the passive cursors, from the last one: they are moved to the   *)
(* candidate and asked for it, until what is left cannot help.  An         *)
(* exhausted cursor is removed.                                            *)
(***************************************************************************)
ConsultOne(c, s) ==
  IF s.stopped \/ s.score + s.rest <= theta THEN [s EXCEPT !.stopped = TRUE]
  ELSE
    LET onward == Onward(lists[c], at[c] - 1, Candidate)
        added  == IF Candidate \in onward THEN lists[c][Candidate] ELSE 0
    IN IF onward = {}
       THEN [s EXCEPT !.rest = @ - MaxValue(lists[c]), !.gone = @ \cup {c}]
       ELSE [s EXCEPT !.rest = @ - MaxValue(lists[c]),
                      !.score = @ + added,
                      !.at[c] = Min(onward)]

Consulted(score, moved) ==
  FoldRight(ConsultOne, passive,
            [score |-> score, rest |-> sumPass, at |-> moved,
             gone |-> {}, stopped |-> FALSE])

----------------------------------------------------------------------------
\* The blocks around the candidate cannot beat the threshold.
PruneBlocks ==
  /\ active # <<>>
  /\ BlockBound <= theta
  /\ at' = Moved(SkipTo)
  /\ UNCHANGED <<input, theta, heap, answered, answer>>
  /\ iterations' = iterations + 1
  /\ Expand(Retained(SkipTo), passive, sumPass)

\* Mutant of Reject: the cursors are not moved.
RejectInPlace ==
  /\ active # <<>>
  /\ BlockBound > theta
  /\ ~Accept(filter, Candidate)
  /\ UNCHANGED <<input, at, theta, heap, answered, answer>>
  /\ iterations' = iterations + 1
  /\ Expand(active, passive, sumPass)

\* The filter rejects the candidate.
Reject ==
  /\ active # <<>>
  /\ BlockBound > theta
  /\ ~Accept(filter, Candidate)
  /\ at' = Moved(0)
  /\ UNCHANGED <<input, theta, heap, answered, answer>>
  /\ iterations' = iterations + 1
  /\ Expand(Retained(0), passive, sumPass)

\* The candidate is scored and offered to the heap.
ScoreCandidate ==
  /\ active # <<>>
  /\ BlockBound > theta
  /\ Accept(filter, Candidate)
  /\ LET first == SumOver(ValuesAt(lists, Candidate), AtCandidate)
         s == Consulted(first, Moved(0))
     IN /\ at' = s.at
        /\ heap' \in Added(heap, topK, Hit(Candidate, s.score))
        /\ theta' = Threshold(heap', topK, minScore)
        /\ Expand(Retained(0),
                  Without(passive, s.gone),
                  sumPass - SumOver(Bounds(lists), s.gone))
  /\ UNCHANGED <<input, answered, answer>>
  /\ iterations' = iterations + 1

\* No active cursor is left.
Finish ==
  /\ active = <<>>
  /\ ~answered
  /\ answered' = TRUE
  /\ \E hits \in Decreasing(heap) : answer' = Remapped(filter, hits)
  /\ UNCHANGED <<input, at, active, passive, sumPass, theta, heap, iterations>>

\* The caller has its answer.
Done == answered /\ UNCHANGED vars

Next == PruneBlocks \/ Reject \/ ScoreCandidate \/ Finish \/ Done

Spec == Init /\ [][Next]_vars

----------------------------------------------------------------------------
Candidates == Eligible(lists, filter, accepted)

\* The variables have their types: cursors are where they have a posting, and
\* none is both active and passive.
TypeOK ==
  /\ at \in [Cursors -> Nat] /\ \A c \in Cursors : at[c] \in DOMAIN lists[c]
  /\ IsInjective(active \o passive)
  /\ ToSet(active \o passive) \subseteq Cursors
  /\ sumPass \in Nat /\ theta \in Nat
  /\ heap \subseteq [docid : Candidates, score : Nat] /\ Cardinality(heap) <= topK
  /\ answered \in BOOLEAN /\ \A i \in DOMAIN answer : answer[i].docid \in accepted

(***************************************************************************)
(* Pruning is safe at every step: an accepted document that beats the      *)
(* threshold and is not in the heap is still ahead of every cursor that    *)
(* holds it, and one of them is active and will propose it.  Block skips,  *)
(* the removal of exhausted cursors and the moves of passive cursors while *)
(* other documents are scored may all break it.                            *)
(***************************************************************************)
NothingLost ==
  \A d \in Candidates :
    Score(lists, d) > theta /\ d \notin Docids(heap) =>
      /\ \A c \in Holders(lists, d) : c \in ToSet(active \o passive) /\ at[c] <= d
      /\ \E c \in Holders(lists, d) : c \in ToSet(active)

(***************************************************************************)
(* The bound the passive terms are skipped on is what their lists can add, *)
(* below the threshold, through expansions and removals.                   *)
(***************************************************************************)
PassiveStaysBelow ==
  /\ sumPass = SumOver(Bounds(lists), ToSet(passive))
  /\ passive # <<>> => sumPass < theta

\* What the documents that may be returned score.
Scores == ScoresOf(lists, filter, accepted)

(***************************************************************************)
(* The search ends: every iteration leaves the active cursors less to      *)
(* read, and the loop has no other bound.                                  *)
(***************************************************************************)
Left == SumOver(ToRead(lists, at), ToSet(active))

BoundedWork == iterations + Left <= SumOver(Lengths(lists), Cursors)
=============================================================================
