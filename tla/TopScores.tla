----------------------------- MODULE TopScores -----------------------------
(***************************************************************************)
(* Scored documents, the bounded heap of the best of them, and what it     *)
(* means to be an answer of a top-k search (src/src/search/mod.rs).        *)
(*                                                                         *)
(* Scores are natural numbers: impacts and query weights are not negative. *)
(***************************************************************************)
EXTENDS Integers, SequencesExt

\* ScoredDocument.
Hit(d, s) == [docid |-> d, score |-> s]

Docids(hits) == {h.docid : h \in hits}

Lowest(hits) == Min({h.score : h \in hits})

\* What the values of f at the members of S add up to.
SumOver(f, S) == MapThenSumSet(LAMBDA x : f[x], S)

\* Mutant of Added: the heap takes one more than it should.
AddedOneMore(heap, k, h) ==
  IF Cardinality(heap) <= k THEN {heap \cup {h}} ELSE {heap}

(***************************************************************************)
(* TopScoredDocuments::add.  The heap orders hits by score alone, so which *)
(* of several lowest ones is popped is open.  When it is full and holds    *)
(* nothing (k = 0) the code panics: callers have k > 0.                    *)
(***************************************************************************)
Added(heap, k, h) ==
  IF Cardinality(heap) < k THEN {heap \cup {h}}
  ELSE IF Lowest(heap) < h.score
  THEN {(heap \ {l}) \cup {h} : l \in {x \in heap : x.score = Lowest(heap)}}
  ELSE {heap}

\* What add returns, raised to the initial threshold by its callers:
\* the lowest score of a full heap, minus infinity before.
Threshold(heap, k, least) ==
  IF Cardinality(heap) < k THEN least ELSE Max({least, Lowest(heap)})

\* into_sorted_vec: by decreasing score, equal scores in any order.
Decreasing(hits) ==
  {s \in [1 .. Cardinality(hits) -> hits] :
     /\ ToSet(s) = hits
     /\ \A i \in 2 .. Len(s) : s[i - 1].score >= s[i].score}

(***************************************************************************)
(* Result is an answer to "the k best of the documents scored by scores,   *)
(* those scoring at most least being of no interest": they come by         *)
(* decreasing score, none twice; a document of interest has its score; and *)
(* one that is missing is not better than any of k others.                 *)
(***************************************************************************)
IsAnswer(result, scores, k, least) ==
  LET hits == ToSet(result) IN
  /\ IsInjective([i \in DOMAIN result |-> result[i].docid])
  /\ \A i \in 2 .. Len(result) : result[i - 1].score >= result[i].score
  /\ Len(result) <= k
  /\ \A h \in hits :
       /\ h.docid \in DOMAIN scores
       /\ h.score <= scores[h.docid]
       /\ scores[h.docid] > least => h.score = scores[h.docid]
  /\ \A d \in DOMAIN scores \ Docids(hits) :
       scores[d] > least =>
         /\ Len(result) = k
         /\ \A h \in hits : h.score >= scores[d]
=============================================================================
