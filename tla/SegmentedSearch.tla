-------------------------- MODULE SegmentedSearch --------------------------
(***************************************************************************)
(* Search over the segments of one collection, SegmentedSearch::search of  *)
(* src/src/search/segments.rs.                                             *)
(*                                                                         *)
(* Each segment is searched by MaxScore or WAND, of which only the         *)
(* contract is used: any answer it allows may come.  The answers are       *)
(* merged, and the k-th score found so far may be the initial threshold of *)
(* the next search.                                                        *)
(***************************************************************************)
EXTENDS TopScores

CONSTANTS
  Segments,   \* the positions of the segments
  Docs,       \* the document ids of a segment
  MaxScoreOf, \* bound: the largest score of a document
  TopKs       \* the numbers of documents a caller may ask for

\* There is a list of segments, and callers want some documents.
ASSUME SegmentsAssumption ==
  IsFiniteSet(Segments) /\ MaxScoreOf \in Nat /\ TopKs \subseteq Nat \ {0}

VARIABLES
  scoresOf,   \* per segment, the scores of the documents its filter accepts
  topK,       \* how many are wanted
  share,      \* share_threshold
  order,      \* the segments that are left, in the order of their sizes
  current,    \* the segment whose answer is merged, none at first
  pending,    \* the part of its answer that is not merged yet
  heap,       \* the best documents so far, as <<segment, docid>>
  answered, answer

segmentsVars == <<scoresOf, topK, share, order, current, pending, heap, answered, answer>>

SegmentsInit ==
  /\ scoresOf \in [Segments -> UNION {[docs -> 1 .. MaxScoreOf] : docs \in SUBSET Docs}]
  /\ topK \in TopKs
  /\ share \in BOOLEAN
  /\ order \in SetToSeqs(Segments)
  /\ current = {}
  /\ pending = <<>>
  /\ heap = {}
  /\ answered = FALSE
  /\ answer = <<>>

\* min_score: the k-th score of a full heap, when it is shared.
MinScore == IF share THEN Threshold(heap, topK, 0) ELSE 0

\* What search_maxscore_with or search_wand_with may return.
Answers(scores, least) ==
  {result \in BoundedSeq([docid : DOMAIN scores, score : 0 .. MaxScoreOf], topK) :
     IsAnswer(result, scores, topK, least)}

\* The next segment is searched.
SearchSegment ==
  /\ order # <<>> /\ pending = <<>>
  /\ current' = {Head(order)}
  /\ pending' \in Answers(scoresOf[Head(order)], MinScore)
  /\ order' = Tail(order)
  /\ UNCHANGED <<scoresOf, topK, share, heap, answered, answer>>

\* A hit enters the heap, for a lower one when it is full; the first that does
\* not ends the merge, as the answer comes by decreasing score.
Merge ==
  /\ pending # <<>>
  /\ \E segment \in current :
       LET h == Hit(<<segment, Head(pending).docid>>, Head(pending).score) IN
       IF Cardinality(heap) < topK \/ Lowest(heap) < h.score
       THEN heap' \in Added(heap, topK, h) /\ pending' = Tail(pending)
       ELSE UNCHANGED heap /\ pending' = <<>>
  /\ UNCHANGED <<scoresOf, topK, share, order, current, answered, answer>>

Finish ==
  /\ order = <<>> /\ pending = <<>> /\ ~answered
  /\ answered' = TRUE
  /\ answer' \in Decreasing(heap)
  /\ UNCHANGED <<scoresOf, topK, share, order, current, pending, heap>>

SegmentsNext == SearchSegment \/ Merge \/ Finish

SegmentsSpec == SegmentsInit /\ [][SegmentsNext]_segmentsVars

----------------------------------------------------------------------------
Documents == UNION {{s} \X DOMAIN scoresOf[s] : s \in Segments}

SegmentsScores == [d \in Documents |-> scoresOf[d[1]][d[2]]]

\* The variables have their types.
SegmentsTypeOK ==
  /\ ToSet(order) \cup current \subseteq Segments
  /\ ToSet(order) \cap current = {}
  /\ Cardinality(current) <= 1
  /\ ToSet(pending) \subseteq [docid : Docs, score : 0 .. MaxScoreOf]
  /\ heap \subseteq [docid : Documents, score : 0 .. MaxScoreOf]
  /\ Cardinality(heap) <= topK
  /\ answered \in BOOLEAN

(***************************************************************************)
(* Between two segments the heap answers the search of the segments done:  *)
(* what a shared threshold made a segment leave out, or score in part, is  *)
(* not missed, and the hits after the one that ends a merge are not        *)
(* either.                                                                 *)
(***************************************************************************)
MergedSoFar ==
  pending = <<>> =>
    LET done == {d \in Documents : d[1] \notin ToSet(order)} IN
    \E result \in Decreasing(heap) :
      IsAnswer(result, [d \in done |-> SegmentsScores[d]], topK, 0)
=============================================================================
