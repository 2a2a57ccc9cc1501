---------------------------- MODULE SearchProofs ----------------------------
(***************************************************************************)
(* The theorems of the three searches as theorems about the system that    *)
(* runs any of them: the properties stated in MCSearch hold for all        *)
(* lists, filters, numbers of results, thresholds, segments and their      *)
(* scores, and not only for the small ones that are enumerated there.      *)
(* Those of the search over segments are proved here, with its inductive   *)
(* invariant; those of the other two come from the proofs of their modules.*)
(***************************************************************************)
EXTENDS MCSearch, SearchLemmas, TLAPS

-----------------------------------------------------------------------------
(***************************************************************************)
(* The search over segments: the inductive invariant                       *)
(***************************************************************************)

\* The k-th best score so far.
T == Threshold(heap, topK, 0)

\* The documents of the segments searched so far.
Searched == {d \in Documents : d[1] \notin ToSet(order)}

\* What was asked: the documents of a segment score at least 1.
InputOK ==
  /\ MaxScoreOf \in Nat /\ topK \in Nat \ {0} /\ share \in BOOLEAN
  /\ \A s \in Segments :
       /\ DOMAIN scoresOf[s] \subseteq Docs
       /\ \A x \in DOMAIN scoresOf[s] : scoresOf[s][x] \in 1 .. MaxScoreOf

\* A segment is searched once; the answer that is merged came from one.
OrderOK ==
  /\ AreDistinct(order, Segments)
  /\ pending \in Seq([docid : Docs, score : 0 .. MaxScoreOf])
  /\ \/ current = {} /\ pending = <<>>
     \/ \E s \in Segments \ ToSet(order) : current = {s}

\* The heap holds documents searched, with their scores.
HeapOK ==
  /\ IsHeap(heap, Searched, topK)
  /\ \A h \in heap : h.score = SegmentsScores[h.docid]

\* The answer comes by decreasing score, a document once and never one of the
\* heap, with its score unless that is too low to matter.
PendingOK ==
  /\ \A i, j \in DOMAIN pending : pending[i].docid = pending[j].docid => i = j
  /\ \A i, j \in DOMAIN pending : i <= j => pending[i].score >= pending[j].score
  /\ \A s \in current : \A i \in DOMAIN pending :
       /\ pending[i].docid \in DOMAIN scoresOf[s]
       /\ <<s, pending[i].docid>> \notin Docids(heap)
       /\ pending[i].score <= scoresOf[s][pending[i].docid]
       /\ \/ scoresOf[s][pending[i].docid] <= T
          \/ scoresOf[s][pending[i].docid] = pending[i].score

\* Document d is in the answer that is merged, with its score.
IsPending(d) ==
  /\ d[1] \in current
  /\ \E i \in DOMAIN pending : pending[i] = [docid |-> d[2], score |-> SegmentsScores[d]]

\* As many hits as are wanted, found or about to be merged, are no worse than d.
IsBeaten(d) ==
  /\ \A i \in DOMAIN pending : pending[i].score >= SegmentsScores[d]
  /\ Cardinality(Above(heap, SegmentsScores[d])) + Len(pending) >= topK

\* A document searched that the heap misses is not better than the threshold, or
\* is about to be merged, or is beaten.
MissingOK ==
  \A d \in Searched \ Docids(heap) : SegmentsScores[d] <= T \/ IsPending(d) \/ IsBeaten(d)

AnswerOK == answered \in BOOLEAN /\ (answered => order = <<>> /\ pending = <<>>)

IInv == InputOK /\ OrderOK /\ HeapOK /\ PendingOK /\ MissingOK /\ AnswerOK

\* What identifies a document, and its score.
LEMMA DocumentFacts ==
  ASSUME InputOK
  PROVE  /\ DOMAIN SegmentsScores = Documents
         /\ \A s \in Segments : \A x \in DOMAIN scoresOf[s] :
              <<s, x>> \in Documents /\ SegmentsScores[<<s, x>>] = scoresOf[s][x]
         /\ \A d \in Documents :
              /\ d[1] \in Segments /\ d[2] \in DOMAIN scoresOf[d[1]] /\ d[2] \in Docs
              /\ d = <<d[1], d[2]>>
              /\ SegmentsScores[d] = scoresOf[d[1]][d[2]]
              /\ SegmentsScores[d] \in 1 .. MaxScoreOf /\ SegmentsScores[d] \in Nat
<1>1. \A s \in Segments : \A x \in DOMAIN scoresOf[s] : <<s, x>> \in Documents
  BY DEF Documents
<1>2. ASSUME NEW d \in Documents
      PROVE  /\ d[1] \in Segments /\ d[2] \in DOMAIN scoresOf[d[1]]
             /\ d = <<d[1], d[2]>>
  BY DEF Documents
<1>3. \A d \in Documents : SegmentsScores[d] = scoresOf[d[1]][d[2]]
  BY DEF SegmentsScores
<1>4. DOMAIN SegmentsScores = Documents
  BY DEF SegmentsScores
<1>5. ASSUME NEW d \in Documents
      PROVE  d[2] \in Docs /\ scoresOf[d[1]][d[2]] \in 1 .. MaxScoreOf
             /\ scoresOf[d[1]][d[2]] \in Nat
  BY <1>2 DEF InputOK
<1>6. \A s \in Segments : \A x \in DOMAIN scoresOf[s] : SegmentsScores[<<s, x>>] = scoresOf[s][x]
  BY <1>1, <1>3
<1>. QED
  BY <1>1, <1>2, <1>3, <1>4, <1>5, <1>6

\* When an answer is merged, no document searched and missed beats the threshold.
LEMMA NothingMissed ==
  ASSUME InputOK, OrderOK, HeapOK, MissingOK, pending = <<>>
  PROVE  \A d \in Searched \ Docids(heap) : SegmentsScores[d] <= T
<1> SUFFICES ASSUME NEW d \in Searched \ Docids(heap), ~(SegmentsScores[d] <= T) PROVE FALSE
  OBVIOUS
<1>1. SegmentsScores[d] \in Nat
  BY DocumentFacts DEF Searched
<1>2. DOMAIN pending = {} /\ Len(pending) = 0
  OBVIOUS
<1>3. ~IsPending(d)
  BY <1>2 DEF IsPending
<1>4. IsBeaten(d)
  BY <1>3 DEF MissingOK
<1>5. IsFiniteSet(heap) /\ topK \in Nat \ {0}
  BY DEF HeapOK, IsHeap, InputOK
<1>6. Cardinality(Above(heap, SegmentsScores[d])) \in Nat
  BY <1>5, FS_Subset, FS_CardinalityType DEF Above
<1>7. Cardinality(Above(heap, SegmentsScores[d])) >= topK
  BY <1>2, <1>4, <1>5, <1>6 DEF IsBeaten
<1>8. SegmentsScores[d] <= Threshold(heap, topK, 0)
  BY <1>1, <1>5, <1>7, AllAbove DEF HeapOK
<1>. QED
  BY <1>8 DEF T

-----------------------------------------------------------------------------
(***************************************************************************)
(* The search over segments: its steps                                     *)
(***************************************************************************)

input == <<scoresOf, topK, share>>

\* No step changes the segments, and so neither the documents nor their scores.
LEMMA InputStays ==
  ASSUME UNCHANGED input
  PROVE  Documents' = Documents /\ SegmentsScores' = SegmentsScores /\ (InputOK => InputOK')
<1>1. Documents' = Documents
  BY DEF Documents, input
<1>2. SegmentsScores' = SegmentsScores
  BY <1>1 DEF SegmentsScores, input
<1>3. InputOK => InputOK'
  BY DEF InputOK, input
<1>. QED
  BY <1>1, <1>2, <1>3

\* Nothing is searched yet and nothing is pending.
LEMMA InitInvariant ==
  ASSUME SegmentsInit
  PROVE  IInv
<1>1. InputOK
  BY SegmentsAssumption DEF SegmentsInit, InputOK
<1>2. AreDistinct(order, Segments) /\ ToSet(order) = Segments
  BY SegmentsAssumption, SequenceOfAll DEF SegmentsInit
<1>3. pending = <<>> /\ current = {} /\ heap = {} /\ DOMAIN pending = {} /\ answered = FALSE
  BY DEF SegmentsInit
<1>4. OrderOK
  BY <1>2, <1>3 DEF OrderOK
<1>5. Searched = {}
  BY <1>1, <1>2, DocumentFacts DEF Searched
<1>6. HeapOK
  <2>1. Cardinality(heap) = 0 /\ IsFiniteSet(heap)
    BY <1>3, FS_EmptySet
  <2>. QED
    BY <1>1, <1>3, <2>1 DEF HeapOK, IsHeap, InputOK
<1>7. PendingOK
  BY <1>3 DEF PendingOK
<1>8. MissingOK
  BY <1>5 DEF MissingOK
<1>. QED
  BY <1>1, <1>3, <1>4, <1>6, <1>7, <1>8 DEF IInv, AnswerOK

\* The answer of a search is a sequence of hits by decreasing score, each document
\* once, and says of every document whether it is in or why not.
LEMMA AnswerFacts ==
  ASSUME NEW scores, NEW docs, DOMAIN scores \subseteq docs, MaxScoreOf \in Nat,
         topK \in Nat \ {0}, NEW least \in Nat, NEW result \in Answers(scores, least),
         \A x \in DOMAIN scores : scores[x] \in Nat
  PROVE  /\ result \in Seq([docid : docs, score : 0 .. MaxScoreOf])
         /\ \A i, j \in DOMAIN result : result[i].docid = result[j].docid => i = j
         /\ \A i, j \in DOMAIN result : i <= j => result[i].score >= result[j].score
         /\ \A i \in DOMAIN result :
              /\ result[i].docid \in DOMAIN scores
              /\ result[i].score <= scores[result[i].docid]
              /\ scores[result[i].docid] > least => scores[result[i].docid] = result[i].score
         /\ \A x \in DOMAIN scores :
              \/ scores[x] <= least
              \/ \E i \in DOMAIN result : result[i] = [docid |-> x, score |-> scores[x]]
              \/ Len(result) = topK /\ \A i \in DOMAIN result : result[i].score >= scores[x]
<1> DEFINE hit == [docid : DOMAIN scores, score : 0 .. MaxScoreOf]
           all == [docid : docs, score : 0 .. MaxScoreOf]
<1>1. IsAnswer(result, scores, topK, least) /\ result \in BoundedSeq(hit, topK)
  BY DEF Answers
<1>2. PICK m \in 0 .. topK : result \in [1 .. m -> hit]
  BY <1>1 DEF BoundedSeq, SeqOf
<1>3. hit \subseteq all
  OBVIOUS
<1>4. result \in Seq(all) /\ \A i \in DOMAIN result : result[i] \in hit
  <2>1. \A i \in 1 .. m : result[i] \in hit
    BY <1>2
  <2>2. DOMAIN result = 1 .. m /\ m \in Nat
    BY <1>2
  <2>3. result \in [1 .. m -> all]
    <3> HIDE DEF hit, all
    <3>. QED
      BY <1>2, <1>3
  <2> HIDE DEF hit, all
  <2>. QED
    BY <2>1, <2>2, <2>3
<1>5. \A i \in DOMAIN result : result[i].score \in Nat /\ result[i].docid \in DOMAIN scores
      /\ result[i] = [docid |-> result[i].docid, score |-> result[i].score]
  <2> SUFFICES ASSUME NEW i \in DOMAIN result
               PROVE  /\ result[i].score \in Nat /\ result[i].docid \in DOMAIN scores
                      /\ result[i] = [docid |-> result[i].docid, score |-> result[i].score]
    OBVIOUS
  <2>1. result[i] \in hit
    BY <1>4
  <2>. QED
    BY <2>1
<1>6. \A i, j \in DOMAIN result : result[i].docid = result[j].docid => i = j
  BY <1>1 DEF IsAnswer, IsInjective
<1>7. \A i \in 2 .. Len(result) : result[i - 1].score >= result[i].score
  BY <1>1 DEF IsAnswer
<1>8. \A i, j \in DOMAIN result : i <= j => result[i].score >= result[j].score
  <2>1. \A h \in all : h.score \in Nat
    OBVIOUS
  <2> HIDE DEF all, hit
  <2>. QED
    BY <1>4, <1>7, <2>1, DecreasingFar
<1>9. \A i \in DOMAIN result :
        /\ result[i].docid \in DOMAIN scores
        /\ result[i].score <= scores[result[i].docid]
        /\ scores[result[i].docid] > least => scores[result[i].docid] = result[i].score
  BY <1>1 DEF IsAnswer, ToSet
<1>10. ASSUME NEW x \in DOMAIN scores, ~(scores[x] <= least)
       PROVE  \/ \E i \in DOMAIN result : result[i] = [docid |-> x, score |-> scores[x]]
              \/ Len(result) = topK /\ \A i \in DOMAIN result : result[i].score >= scores[x]
  <2>1. scores[x] > least
    BY <1>10
  <2>2. CASE x \in Docids(ToSet(result))
    <3>1. PICK i \in DOMAIN result : result[i].docid = x
      BY <2>2 DEF Docids, ToSet
    <3>2. result[i].score = scores[x]
      BY <1>9, <2>1, <3>1
    <3>. QED
      BY <1>5, <3>1, <3>2
  <2>3. CASE x \notin Docids(ToSet(result))
    BY <1>1, <2>1, <2>3 DEF IsAnswer, ToSet
  <2>. QED
    BY <2>2, <2>3
<1> HIDE DEF all, hit
<1>11. result \in Seq([docid : docs, score : 0 .. MaxScoreOf])
  BY <1>4 DEF all
<1>. QED
  BY <1>6, <1>8, <1>9, <1>10, <1>11

\* A segment's answer: its search knew no higher threshold than the heap's.
LEMMA SearchSegmentKeeps ==
  ASSUME IInv, SearchSegment
  PROVE  IInv'
<1> DEFINE s == Head(order)
<1>1. /\ InputOK /\ OrderOK /\ HeapOK /\ PendingOK /\ MissingOK /\ AnswerOK
      /\ UNCHANGED input /\ UNCHANGED <<heap, answered, answer>>
  BY DEF IInv, SearchSegment, input
<1>2. Documents' = Documents /\ SegmentsScores' = SegmentsScores /\ InputOK'
  BY <1>1, InputStays
<1>3. /\ s \in Segments /\ s \in ToSet(order)
      /\ AreDistinct(order', Segments) /\ ToSet(order') = ToSet(order) \ {s}
  <2>1. order # <<>> /\ order' = Tail(order) /\ AreDistinct(order, Segments)
    BY <1>1 DEF SearchSegment, OrderOK
  <2>. QED
    BY <2>1, TailFacts
<1>4. pending = <<>> /\ current' = {s} /\ pending' \in Answers(scoresOf[s], MinScore)
  BY DEF SearchSegment
<1>5. T \in Nat /\ T' = T
  <2>1. T \in Nat
    BY <1>1, ThresholdFacts DEF T, HeapOK, InputOK
  <2>. QED
    BY <1>1, <2>1 DEF T, input
<1>6. MinScore \in Nat /\ MinScore <= T
  BY <1>1, <1>5 DEF MinScore, T, InputOK
<1> HIDE DEF s
<1>7. /\ DOMAIN scoresOf[s] \subseteq Docs /\ MaxScoreOf \in Nat /\ topK \in Nat \ {0}
      /\ \A x \in DOMAIN scoresOf[s] : scoresOf[s][x] \in Nat
  BY <1>1, <1>3 DEF InputOK
<1>8. /\ pending' \in Seq([docid : Docs, score : 0 .. MaxScoreOf])
      /\ \A i, j \in DOMAIN pending' : pending'[i].docid = pending'[j].docid => i = j
      /\ \A i, j \in DOMAIN pending' : i <= j => pending'[i].score >= pending'[j].score
      /\ \A i \in DOMAIN pending' :
           /\ pending'[i].docid \in DOMAIN scoresOf[s]
           /\ pending'[i].score <= scoresOf[s][pending'[i].docid]
           /\ scoresOf[s][pending'[i].docid] > MinScore =>
                scoresOf[s][pending'[i].docid] = pending'[i].score
      /\ \A x \in DOMAIN scoresOf[s] :
           \/ scoresOf[s][x] <= MinScore
           \/ \E i \in DOMAIN pending' :
                pending'[i] = [docid |-> x, score |-> scoresOf[s][x]]
           \/ Len(pending') = topK
              /\ \A i \in DOMAIN pending' : pending'[i].score >= scoresOf[s][x]
  BY <1>4, <1>6, <1>7, AnswerFacts
<1>9. OrderOK'
  BY <1>3, <1>4, <1>8 DEF OrderOK
<1>10. Searched \subseteq Searched'
       /\ \A d \in Searched' \ Searched : d \in Documents /\ d[1] = s
  BY <1>2, <1>3 DEF Searched
<1>11. HeapOK'
  BY <1>1, <1>2, <1>10 DEF HeapOK, IsHeap, input
<1>12. PendingOK'
  <2>1. ASSUME NEW i \in DOMAIN pending'
        PROVE  /\ <<s, pending'[i].docid>> \notin Docids(heap)
               /\ \/ scoresOf[s][pending'[i].docid] <= T
                  \/ scoresOf[s][pending'[i].docid] = pending'[i].score
    <3>1. <<s, pending'[i].docid>> \notin Docids(heap)
      <4>1. \A h \in heap : h.docid[1] # s
        BY <1>1, <1>3 DEF HeapOK, IsHeap, Searched
      <4>. QED
        BY <4>1 DEF Docids
    <3>2. pending'[i].docid \in DOMAIN scoresOf[s]
      BY <1>8
    <3>3. scoresOf[s][pending'[i].docid] \in Nat
      BY <1>7, <3>2
    <3>. QED
      BY <1>5, <1>6, <1>8, <3>1, <3>3
  <2>2. scoresOf' = scoresOf /\ heap' = heap
    BY <1>1 DEF input
  <2>. QED
    BY <1>4, <1>5, <1>8, <2>1, <2>2 DEF PendingOK
<1>13. MissingOK'
  <2> SUFFICES ASSUME NEW d \in Searched' \ Docids(heap), ~(SegmentsScores[d] <= T)
               PROVE  IsPending(d)' \/ IsBeaten(d)'
    BY <1>1, <1>2, <1>5 DEF MissingOK
  <2>1. d \notin Searched
    BY <1>1, <1>4, NothingMissed
  <2>2. d \in Documents /\ d[1] = s
    BY <1>10, <2>1
  <2>3. /\ d[2] \in DOMAIN scoresOf[s]
        /\ SegmentsScores[d] = scoresOf[s][d[2]] /\ SegmentsScores[d] \in Nat
    BY <1>1, <2>2, DocumentFacts
  <2>4. ~(scoresOf[s][d[2]] <= MinScore)
    BY <1>5, <1>6, <2>3
  <2>5. CASE \E i \in DOMAIN pending' :
               pending'[i] = [docid |-> d[2], score |-> scoresOf[s][d[2]]]
    <3>1. IsPending(d)'
      BY <1>2, <1>4, <2>2, <2>3, <2>5 DEF IsPending
    <3>. QED
      BY <3>1
  <2>6. CASE Len(pending') = topK
             /\ \A i \in DOMAIN pending' : pending'[i].score >= scoresOf[s][d[2]]
    <3>1. Cardinality(Above(heap, SegmentsScores[d])) \in Nat
      <4>1. IsFiniteSet(heap)
        BY <1>1 DEF HeapOK, IsHeap
      <4>. QED
        BY <4>1, FS_Subset, FS_CardinalityType DEF Above
    <3>2. topK' = topK /\ heap' = heap /\ topK \in Nat
      BY <1>1, <1>7 DEF input
    <3>3. Cardinality(Above(heap, SegmentsScores[d])) + Len(pending') >= topK
      BY <2>6, <3>1, <3>2
    <3>4. \A i \in DOMAIN pending' : pending'[i].score >= SegmentsScores[d]
      BY <2>3, <2>6
    <3>5. IsBeaten(d)'
      BY <1>2, <3>2, <3>3, <3>4 DEF IsBeaten
    <3>. QED
      BY <3>5
  <2>. QED
    BY <1>8, <2>3, <2>4, <2>5, <2>6
<1>14. ~answered
  BY <1>1 DEF AnswerOK, SearchSegment
<1>. QED
  BY <1>1, <1>2, <1>9, <1>11, <1>12, <1>13, <1>14 DEF IInv, AnswerOK

\* When all segments are merged the heap holds the answer.
LEMMA FinishKeeps ==
  ASSUME IInv, Finish
  PROVE  IInv'
<1>1. /\ UNCHANGED input /\ UNCHANGED <<order, current, pending, heap>>
      /\ order = <<>> /\ pending = <<>> /\ answered' = TRUE
  BY DEF Finish, input
<1>2. Documents' = Documents /\ SegmentsScores' = SegmentsScores /\ (InputOK => InputOK')
  BY <1>1, InputStays
<1>3. Searched' = Searched /\ T' = T /\ topK' = topK /\ scoresOf' = scoresOf
  BY <1>1, <1>2 DEF Searched, T, input
<1>4. OrderOK' /\ HeapOK' /\ PendingOK'
  BY <1>1, <1>2, <1>3 DEF IInv, OrderOK, HeapOK, PendingOK
<1>5. MissingOK'
  BY <1>1, <1>2, <1>3 DEF IInv, MissingOK, IsPending, IsBeaten
<1>. QED
  BY <1>1, <1>2, <1>4, <1>5 DEF IInv, AnswerOK

\* A hit is merged, or it is the first that is not better than a full heap.
LEMMA MergeKeeps ==
  ASSUME IInv, Merge
  PROVE  IInv' /\ T <= T'
<1>1. /\ InputOK /\ OrderOK /\ HeapOK /\ PendingOK /\ MissingOK /\ AnswerOK
      /\ UNCHANGED input /\ UNCHANGED <<order, current, answered, answer>>
      /\ pending # <<>> /\ topK' = topK /\ scoresOf' = scoresOf
  BY DEF IInv, Merge, input
<1>2. Documents' = Documents /\ SegmentsScores' = SegmentsScores /\ InputOK'
  BY <1>1, InputStays
<1>3. Searched' = Searched
  BY <1>1, <1>2 DEF Searched
<1>4. PICK s \in Segments \ ToSet(order) : current = {s}
  BY <1>1 DEF OrderOK
<1> DEFINE n == Len(pending)
           g == pending[1]
           h == Hit(<<s, g.docid>>, g.score)
           hit == [docid : Docs, score : 0 .. MaxScoreOf]
           entering == Cardinality(heap) < topK \/ Lowest(heap) < h.score
<1>5. /\ pending \in Seq(hit) /\ n \in Nat /\ n # 0 /\ DOMAIN pending = 1 .. n
      /\ Head(pending) = g /\ 1 \in 1 .. n /\ \A i \in 1 .. n : pending[i] \in hit
  <2>1. pending \in Seq(hit)
    BY <1>1 DEF OrderOK
  <2> HIDE DEF hit
  <2>. QED
    BY <1>1, <2>1
<1>6. \/ entering /\ heap' \in Added(heap, topK, h) /\ pending' = Tail(pending)
      \/ ~entering /\ heap' = heap /\ pending' = <<>>
  BY <1>4, <1>5 DEF Merge
<1>7. MaxScoreOf \in Nat /\ \A i \in 1 .. n : pending[i].score \in Nat
  <2>1. MaxScoreOf \in Nat
    BY <1>1 DEF InputOK
  <2>. QED
    BY <1>5, <2>1
<1>8. \A i \in 1 .. n :
        /\ pending[i].docid \in DOMAIN scoresOf[s]
        /\ <<s, pending[i].docid>> \notin Docids(heap)
        /\ pending[i].score <= scoresOf[s][pending[i].docid]
        /\ \/ scoresOf[s][pending[i].docid] <= T
           \/ scoresOf[s][pending[i].docid] = pending[i].score
  BY <1>1, <1>4, <1>5 DEF PendingOK
<1>9. /\ \A i, j \in 1 .. n : pending[i].docid = pending[j].docid => i = j
      /\ \A i, j \in 1 .. n : i <= j => pending[i].score >= pending[j].score
  BY <1>1, <1>5 DEF PendingOK
<1>10. IsHeap(heap, Searched, topK) /\ topK \in Nat \ {0}
  BY <1>1 DEF HeapOK, InputOK
<1>11. T \in Nat
  BY <1>10, ThresholdFacts DEF T
<1>12. /\ h.docid = <<s, g.docid>> /\ h.score = g.score
       /\ h \in [docid : Searched, score : Nat] /\ h.docid \notin Docids(heap)
  <2>1. <<s, g.docid>> \in Searched
    BY <1>1, <1>4, <1>5, <1>8, DocumentFacts DEF Searched
  <2>. QED
    BY <1>5, <1>7, <1>8, <2>1 DEF Hit
<1>13. CASE ~entering
  <2>1. heap' = heap /\ pending' = <<>> /\ T' = T
    BY <1>1, <1>6, <1>13 DEF T
  <2>2. g.score <= T
    <3>1. Cardinality(heap) = topK /\ ~(Lowest(heap) < g.score)
      <4>1. Cardinality(heap) \in Nat /\ Cardinality(heap) <= topK
        BY <1>10, FS_CardinalityType DEF IsHeap
      <4>2. ~(Cardinality(heap) < topK) /\ ~(Lowest(heap) < h.score)
        BY <1>13
      <4> HIDE DEF h, g
      <4>. QED
        BY <1>10, <1>12, <4>1, <4>2
    <3>2. PICK l \in heap : l.score = Lowest(heap) /\ Lowest(heap) <= T
      BY <1>10, <3>1, ThresholdFacts DEF T
    <3>3. Lowest(heap) \in Nat
      BY <1>10, <3>2 DEF IsHeap
    <3>4. g.score \in Nat
      BY <1>5, <1>7
    <3> HIDE DEF g
    <3>. QED
      BY <1>11, <3>1, <3>2, <3>3, <3>4
  <2>3. DOMAIN pending' = {} /\ pending' \in Seq(hit)
    BY <2>1
  <2>4. OrderOK'
    BY <1>1, <1>4, <2>3 DEF OrderOK
  <2>5. HeapOK'
    BY <1>1, <1>2, <1>3, <2>1 DEF HeapOK
  <2>6. PendingOK'
    BY <2>3 DEF PendingOK
  <2>7. MissingOK'
    <3> SUFFICES ASSUME NEW d \in Searched \ Docids(heap) PROVE SegmentsScores[d] <= T
      BY <1>2, <1>3, <2>1 DEF MissingOK
    <3>1. SegmentsScores[d] \in Nat
      BY <1>1, DocumentFacts DEF Searched
    <3>2. CASE IsPending(d)
      <4>1. PICK i \in 1 .. n : pending[i].score = SegmentsScores[d]
        BY <1>5, <3>2 DEF IsPending
      <4>2. g.score >= SegmentsScores[d]
        BY <1>5, <1>9, <4>1
      <4>3. g.score \in Nat
        BY <1>5, <1>7
      <4> HIDE DEF g
      <4>. QED
        BY <1>11, <2>2, <3>1, <4>2, <4>3
    <3>3. CASE IsBeaten(d)
      <4>1. g.score >= SegmentsScores[d] /\ g.score \in Nat
        BY <1>5, <1>7, <3>3 DEF IsBeaten
      <4> HIDE DEF g
      <4>. QED
        BY <1>11, <2>2, <3>1, <4>1
    <3>. QED
      BY <1>1, <3>2, <3>3 DEF MissingOK
  <2>8. AnswerOK'
    BY <1>1 DEF AnswerOK
  <2>. QED
    BY <1>2, <1>11, <2>1, <2>4, <2>5, <2>6, <2>7, <2>8 DEF IInv
<1>14. CASE entering
  <2>1. heap' \in Added(heap, topK, h) /\ pending' = Tail(pending)
    BY <1>6, <1>14
  <2>2. /\ IsHeap(heap', Searched, topK) /\ heap' \subseteq heap \cup {h}
        /\ Threshold(heap, topK, 0) <= Threshold(heap', topK, 0)
        /\ \A x \in (heap \cup {h}) \ heap' : x.score <= Threshold(heap', topK, 0)
    <3> HIDE DEF h
    <3>. QED
      BY <1>10, <1>12, <2>1, AddedFacts
  <2>3. T' = Threshold(heap', topK, 0) /\ T' \in Nat /\ T <= T'
    <3>1. Threshold(heap', topK, 0) \in Nat
      BY <1>10, <2>2, ThresholdFacts
    <3>. QED
      BY <1>1, <2>2, <3>1 DEF T
  <2>4. /\ pending' \in Seq(hit) /\ Len(pending') = n - 1 /\ DOMAIN pending' = 1 .. (n - 1)
        /\ \A i \in 1 .. (n - 1) : pending'[i] = pending[i + 1]
    <3> HIDE DEF hit
    <3>. QED
      BY <1>5, <2>1
  <2>5. \A i \in 1 .. (n - 1) : i + 1 \in 1 .. n /\ i + 1 # 1
    BY <1>5
  <2>6. g.docid \in DOMAIN scoresOf[s] /\ scoresOf[s][g.docid] = g.score
    <3>1. g.docid \in DOMAIN scoresOf[s] /\ g.score \in Nat
          /\ g.score <= scoresOf[s][g.docid]
          /\ (scoresOf[s][g.docid] <= T \/ scoresOf[s][g.docid] = g.score)
      BY <1>5, <1>7, <1>8
    <3>2. scoresOf[s][g.docid] \in Nat /\ scoresOf[s][g.docid] # 0
      BY <1>1, <1>4, <3>1 DEF InputOK
    <3>3. T <= g.score \/ T = 0
      <4>1. CASE Cardinality(heap) < topK
        BY <4>1 DEF T, Threshold
      <4>2. CASE ~(Cardinality(heap) < topK) /\ Lowest(heap) < h.score
        <5>1. Cardinality(heap) = topK
          BY <1>10, <4>2, FS_CardinalityType DEF IsHeap
        <5>2. PICK l \in heap : l.score = Lowest(heap)
          BY <1>10, <5>1, ThresholdFacts
        <5>3. T = 0 \/ l.score >= T
          BY <1>10, <1>11, ThresholdFacts DEF T
        <5>4. l.score \in Nat
          BY <1>10 DEF IsHeap
        <5>5. l.score < g.score
          BY <1>12, <4>2, <5>2
        <5> HIDE DEF g, h
        <5>. QED
          BY <1>11, <3>1, <5>3, <5>4, <5>5
      <4>. QED
        BY <1>14, <4>1, <4>2
    <3> HIDE DEF g
    <3>. QED
      BY <1>11, <3>1, <3>2, <3>3
  <2>7. SegmentsScores[<<s, g.docid>>] = g.score
    BY <1>1, <1>4, <2>6, DocumentFacts
  <2>8. OrderOK'
    <3> HIDE DEF hit
    <3>1. pending' \in Seq(hit)
      BY <2>4
    <3>2. pending' \in Seq([docid : Docs, score : 0 .. MaxScoreOf])
      BY <3>1 DEF hit
    <3>. QED
      BY <1>1, <1>4, <3>2 DEF OrderOK
  <2>9. HeapOK'
    <3>1. \A x \in heap' : x.score = SegmentsScores[x.docid]
      <4> HIDE DEF g
      <4>1. h.score = SegmentsScores[h.docid]
        BY <1>12, <2>7
      <4> HIDE DEF h
      <4>. QED
        BY <1>1, <2>2, <4>1 DEF HeapOK
    <3>. QED
      BY <1>1, <1>2, <1>3, <2>2, <3>1 DEF HeapOK
  <2>10. \A d : d \in Docids(heap') => d \in Docids(heap) \/ d = <<s, g.docid>>
    <3> HIDE DEF h, g
    <3>. QED
      BY <1>12, <2>2 DEF Docids
  <2>11. PendingOK'
    <3>1. \A i, j \in 1 .. (n - 1) : pending'[i].docid = pending'[j].docid => i = j
      <4> SUFFICES ASSUME NEW i \in 1 .. (n - 1), NEW j \in 1 .. (n - 1),
                          pending'[i].docid = pending'[j].docid
                   PROVE  i = j
        OBVIOUS
      <4>1. pending[i + 1].docid = pending[j + 1].docid /\ i + 1 \in 1 .. n /\ j + 1 \in 1 .. n
        BY <2>4, <2>5
      <4>2. i + 1 = j + 1
        BY <1>9, <4>1
      <4>. QED
        BY <4>2
    <3>2. \A i, j \in 1 .. (n - 1) : i <= j => pending'[i].score >= pending'[j].score
      <4> SUFFICES ASSUME NEW i \in 1 .. (n - 1), NEW j \in 1 .. (n - 1), i <= j
                   PROVE  pending'[i].score >= pending'[j].score
        OBVIOUS
      <4>1. i + 1 <= j + 1
        BY <1>5
      <4>. QED
        BY <1>9, <2>4, <2>5, <4>1
    <3>3. ASSUME NEW i \in 1 .. (n - 1)
          PROVE  /\ pending'[i].docid \in DOMAIN scoresOf[s]
                 /\ <<s, pending'[i].docid>> \notin Docids(heap')
                 /\ pending'[i].score <= scoresOf[s][pending'[i].docid]
                 /\ \/ scoresOf[s][pending'[i].docid] <= T'
                    \/ scoresOf[s][pending'[i].docid] = pending'[i].score
      <4> DEFINE j == i + 1
      <4>1. j \in 1 .. n /\ j # 1 /\ pending'[i] = pending[j]
        BY <2>4, <2>5
      <4> HIDE DEF j
      <4>2. /\ pending[j].docid \in DOMAIN scoresOf[s]
            /\ <<s, pending[j].docid>> \notin Docids(heap)
            /\ pending[j].score <= scoresOf[s][pending[j].docid]
            /\ \/ scoresOf[s][pending[j].docid] <= T
               \/ scoresOf[s][pending[j].docid] = pending[j].score
        BY <1>8, <4>1
      <4>3. pending[j].docid # g.docid
        BY <1>5, <1>9, <4>1
      <4>4. <<s, pending[j].docid>> \notin Docids(heap')
        BY <2>10, <4>2, <4>3
      <4>5. scoresOf[s][pending[j].docid] \in Nat
        BY <1>1, <1>4, <4>2 DEF InputOK
      <4>6. scoresOf[s][pending[j].docid] <= T => scoresOf[s][pending[j].docid] <= T'
        BY <1>11, <2>3, <4>5
      <4>. QED
        BY <4>1, <4>2, <4>4, <4>6
    <3>. QED
      BY <1>1, <1>4, <2>4, <3>1, <3>2, <3>3 DEF PendingOK
  <2>12. MissingOK'
    <3> SUFFICES ASSUME NEW d \in Searched, d \notin Docids(heap'), ~(SegmentsScores[d] <= T')
                 PROVE  IsPending(d)' \/ IsBeaten(d)'
      BY <1>2, <1>3 DEF MissingOK
    <3>1. /\ SegmentsScores[d] \in Nat /\ d \in Documents /\ d = <<d[1], d[2]>>
      BY <1>1, DocumentFacts DEF Searched
    <3>2. d # <<s, g.docid>> /\ d \notin Docids(heap)
      <4>1. ASSUME NEW x \in heap \cup {h}, x.docid = d PROVE FALSE
        <5>1. x \notin heap'
          BY <4>1 DEF Docids
        <5>2. x.score <= T'
          BY <2>2, <2>3, <5>1
        <5>3. x.score = SegmentsScores[d]
          <6> HIDE DEF g
          <6>1. h.score = SegmentsScores[h.docid]
            BY <1>12, <2>7
          <6> HIDE DEF h
          <6>. QED
            BY <1>1, <4>1, <6>1 DEF HeapOK
        <5>. QED
          BY <5>2, <5>3
      <4> HIDE DEF g
      <4>2. d # h.docid
        BY <4>1
      <4> HIDE DEF h
      <4>. QED
        BY <1>12, <4>1, <4>2 DEF Docids
    <3>3. ~(SegmentsScores[d] <= T)
      BY <1>11, <2>3, <3>1
    <3>4. CASE IsPending(d)
      <4>1. PICK i \in 1 .. n : pending[i] = [docid |-> d[2], score |-> SegmentsScores[d]]
        BY <1>5, <3>4 DEF IsPending
      <4>2. d[1] = s
        BY <1>4, <3>4 DEF IsPending
      <4>3. i # 1
        BY <3>1, <3>2, <4>1, <4>2
      <4>4. i - 1 \in 1 .. (n - 1) /\ (i - 1) + 1 = i
        BY <1>5, <4>3
      <4>5. pending'[i - 1] = [docid |-> d[2], score |-> SegmentsScores[d]]
        BY <2>4, <4>1, <4>4
      <4>6. IsPending(d)'
        BY <1>1, <1>2, <1>4, <2>4, <4>2, <4>4, <4>5 DEF IsPending
      <4>. QED
        BY <4>6
    <3>5. CASE IsBeaten(d)
      <4>1. /\ \A i \in 1 .. n : pending[i].score >= SegmentsScores[d]
            /\ Cardinality(Above(heap, SegmentsScores[d])) + n >= topK
        BY <1>5, <3>5 DEF IsBeaten
      <4>2. SegmentsScores[d] <= h.score
        <5>1. g.score >= SegmentsScores[d] /\ g.score \in Nat
          BY <1>5, <1>7, <4>1
        <5> HIDE DEF g
        <5>2. h.score = g.score
          BY <1>12
        <5> HIDE DEF h
        <5>. QED
          BY <3>1, <5>1, <5>2
      <4>3. Cardinality(Above(heap', SegmentsScores[d]))
              = Cardinality(Above(heap, SegmentsScores[d])) + 1
        <5>1. Cardinality(heap) < topK \/ Lowest(heap) < h.score
          BY <1>14
        <5> HIDE DEF h, entering
        <5>2. \/ SegmentsScores[d] <= Threshold(heap', topK, 0)
              \/ Cardinality(Above(heap', SegmentsScores[d]))
                   = Cardinality(Above(heap, SegmentsScores[d])) + 1
          BY <1>10, <1>12, <2>1, <3>1, <4>2, <5>1, AboveGrows
        <5>. QED
          BY <2>3, <5>2, Zenon
      <4>4. Cardinality(Above(heap, SegmentsScores[d])) \in Nat
        <5>1. IsFiniteSet(heap)
          BY <1>10 DEF IsHeap
        <5>. QED
          BY <5>1, FS_Subset, FS_CardinalityType DEF Above
      <4>5. Cardinality(Above(heap', SegmentsScores[d])) + Len(pending') >= topK
        BY <1>5, <1>10, <2>4, <4>1, <4>3, <4>4
      <4>6. \A i \in DOMAIN pending' : pending'[i].score >= SegmentsScores[d]
        BY <2>4, <2>5, <4>1
      <4>7. IsBeaten(d)'
        BY <1>1, <1>2, <4>5, <4>6 DEF IsBeaten
      <4>. QED
        BY <4>7
    <3>. QED
      BY <1>1, <3>2, <3>3, <3>4, <3>5 DEF MissingOK
  <2>13. AnswerOK'
    BY <1>1 DEF AnswerOK
  <2>. QED
    BY <1>2, <2>3, <2>8, <2>9, <2>11, <2>12, <2>13 DEF IInv
<1>. QED
  BY <1>13, <1>14

\* Every step keeps the invariant and what was asked; the threshold never falls.
LEMMA StepFacts ==
  ASSUME IInv, [SegmentsNext]_segmentsVars
  PROVE  IInv' /\ UNCHANGED input /\ T <= T'
<1>1. T \in Nat
  BY ThresholdFacts DEF IInv, HeapOK, InputOK, T
<1>2. CASE SearchSegment
  <2>1. UNCHANGED input /\ T' = T
    BY <1>2 DEF SearchSegment, input, T
  <2>. QED
    BY <1>1, <1>2, <2>1, SearchSegmentKeeps
<1>3. CASE Merge
  BY <1>3, MergeKeeps DEF Merge, input
<1>4. CASE Finish
  <2>1. UNCHANGED input /\ T' = T
    BY <1>4 DEF Finish, input, T
  <2>. QED
    BY <1>1, <1>4, <2>1, FinishKeeps
<1>5. CASE UNCHANGED segmentsVars
  <2>1. UNCHANGED input /\ UNCHANGED <<order, current, pending, heap, answered>>
    BY <1>5 DEF segmentsVars, input
  <2>2. Documents' = Documents /\ SegmentsScores' = SegmentsScores /\ (InputOK => InputOK')
    BY <2>1, InputStays
  <2>3. Searched' = Searched /\ T' = T /\ topK' = topK /\ scoresOf' = scoresOf
    BY <2>1, <2>2 DEF Searched, T, input
  <2>4. OrderOK' /\ HeapOK' /\ PendingOK' /\ AnswerOK'
    BY <2>1, <2>2, <2>3 DEF IInv, OrderOK, HeapOK, PendingOK, AnswerOK
  <2>5. MissingOK'
    BY <2>1, <2>2, <2>3 DEF IInv, MissingOK, IsPending, IsBeaten
  <2>. QED
    BY <1>1, <2>1, <2>2, <2>3, <2>4, <2>5 DEF IInv
<1>. QED
  BY <1>2, <1>3, <1>4, <1>5 DEF SegmentsNext

\* Sorted, the heap answers the search of the segments done.
LEMMA HeapIsAnswer ==
  ASSUME IInv, pending = <<>>, NEW hits \in Decreasing(heap)
  PROVE  IsAnswer(hits, [d \in Searched |-> SegmentsScores[d]], topK, 0)
<1> DEFINE scores == [d \in Searched |-> SegmentsScores[d]]
<1>1. InputOK /\ OrderOK /\ HeapOK /\ MissingOK /\ topK \in Nat \ {0}
  BY DEF IInv, InputOK
<1>2. DOMAIN scores = Searched /\ \A d \in Searched : scores[d] = SegmentsScores[d]
  OBVIOUS
<1>3. \A d \in Searched : SegmentsScores[d] \in Nat
  BY <1>1, DocumentFacts DEF Searched
<1>4. \A d \in Searched \ Docids(heap) : SegmentsScores[d] <= T
  BY <1>1, NothingMissed
<1>5. IsHeap(heap, Searched, topK) /\ \A h \in heap : h.score = SegmentsScores[h.docid]
  BY <1>1 DEF HeapOK
<1>6. \A h \in heap : h.docid \in Searched /\ h.score \in Nat
  BY <1>5 DEF IsHeap
<1> HIDE DEF scores
<1>7. \A h \in heap : /\ h.score <= scores[h.docid]
                      /\ scores[h.docid] > 0 => h.score = scores[h.docid]
  <2> SUFFICES ASSUME NEW h \in heap
               PROVE  h.score <= scores[h.docid] /\ h.score = scores[h.docid]
    OBVIOUS
  <2>1. h.score = scores[h.docid] /\ h.score \in Nat
    BY <1>2, <1>5, <1>6
  <2>. QED
    BY <2>1
<1>8. \A d \in DOMAIN scores \ Docids(heap) : scores[d] <= Threshold(heap, topK, 0)
  BY <1>2, <1>4 DEF T
<1>9. \A d \in DOMAIN scores : scores[d] \in Nat
  BY <1>2, <1>3
<1>10. IsHeap(heap, DOMAIN scores, topK)
  BY <1>2, <1>5
<1>11. IsAnswer(hits, scores, topK, 0)
  BY <1>1, <1>7, <1>8, <1>9, <1>10, HeapAnswers
<1>. QED
  BY <1>11 DEF scores

\* What a reader asks of each state follows from the invariant.
LEMMA InvariantImplies ==
  ASSUME IInv
  PROVE  SegmentsTypeOK /\ MergedSoFar
<1>1. InputOK /\ OrderOK /\ HeapOK /\ AnswerOK
  BY DEF IInv
<1>2. Searched \subseteq Documents
  BY DEF Searched
<1>3. heap \subseteq [docid : Documents, score : 0 .. MaxScoreOf]
  <2> SUFFICES ASSUME NEW h \in heap PROVE h \in [docid : Documents, score : 0 .. MaxScoreOf]
    OBVIOUS
  <2>1. h \in [docid : Searched, score : Nat] /\ h.score = SegmentsScores[h.docid]
    BY <1>1 DEF HeapOK, IsHeap
  <2>2. h.docid \in Documents /\ SegmentsScores[h.docid] \in 1 .. MaxScoreOf
    BY <1>1, <1>2, <2>1, DocumentFacts
  <2>3. h.score \in 0 .. MaxScoreOf
    BY <1>1, <2>1, <2>2 DEF InputOK
  <2>. QED
    BY <2>1, <2>2, <2>3
<1>4. /\ ToSet(order) \subseteq Segments
      /\ ToSet(pending) \subseteq [docid : Docs, score : 0 .. MaxScoreOf]
  <2>1. order \in Seq(Segments) /\ pending \in Seq([docid : Docs, score : 0 .. MaxScoreOf])
    BY <1>1 DEF OrderOK, AreDistinct
  <2>. QED
    BY <2>1, FiniteMembers
<1>5. /\ current \subseteq Segments /\ ToSet(order) \cap current = {}
      /\ Cardinality(current) <= 1
  <2>1. CASE current = {}
    BY <2>1, FS_EmptySet
  <2>2. CASE \E s \in Segments \ ToSet(order) : current = {s}
    BY <2>2, FS_Singleton
  <2>. QED
    BY <1>1, <2>1, <2>2 DEF OrderOK
<1>6. SegmentsTypeOK
  BY <1>1, <1>3, <1>4, <1>5 DEF SegmentsTypeOK, HeapOK, IsHeap, AnswerOK
<1>7. MergedSoFar
  <2> SUFFICES ASSUME pending = <<>>
               PROVE  \E result \in Decreasing(heap) :
                        IsAnswer(result, [d \in Searched |-> SegmentsScores[d]], topK, 0)
    BY DEF MergedSoFar, Searched
  <2>1. PICK hits \in Decreasing(heap) : TRUE
    BY <1>1, SortedExists DEF HeapOK
  <2>. QED
    BY <2>1, HeapIsAnswer
<1>. QED
  BY <1>6, <1>7

-----------------------------------------------------------------------------
(***************************************************************************)
(* The search over segments is safe: between two segments, what the heap   *)
(* holds answers the search of those done, although a shared threshold     *)
(* made a segment leave documents out, or score them in part, and hits     *)
(* after the one that ends a merge were dropped.                           *)
(***************************************************************************)
THEOREM SegmentedSearchIsSafe == SegmentsSpec => [](SegmentsTypeOK /\ MergedSoFar)
<1>1. SegmentsInit => IInv
  BY InitInvariant
<1>2. IInv /\ [SegmentsNext]_segmentsVars => IInv'
  BY StepFacts
<1>3. IInv => SegmentsTypeOK /\ MergedSoFar
  BY InvariantImplies
<1>. QED
  BY <1>1, <1>2, <1>3, PTL DEF SegmentsSpec

\* The threshold one segment hands to the next never falls.
THEOREM SharedThresholdNeverFalls ==
  SegmentsSpec => [][Threshold(heap', topK', 0) >= Threshold(heap, topK, 0)]_segmentsVars
<1>1. SegmentsInit => IInv
  BY InitInvariant
<1>2. IInv => T \in Nat
  BY ThresholdFacts DEF IInv, HeapOK, InputOK, T
<1>3. (IInv => T \in Nat)'
  BY <1>2, PTL
<1>4. IInv /\ [SegmentsNext]_segmentsVars
        => IInv' /\ [Threshold(heap', topK', 0) >= Threshold(heap, topK, 0)]_segmentsVars
  <2> SUFFICES ASSUME IInv, [SegmentsNext]_segmentsVars
               PROVE  IInv' /\ Threshold(heap', topK', 0) >= Threshold(heap, topK, 0)
    OBVIOUS
  <2>1. IInv' /\ T <= T'
    BY StepFacts
  <2>. QED
    BY <1>2, <1>3, <2>1 DEF T
<1>. QED
  BY <1>1, <1>4, PTL DEF SegmentsSpec

\* What SegmentedSearch::search promises.
SegmentsContract == INSTANCE SearchContract WITH scores <- SegmentsScores, minScore <- 0

(***************************************************************************)
(* The search over segments answers once, with the k best documents of the *)
(* collection: it implements the contract, given that the searches of its  *)
(* segments do.                                                            *)
(***************************************************************************)
THEOREM SegmentedSearchAnswers == SegmentsSpec => SegmentsContract!Spec
<1>1. SegmentsInit => IInv /\ SegmentsContract!Init
  BY InitInvariant DEF SegmentsInit, SegmentsContract!Init
<1>2. IInv /\ [SegmentsNext]_segmentsVars
        => IInv' /\ [SegmentsContract!Answer]_SegmentsContract!vars
  <2> SUFFICES ASSUME IInv, [SegmentsNext]_segmentsVars
               PROVE  IInv' /\ [SegmentsContract!Answer]_SegmentsContract!vars
    OBVIOUS
  <2>1. IInv' /\ UNCHANGED input
    BY StepFacts
  <2>2. SegmentsScores' = SegmentsScores /\ topK' = topK
    BY <2>1, InputStays DEF input
  <2>3. CASE Finish
    <3>1. /\ ~answered /\ answered' = TRUE /\ answer' \in Decreasing(heap)
          /\ order = <<>> /\ pending = <<>>
      BY <2>3 DEF Finish
    <3>2. IsAnswer(answer', [d \in Searched |-> SegmentsScores[d]], topK, 0)
      BY <3>1, HeapIsAnswer
    <3>3. [d \in Searched |-> SegmentsScores[d]] = SegmentsScores
      <4>1. Searched = Documents
        BY <3>1 DEF Searched, ToSet
      <4>. QED
        BY <4>1 DEF SegmentsScores
    <3>4. IsAnswer(answer', SegmentsScores, topK, 0)
      BY <3>2, <3>3
    <3>5. SegmentsContract!IsAnswer(answer', SegmentsScores, topK, 0)
      BY <3>4 DEF IsAnswer, SegmentsContract!IsAnswer, SegmentsContract!Docids, Docids, IsInjective,
                  SegmentsContract!IsInjective, ToSet, SegmentsContract!ToSet
    <3>. QED
      BY <2>1, <2>2, <3>1, <3>5 DEF SegmentsContract!Answer
  <2>4. CASE SearchSegment \/ Merge \/ UNCHANGED segmentsVars
    <3>1. UNCHANGED <<answered, answer>>
      BY <2>4 DEF SearchSegment, Merge, segmentsVars
    <3>. QED
      BY <2>1, <2>2, <3>1 DEF SegmentsContract!vars
  <2>. QED
    BY <2>3, <2>4 DEF SegmentsNext
<1>. QED
  BY <1>1, <1>2, PTL DEF SegmentsSpec, SegmentsContract!Spec

-----------------------------------------------------------------------------
(***************************************************************************)
(* What the searches may ask is allowed in each instance                   *)
(***************************************************************************)

LEMMA Sizes == {BlockSize, WordBits} \subseteq Nat \ {0} /\ Slack \in Nat
BY CursorAssumption

\* What may be asked is well-formed for MaxScore.
LEMMA SearchesOfMaxScore ==
  \A search \in Searches :
    /\ search.topK \in Nat \ {0} /\ search.minScore \in Nat
    /\ MaxScoreSearch!AreLists(search.lists)
    /\ MaxScoreSearch!IsFilter(search.filter, search.accepted,
                               MaxScoreSearch!Matching(search.lists))
BY SearchAssumption
   DEF AreLists, IsList, IsFilter, Matching, Allows, Original, contains, position,
       IsFiniteSet, MaxScoreSearch!AreLists, MaxScoreSearch!IsList,
       MaxScoreSearch!IsFilter, MaxScoreSearch!Matching, MaxScoreSearch!Allows,
       MaxScoreSearch!Original, MaxScoreSearch!contains, MaxScoreSearch!position,
       MaxScoreSearch!IsFiniteSet

\* What may be asked is well-formed for WAND.
LEMMA SearchesOfWand ==
  \A search \in Searches :
    /\ search.topK \in Nat \ {0} /\ search.minScore \in Nat
    /\ WandSearch!AreLists(search.lists)
    /\ WandSearch!IsFilter(search.filter, search.accepted, WandSearch!Matching(search.lists))
BY SearchAssumption
   DEF AreLists, IsList, IsFilter, Matching, Allows, Original, contains, position,
       IsFiniteSet, WandSearch!AreLists, WandSearch!IsList, WandSearch!IsFilter,
       WandSearch!Matching, WandSearch!Allows, WandSearch!Original, WandSearch!contains,
       WandSearch!position, WandSearch!IsFiniteSet

-----------------------------------------------------------------------------
(***************************************************************************)
(* A behaviour is one of a single search                                   *)
(***************************************************************************)

\* The kind of search is chosen once.
LEMMA OneKind ==
  Spec => [](kind = "maxscore") \/ [](kind = "wand") \/ [](kind = "segments")
<1>1. Init => kind = "maxscore" \/ kind = "wand" \/ kind = "segments"
  BY DEF Init
<1>2. [Next]_vars => UNCHANGED kind
  BY DEF Next, vars
<1>3. kind = "maxscore" /\ UNCHANGED kind => (kind = "maxscore")'
  OBVIOUS
<1>4. kind = "wand" /\ UNCHANGED kind => (kind = "wand")'
  OBVIOUS
<1>5. kind = "segments" /\ UNCHANGED kind => (kind = "segments")'
  OBVIOUS
<1>. QED
  BY <1>1, <1>2, <1>3, <1>4, <1>5, PTL DEF Spec

\* A behaviour of MaxScore here is one of its module, and no step of it is a stutter there.
LEMMA MaxScoreAlone ==
  Spec /\ [](kind = "maxscore")
    => /\ MaxScoreSearch!Spec
       /\ [][MaxScoreSearch!Next /\ ~UNCHANGED MaxScoreSearch!vars]_vars
<1>1. Init /\ kind = "maxscore" => MaxScoreSearch!Init
  BY DEF Init
<1>2. [Next]_vars /\ kind = "maxscore"
        => /\ [MaxScoreSearch!Next]_(MaxScoreSearch!vars)
           /\ [MaxScoreSearch!Next /\ ~UNCHANGED MaxScoreSearch!vars]_vars
  <2>1. CASE UNCHANGED vars
    BY <2>1 DEF vars, question, ofMaxScore, MaxScoreSearch!vars, MaxScoreSearch!input
  <2>2. ASSUME Next, kind = "maxscore"
        PROVE  /\ MaxScoreSearch!Next
               /\ UNCHANGED MaxScoreSearch!vars => UNCHANGED vars
    <3>1. MaxScoreSearch!Next /\ UNCHANGED <<kind, ofWand, ofSegments>>
      BY <2>2 DEF Next
    <3>. QED
      BY <3>1 DEF vars, question, ofMaxScore, MaxScoreSearch!vars, MaxScoreSearch!input
  <2>. QED
    BY <2>1, <2>2
<1>. QED
  BY <1>1, <1>2, PTL DEF Spec, MaxScoreSearch!Spec

\* A behaviour of WAND here is one of its module.
LEMMA WandAlone ==
  Spec /\ [](kind = "wand") => WandSearch!Spec
<1>1. Init /\ kind = "wand" => WandSearch!Init
  BY DEF Init
<1>2. [Next]_vars /\ kind = "wand" => [WandSearch!Next]_(WandSearch!vars)
  BY DEF Next, vars, question, ofWand, WandSearch!vars, WandSearch!input
<1>. QED
  BY <1>1, <1>2, PTL DEF Spec, WandSearch!Spec

\* A behaviour over segments here is one of its module; it has no threshold of its own.
LEMMA SegmentsAlone ==
  Spec /\ [](kind = "segments")
    => SegmentsSpec /\ [](theta = 0 /\ minScore = 0)
<1>1. Init /\ kind = "segments" => SegmentsInit /\ theta = 0 /\ minScore = 0
  BY DEF Init, IdleQuestion
<1>2. [Next]_vars /\ kind = "segments"
        => [SegmentsNext]_(segmentsVars) /\ UNCHANGED <<theta, minScore>>
  BY DEF Next, vars, question, ofSegments, segmentsVars
<1>3. theta = 0 /\ minScore = 0 /\ UNCHANGED <<theta, minScore>>
        => (theta = 0 /\ minScore = 0)'
  OBVIOUS
<1>. QED
  BY <1>1, <1>2, <1>3, PTL DEF Spec, SegmentsSpec

\* What each search has been proved to do.
LEMMA MaxScoreIsSafe ==
  Spec /\ [](kind = "maxscore")
    => [](/\ MaxScoreSearch!TypeOK /\ MaxScoreSearch!NothingLost
          /\ MaxScoreSearch!PassiveStaysBelow /\ MaxScoreSearch!BoundedWork)
BY MaxScoreAlone, MaxScoreSearch!SearchIsSafe, Sizes, SearchesOfMaxScore, PTL

\* The same of WAND.
LEMMA WandIsSafe ==
  Spec /\ [](kind = "wand")
    => [](/\ WandSearch!TypeOK /\ WandSearch!StaysSorted
          /\ WandSearch!NothingLost /\ WandSearch!BoundedWork)
BY WandAlone, WandSearch!SearchIsSafe, Sizes, SearchesOfWand, PTL

\* The same of the search over segments.
LEMMA SegmentsAreSafe ==
  Spec /\ [](kind = "segments")
    => [](SegmentsTypeOK /\ MergedSoFar)
BY SegmentsAlone, SegmentedSearchIsSafe, PTL

-----------------------------------------------------------------------------
(***************************************************************************)
(* The theorems                                                            *)
(***************************************************************************)

\* The variables of the search under way have their types: the cursors are inside
\* their lists, none is kept twice, and the heap holds at most k documents.
THEOREM TypesAreCorrect == Spec => []TypeOK
<1>1. kind = "maxscore" /\ MaxScoreSearch!TypeOK => TypeOK
  BY DEF TypeOK
<1>2. kind = "wand" /\ WandSearch!TypeOK => TypeOK
  BY DEF TypeOK
<1>3. kind = "segments" /\ SegmentsTypeOK => TypeOK
  BY DEF TypeOK
<1>. QED
  BY <1>1, <1>2, <1>3, OneKind, MaxScoreIsSafe, WandIsSafe, SegmentsAreSafe, PTL

\* Every decision of the loops of maxscore.rs, wand.rs and segments.rs is safe: no
\* document that belongs to the answer is left behind by a block that is skipped, a
\* cursor that is dropped or moved, a passive term that is not read, or a merge that
\* ends early.
THEOREM LoopsAreSafe == Spec => []LoopInvariant
<1>1. kind = "maxscore" /\ MaxScoreSearch!NothingLost /\ MaxScoreSearch!PassiveStaysBelow
        => LoopInvariant
  BY DEF LoopInvariant
<1>2. kind = "wand" /\ WandSearch!NothingLost /\ WandSearch!StaysSorted => LoopInvariant
  BY DEF LoopInvariant
<1>3. kind = "segments" /\ MergedSoFar => LoopInvariant
  BY DEF LoopInvariant
<1>. QED
  BY <1>1, <1>2, <1>3, OneKind, MaxScoreIsSafe, WandIsSafe, SegmentsAreSafe, PTL

\* The loops of MaxScore and WAND end: they iterate no more often than there are
\* postings to read and candidates to consider.
THEOREM LoopsEnd == Spec => []BoundedWork
<1>1. kind = "maxscore" /\ MaxScoreSearch!BoundedWork => BoundedWork
  BY DEF BoundedWork
<1>2. kind = "wand" /\ WandSearch!BoundedWork => BoundedWork
  BY DEF BoundedWork
<1>3. kind = "segments" => BoundedWork
  BY DEF BoundedWork
<1>. QED
  BY <1>1, <1>2, <1>3, OneKind, MaxScoreIsSafe, WandIsSafe, PTL

\* The threshold that made a loop leave documents out never falls, and MaxScore
\* proposes candidates in the order of their ids.
THEOREM SearchesAdvance == Spec => SearchAdvances
<1> DEFINE Advance ==
             /\ theta' >= theta
             /\ kind = "maxscore" /\ active # <<>> /\ active' # <<>>
                  => MaxScoreSearch!Candidate' > MaxScoreSearch!Candidate
           Move ==
             /\ theta' >= theta
             /\ active # <<>> /\ active' # <<>>
                  => MaxScoreSearch!Candidate' > MaxScoreSearch!Candidate
<1>1. Spec /\ [](kind = "maxscore") => [][Advance]_vars
  <2>1. MaxScoreSearch!Spec => [][Move]_(MaxScoreSearch!vars)
    BY MaxScoreSearch!SearchMovesOn, Sizes, SearchesOfMaxScore, PTL
  <2>2. /\ [Move]_(MaxScoreSearch!vars)
        /\ [MaxScoreSearch!Next /\ ~UNCHANGED MaxScoreSearch!vars]_vars
        => [Advance]_vars
    OBVIOUS
  <2>. QED
    BY <2>1, <2>2, MaxScoreAlone, PTL
<1>2. Spec /\ [](kind = "wand") => [][Advance]_vars
  <2>1. WandSearch!Spec => [][theta' >= theta /\ curDoc' >= curDoc]_(WandSearch!vars)
    BY WandSearch!SearchMovesOn, Sizes, SearchesOfWand, PTL
  <2>2. /\ kind = "wand" /\ WandSearch!TypeOK
        /\ [theta' >= theta /\ curDoc' >= curDoc]_(WandSearch!vars)
        => [Advance]_vars
    <3>1. WandSearch!TypeOK => theta \in Nat
      BY DEF WandSearch!TypeOK
    <3>. QED
      BY <3>1 DEF WandSearch!vars
  <2>. QED
    BY <2>1, <2>2, WandAlone, WandIsSafe, PTL
<1>3. Spec /\ [](kind = "segments") => [][Advance]_vars
  <2>1. /\ kind = "segments" /\ theta = 0 /\ minScore = 0
        /\ (theta = 0 /\ minScore = 0)'
        => [Advance]_vars
    OBVIOUS
  <2>. QED
    BY <2>1, SegmentsAlone, PTL
<1>. QED
  BY <1>1, <1>2, <1>3, OneKind, PTL DEF SearchAdvances

\* Each search promises what MCSearch says a search does.
LEMMA MaxScoreAnswers ==
  Spec /\ [](kind = "maxscore") => Contract!Spec
<1>1. MaxScoreSearch!Spec => MaxScoreSearch!Contract!Spec
  BY MaxScoreSearch!SearchAnswers, Sizes, SearchesOfMaxScore, PTL
<1>2. MaxScoreSearch!Contract!Init => Contract!Init
  BY DEF MaxScoreSearch!Contract!Init, Contract!Init
<1>3. /\ kind = "maxscore" /\ (kind = "maxscore")'
      /\ [MaxScoreSearch!Contract!Answer]_(MaxScoreSearch!Contract!vars)
      => [Contract!Answer]_(Contract!vars)
  <2>1. kind = "maxscore" => Scores = MaxScoreSearch!Scores
    BY DEF Scores
  <2>2. (kind = "maxscore")' => Scores' = MaxScoreSearch!Scores'
    BY DEF Scores
  <2>3. MaxScoreSearch!Contract!IsAnswer(answer', MaxScoreSearch!Scores, topK, minScore)
        => Contract!IsAnswer(answer', MaxScoreSearch!Scores, topK, minScore)
    BY DEF MaxScoreSearch!Contract!IsAnswer, Contract!IsAnswer,
           MaxScoreSearch!Contract!ToSet, Contract!ToSet, MaxScoreSearch!Contract!Docids,
           Contract!Docids, MaxScoreSearch!Contract!IsInjective, Contract!IsInjective
  <2>. QED
    BY <2>1, <2>2, <2>3 DEF MaxScoreSearch!Contract!Answer, Contract!Answer,
                            MaxScoreSearch!Contract!vars, Contract!vars
<1>. QED
  BY <1>1, <1>2, <1>3, MaxScoreAlone, PTL DEF MaxScoreSearch!Contract!Spec, Contract!Spec

\* WAND answers as its own contract says, and that is this one.
LEMMA WandAnswers ==
  Spec /\ [](kind = "wand") => Contract!Spec
<1>1. WandSearch!Spec => WandSearch!Contract!Spec
  BY WandSearch!SearchAnswers, Sizes, SearchesOfWand, PTL
<1>2. WandSearch!Contract!Init => Contract!Init
  BY DEF WandSearch!Contract!Init, Contract!Init
<1>3. /\ kind = "wand" /\ (kind = "wand")'
      /\ [WandSearch!Contract!Answer]_(WandSearch!Contract!vars)
      => [Contract!Answer]_(Contract!vars)
  <2>1. kind = "wand" => Scores = WandSearch!Scores
    BY DEF Scores
  <2>2. (kind = "wand")' => Scores' = WandSearch!Scores'
    BY DEF Scores
  <2>3. WandSearch!Contract!IsAnswer(answer', WandSearch!Scores, topK, minScore)
        => Contract!IsAnswer(answer', WandSearch!Scores, topK, minScore)
    BY DEF WandSearch!Contract!IsAnswer, Contract!IsAnswer,
           WandSearch!Contract!ToSet, Contract!ToSet, WandSearch!Contract!Docids,
           Contract!Docids, WandSearch!Contract!IsInjective, Contract!IsInjective
  <2>. QED
    BY <2>1, <2>2, <2>3 DEF WandSearch!Contract!Answer, Contract!Answer,
                            WandSearch!Contract!vars, Contract!vars
<1>. QED
  BY <1>1, <1>2, <1>3, WandAlone, PTL DEF WandSearch!Contract!Spec, Contract!Spec

\* So does the search over segments.
LEMMA SegmentsAnswer ==
  Spec /\ [](kind = "segments") => Contract!Spec
<1>1. SegmentsSpec => SegmentsContract!Spec
  BY SegmentedSearchAnswers
<1>2. SegmentsContract!Init => Contract!Init
  BY DEF SegmentsContract!Init, Contract!Init
<1>3. /\ kind = "segments" /\ (kind = "segments")'
      /\ theta = 0 /\ minScore = 0 /\ (theta = 0 /\ minScore = 0)'
      /\ [SegmentsContract!Answer]_(SegmentsContract!vars)
      => [Contract!Answer]_(Contract!vars)
  <2>1. kind = "segments" => Scores = SegmentsScores
    BY DEF Scores
  <2>2. (kind = "segments")' => Scores' = SegmentsScores'
    BY DEF Scores
  <2>3. SegmentsContract!IsAnswer(answer', SegmentsScores, topK, 0)
        => Contract!IsAnswer(answer', SegmentsScores, topK, 0)
    BY DEF SegmentsContract!IsAnswer, Contract!IsAnswer,
           SegmentsContract!ToSet, Contract!ToSet, SegmentsContract!Docids,
           Contract!Docids, SegmentsContract!IsInjective, Contract!IsInjective
  <2>. QED
    BY <2>1, <2>2, <2>3 DEF SegmentsContract!Answer, Contract!Answer,
                            SegmentsContract!vars, Contract!vars
<1>. QED
  BY <1>1, <1>2, <1>3, SegmentsAlone, PTL DEF SegmentsContract!Spec, Contract!Spec

\* MaxScore, WAND and the search over segments implement the same contract: one
\* answer, the k best of the documents that may be returned, whatever is skipped.
THEOREM SearchesAnswer == Spec => ImplementsContract
BY OneKind, MaxScoreAnswers, WandAnswers, SegmentsAnswer, PTL DEF ImplementsContract
=============================================================================
