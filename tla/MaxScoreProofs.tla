--------------------------- MODULE MaxScoreProofs ---------------------------
(***************************************************************************)
(* Theorems about MaxScore, for all posting lists, filters, numbers of     *)
(* results, thresholds, block sizes and slacks.                            *)
(***************************************************************************)
EXTENDS MaxScore, SearchLemmas

-----------------------------------------------------------------------------
(***************************************************************************)
(* The sequences of cursors                                                *)
(***************************************************************************)

\* Removing some of the cursors leaves the others.
LEMMA WithoutFacts ==
  ASSUME NEW S, NEW some, AreDistinct(some, S), NEW gone
  PROVE  AreDistinct(Without(some, gone), S) /\ ToSet(Without(some, gone)) = ToSet(some) \ gone
<1> DEFINE kept == {i \in DOMAIN some : some[i] \notin gone}
           before(i) == {j \in kept : j <= i}
           place(i) == Cardinality(before(i))
           n == Cardinality(kept)
           at_(m) == CHOOSE i \in kept : place(i) = m
           left == [m \in 1 .. n |-> some[at_(m)]]
<1>1. IsFiniteSet(kept) /\ kept \subseteq Nat /\ kept \subseteq DOMAIN some
  <2>1. IsFiniteSet(DOMAIN some) /\ DOMAIN some = 1 .. Len(some)
    BY FS_Interval DEF AreDistinct
  <2>. QED
    BY <2>1, FS_Subset
<1>2. n \in Nat /\ Without(some, gone) = left
  BY <1>1, FS_CardinalityType DEF Without
<1>3. \A i \in kept : IsFiniteSet(before(i)) /\ i \in before(i) /\ before(i) \subseteq kept
  BY <1>1, FS_Subset
<1>4. \A i \in kept : place(i) \in 1 .. n
  <2> SUFFICES ASSUME NEW i \in kept PROVE place(i) \in 1 .. n
    OBVIOUS
  <2>1. place(i) \in Nat /\ place(i) <= n
    BY <1>1, <1>3, FS_CardinalityType, FS_Subset
  <2>2. place(i) # 0
    BY <1>3, FS_EmptySet
  <2>. QED
    BY <1>2, <2>1, <2>2
<1>5. \A i, j \in kept : place(i) = place(j) => i = j
  <2>1. ASSUME NEW i \in kept, NEW j \in kept, i < j PROVE place(i) # place(j)
    <3>1. before(i) \subseteq before(j) /\ before(i) # before(j)
      <4>1. j \in before(j) /\ j \notin before(i)
        BY <1>1, <2>1
      <4>2. before(i) \subseteq before(j)
        BY <1>1, <2>1
      <4>. QED
        BY <4>1, <4>2
    <3> HIDE DEF before
    <3>. QED
      BY <1>3, <3>1, FS_Subset
  <2>. QED
    <3> HIDE DEF place, kept
    <3>. QED
      BY <1>1, <2>1
<1>6. \A m \in 1 .. n : \E i \in kept : place(i) = m
  <2> DEFINE f == [i \in kept |-> place(i)]
  <2>1. f \in Injection(kept, 1 .. n)
    BY <1>4, <1>5 DEF Injection, IsInjective
  <2>2. IsFiniteSet(1 .. n) /\ Cardinality(1 .. n) = n
    BY <1>2, FS_Interval
  <2>3. f \in Surjection(kept, 1 .. n)
    <3> HIDE DEF f
    <3>. QED
      BY <2>1, <2>2, FS_Injection
  <2>. QED
    BY <2>3 DEF Surjection
<1> HIDE DEF place
<1>7. \A m \in 1 .. n : at_(m) \in kept /\ place(at_(m)) = m
  BY <1>6
<1>8. \A i \in kept : at_(place(i)) = i
  BY <1>4, <1>5, <1>7
<1> HIDE DEF at_
<1>9. left \in Seq(S) /\ DOMAIN left = 1 .. n /\ \A m \in 1 .. n : left[m] = some[at_(m)]
  <2>1. \A m \in 1 .. n : some[at_(m)] \in S
    BY <1>1, <1>7 DEF AreDistinct
  <2>. QED
    BY <1>2, <2>1
<1>10. \A l, m \in DOMAIN left : left[l] = left[m] => l = m
  <2> SUFFICES ASSUME NEW l \in DOMAIN left, NEW m \in DOMAIN left, left[l] = left[m] PROVE l = m
    OBVIOUS
  <2>1. at_(l) = at_(m)
    BY <1>1, <1>7, <1>9 DEF AreDistinct
  <2>. QED
    BY <1>7, <1>9, <2>1
<1>11. ToSet(left) = {some[i] : i \in kept}
  <2>1. \A m \in DOMAIN left : \E i \in kept : left[m] = some[i]
    BY <1>7, <1>9
  <2>2. \A i \in kept : \E m \in DOMAIN left : left[m] = some[i]
    BY <1>4, <1>8, <1>9
  <2> HIDE DEF left, kept
  <2>. QED
    BY <2>1, <2>2 DEF ToSet
<1>12. {some[i] : i \in kept} = ToSet(some) \ gone
  BY DEF ToSet
<1>13. AreDistinct(left, S)
  <2> HIDE DEF left
  <2>. QED
    BY <1>9, <1>10 DEF AreDistinct
<1>. QED
  BY <1>2, <1>11, <1>12, <1>13

\* The last of the cursors goes from one sequence to the end of another.
LEMMA LastMoves ==
  ASSUME NEW S, NEW some, AreDistinct(some, S), some # <<>>,
         NEW others, AreDistinct(others, S), ToSet(some) \cap ToSet(others) = {}
  PROVE  /\ Last(some) \in ToSet(some)
         /\ AreDistinct(Front(some), S) /\ ToSet(Front(some)) = ToSet(some) \ {Last(some)}
         /\ AreDistinct(Append(others, Last(some)), S)
         /\ ToSet(Append(others, Last(some))) = ToSet(others) \cup {Last(some)}
<1> DEFINE n == Len(some)
           m == Len(others)
           front == Front(some)
           more == Append(others, Last(some))
<1>1. n \in Nat /\ n # 0 /\ DOMAIN some = 1 .. n /\ m \in Nat /\ DOMAIN others = 1 .. m
  BY DEF AreDistinct
<1>2. Last(some) = some[n] /\ some[n] \in S /\ n \in DOMAIN some
  BY <1>1 DEF Last, AreDistinct
<1>3. front \in Seq(S) /\ DOMAIN front = 1 .. (n - 1) /\ \A i \in 1 .. (n - 1) : front[i] = some[i]
  BY <1>1 DEF Front, AreDistinct
<1>4. /\ more \in Seq(S) /\ DOMAIN more = 1 .. (m + 1) /\ more[m + 1] = some[n]
      /\ \A i \in 1 .. m : more[i] = others[i]
  BY <1>1, <1>2 DEF AreDistinct
<1>5. Last(some) \in ToSet(some)
  BY <1>2 DEF ToSet
<1> HIDE DEF front, more
<1>6. AreDistinct(front, S)
  BY <1>1, <1>3 DEF AreDistinct
<1>7. ToSet(front) = ToSet(some) \ {some[n]}
  <2>1. \A i \in 1 .. (n - 1) : i \in DOMAIN some /\ i # n
    <3> HIDE DEF n
    <3>. QED
      BY <1>1
  <2>2. \A i \in DOMAIN some : i # n => i \in 1 .. (n - 1)
    BY <1>1
  <2>3. \A i \in 1 .. (n - 1) : some[i] # some[n]
    BY <1>2, <2>1 DEF AreDistinct
  <2>. QED
    BY <1>3, <2>1, <2>2, <2>3 DEF ToSet
<1>8. \A i \in 1 .. m : others[i] # some[n]
  BY <1>1, <1>2 DEF ToSet
<1>9. AreDistinct(more, S)
  <2>1. \A i, j \in DOMAIN more : more[i] = more[j] => i = j
    BY <1>1, <1>4, <1>8 DEF AreDistinct
  <2>. QED
    BY <1>4, <2>1 DEF AreDistinct
<1>10. ToSet(more) = ToSet(others) \cup {some[n]}
  <2>1. 1 .. (m + 1) = (1 .. m) \cup {m + 1}
    BY <1>1
  <2>. QED
    BY <1>1, <1>4, <2>1 DEF ToSet
<1>. QED
  BY <1>2, <1>5, <1>6, <1>7, <1>9, <1>10 DEF front, more

\* Two sequences that have no member in common, one after the other.
LEMMA Joined ==
  ASSUME NEW S, NEW some, AreDistinct(some, S), NEW others, AreDistinct(others, S),
         ToSet(some) \cap ToSet(others) = {}
  PROVE  /\ IsInjective(some \o others)
         /\ ToSet(some \o others) = ToSet(some) \cup ToSet(others)
<1> DEFINE n == Len(some)
           m == Len(others)
           both == some \o others
<1>1. n \in Nat /\ DOMAIN some = 1 .. n /\ m \in Nat /\ DOMAIN others = 1 .. m
  BY DEF AreDistinct
<1>2. /\ DOMAIN both = 1 .. (n + m) /\ \A i \in 1 .. n : both[i] = some[i]
      /\ \A i \in 1 .. (n + m) : i \notin 1 .. n => i - n \in 1 .. m /\ both[i] = others[i - n]
      /\ \A i \in 1 .. m : n + i \in 1 .. (n + m) /\ both[n + i] = others[i]
  BY <1>1 DEF AreDistinct
<1>3. /\ \A i, j \in 1 .. n : some[i] = some[j] => i = j
      /\ \A i, j \in 1 .. m : others[i] = others[j] => i = j
      /\ \A i \in 1 .. n, j \in 1 .. m : some[i] # others[j]
  BY <1>1 DEF AreDistinct, ToSet
<1> HIDE DEF both
<1>4. ASSUME NEW i \in 1 .. (n + m), NEW j \in 1 .. (n + m), both[i] = both[j]
      PROVE  i = j
  <2> HIDE DEF n, m
  <2>1. CASE i \in 1 .. n /\ j \in 1 .. n
    BY <1>2, <1>3, <1>4, <2>1
  <2>2. CASE i \notin 1 .. n /\ j \notin 1 .. n
    <3>1. i - n = j - n
      BY <1>2, <1>3, <1>4, <2>2
    <3>. QED
      BY <1>1, <3>1
  <2>3. CASE i \in 1 .. n /\ j \notin 1 .. n
    BY <1>2, <1>3, <1>4, <2>3
  <2>4. CASE i \notin 1 .. n /\ j \in 1 .. n
    BY <1>2, <1>3, <1>4, <2>4
  <2>. QED
    BY <2>1, <2>2, <2>3, <2>4
<1>5. IsInjective(both)
  BY <1>2, <1>4 DEF IsInjective
<1>6. ToSet(both) = ToSet(some) \cup ToSet(others)
  <2>1. \A i \in 1 .. n : i \in 1 .. (n + m)
    BY <1>1
  <2> HIDE DEF n, m
  <2>. QED
    <3>1. /\ \A c \in ToSet(both) : \E i \in 1 .. (n + m) : both[i] = c
          /\ \A i \in 1 .. (n + m) : both[i] \in ToSet(both)
      BY <1>2 DEF ToSet
    <3>2. /\ \A c \in ToSet(some) : \E i \in 1 .. n : some[i] = c
          /\ \A i \in 1 .. n : some[i] \in ToSet(some)
      BY <1>1 DEF ToSet
    <3>3. /\ \A c \in ToSet(others) : \E i \in 1 .. m : others[i] = c
          /\ \A i \in 1 .. m : others[i] \in ToSet(others)
      BY <1>1 DEF ToSet
    <3>4. ToSet(both) \subseteq ToSet(some) \cup ToSet(others)
      BY <1>2, <3>1, <3>2, <3>3
    <3>5. ToSet(some) \subseteq ToSet(both)
      BY <1>2, <2>1, <3>1, <3>2
    <3>6. ToSet(others) \subseteq ToSet(both)
      BY <1>2, <3>1, <3>3
    <3>. QED
      BY <3>4, <3>5, <3>6
<1>. QED
  BY <1>5, <1>6 DEF both

-----------------------------------------------------------------------------
(***************************************************************************)
(* The invariant                                                           *)
(***************************************************************************)

\* What a search is given.
InputOK ==
  /\ topK \in Nat \ {0} /\ minScore \in Nat
  /\ AreLists(lists) /\ IsFilter(filter, accepted, Matching(lists))

CursorsOK ==
  /\ at \in [Cursors -> Nat] /\ \A c \in Cursors : at[c] \in DOMAIN lists[c]
  /\ AreDistinct(active, Cursors) /\ AreDistinct(passive, Cursors)
  /\ ToSet(active) \cap ToSet(passive) = {}

\* The hits have their scores, if these matter, and come before the candidate.
HeapOK ==
  /\ theta = Threshold(heap, topK, minScore)
  /\ IsHeap(heap, Candidates, topK)
  /\ \A h \in heap :
       /\ h.score <= Score(lists, h.docid)
       /\ Score(lists, h.docid) > minScore => h.score = Score(lists, h.docid)
       /\ \A c \in ToSet(active) : h.docid < at[c]

\* A document that can still enter the heap.
Open(d) == d \in Candidates /\ Score(lists, d) > theta /\ d \notin Docids(heap)

\* It is ahead of the cursors of all its terms.
Ahead ==
  \A d \in Candidates :
    Open(d) => \A c \in Holders(lists, d) : c \in ToSet(active) \cup ToSet(passive) /\ at[c] <= d

AnswerOK ==
  /\ answered \in BOOLEAN /\ (~answered => answer = <<>>)
  /\ \A i \in DOMAIN answer : answer[i].docid \in accepted

IInv == InputOK /\ CursorsOK /\ HeapOK /\ Ahead /\ PassiveStaysBelow /\ AnswerOK

-----------------------------------------------------------------------------
(***************************************************************************)
(* What the invariant says of one state                                    *)
(***************************************************************************)

\* The candidate is the first document of an active cursor.
LEMMA CandidateFacts ==
  ASSUME InputOK, CursorsOK, active # <<>>
  PROVE  /\ Candidate \in Nat /\ Candidate \in Matching(lists)
         /\ AtCandidate # {} /\ AtCandidate \subseteq ToSet(active) /\ IsFiniteSet(AtCandidate)
         /\ AtCandidate \subseteq Holders(lists, Candidate)
         /\ \A c \in AtCandidate : at[c] = Candidate
         /\ \A c \in ToSet(active) : at[c] >= Candidate
         /\ \A c \in ToSet(active) \ AtCandidate : at[c] > Candidate
<1> DEFINE A == ToSet(active)
<1>1. IsFiniteSet(A) /\ A \subseteq Cursors
  BY FiniteMembers DEF CursorsOK, AreDistinct
<1>2. Candidate \in {at[c] : c \in A} /\ \A c \in A : Candidate <= at[c]
  BY FirstOf DEF Candidate, CursorsOK, AreDistinct
<1>3. Candidate \in Nat /\ \A c \in A : at[c] >= Candidate /\ at[c] \in Nat
  BY <1>1, <1>2 DEF CursorsOK
<1>4. \E c \in A : at[c] = Candidate
  BY <1>2
<1>5. AtCandidate = {c \in A : at[c] = Candidate}
  BY DEF AtCandidate
<1>6. AtCandidate \subseteq Holders(lists, Candidate)
  BY <1>1, <1>5 DEF CursorsOK, Holders, Cursors
<1>7. Candidate \in Matching(lists)
  BY <1>4, <1>1 DEF CursorsOK, Matching, Cursors
<1>8. IsFiniteSet(AtCandidate)
  BY <1>1, <1>5, FS_Subset
<1>. QED
  BY <1>3, <1>4, <1>5, <1>6, <1>7, <1>8

\* The bounds of the lists are natural numbers and bound what they add.
LEMMA BoundsFacts ==
  ASSUME InputOK
  PROVE  /\ IsFiniteSet(Cursors)
         /\ \A c \in Cursors : Bounds(lists)[c] = MaxValue(lists[c]) /\ Bounds(lists)[c] \in Nat
         /\ \A d : \A c \in Holders(lists, d) : lists[c][d] <= Bounds(lists)[c]
<1>1. \A c \in Cursors : IsList(lists[c]) /\ Bounds(lists)[c] = MaxValue(lists[c])
  BY DEF InputOK, AreLists, Cursors, Bounds
<1>2. \A c \in Cursors : MaxValue(lists[c]) \in Nat /\ \A d \in DOMAIN lists[c] : lists[c][d] <= MaxValue(lists[c])
  BY <1>1, ListBound
<1>3. IsFiniteSet(Cursors)
  BY DEF InputOK, AreLists, Cursors
<1>. QED
  BY <1>1, <1>2, <1>3 DEF Holders, Cursors

\* theta is a natural number, not below the initial threshold.
LEMMA ThetaFacts ==
  ASSUME InputOK, HeapOK
  PROVE  theta \in Nat /\ minScore <= theta
BY ThresholdFacts DEF InputOK, HeapOK

\* What the terms K of a document add is at most the sum of their bounds.
LEMMA PartBelowBounds ==
  ASSUME InputOK, NEW d, NEW K \in SUBSET Cursors
  PROVE  SumOver(ValuesAt(lists, d), K \cap Holders(lists, d)) <= SumOver(Bounds(lists), K)
<1> DEFINE H == K \cap Holders(lists, d)
<1>1. AreLists(lists) /\ H \subseteq Holders(lists, d)
  BY DEF InputOK
<1>2. \A c \in Cursors : Bounds(lists)[c] \in Nat
  BY BoundsFacts
<1>3. \A c \in H : Bounds(lists)[c] \in Nat /\ lists[c][d] <= Bounds(lists)[c]
  BY BoundsFacts
<1>4. SumOver(ValuesAt(lists, d), H) <= SumOver(Bounds(lists), H)
  <2> HIDE DEF H
  <2>. QED
    BY <1>1, <1>3, ScoreBelow
<1>5. IsFiniteSet(K)
  BY BoundsFacts, FS_Subset
<1>6. SumOver(Bounds(lists), H) <= SumOver(Bounds(lists), K)
  BY <1>2, <1>5, SumPart
<1>7. /\ SumOver(Bounds(lists), H) \in Nat /\ SumOver(Bounds(lists), K) \in Nat
      /\ SumOver(ValuesAt(lists, d), H) \in Nat
  <2>1. IsFiniteSet(H) /\ IsFiniteSet(K)
    BY <1>5, FS_Subset
  <2>2. \A c \in H : ValuesAt(lists, d)[c] \in Nat
    BY <1>1, ScoreType
  <2>. QED
    BY <1>2, <2>1, <2>2, SumType
<1>. QED
  BY <1>4, <1>6, <1>7

\* A document that can still enter the heap has an active cursor: the passive
\* ones alone do not bring it above theta.
LEMMA OneIsActive ==
  ASSUME IInv, NEW d \in Candidates, Open(d)
  PROVE  \E c \in Holders(lists, d) : c \in ToSet(active)
<1> DEFINE H == Holders(lists, d)
           P == ToSet(passive)
<1> SUFFICES ASSUME \A c \in H : c \notin ToSet(active) PROVE FALSE
  OBVIOUS
<1>1. H \subseteq P /\ P \subseteq Cursors
  BY FiniteMembers DEF IInv, Ahead, CursorsOK, AreDistinct
<1>2. H # {}
  BY DEF Candidates, Eligible, Matching, Holders
<1>3. passive # <<>>
  BY <1>1, <1>2 DEF ToSet
<1>4. sumPass = SumOver(Bounds(lists), P) /\ sumPass < theta
  BY <1>3 DEF IInv, PassiveStaysBelow
<1>5. SumOver(ValuesAt(lists, d), P \cap H) <= SumOver(Bounds(lists), P)
  BY <1>1, PartBelowBounds DEF IInv
<1>6. SumOver(ValuesAt(lists, d), P \cap H) = Score(lists, d)
  BY <1>1, P \cap H = H DEF Score
<1>7. theta \in Nat /\ sumPass \in Nat /\ Score(lists, d) \in Nat
  <2>1. theta \in Nat
    BY ThetaFacts DEF IInv
  <2>2. Score(lists, d) \in Nat
    BY ScoreType DEF IInv, InputOK
  <2>3. IsFiniteSet(P) /\ \A c \in P : Bounds(lists)[c] \in Nat
    BY <1>1, BoundsFacts, FS_Subset DEF IInv
  <2>. QED
    BY <1>4, <2>1, <2>2, <2>3, SumType
<1>. QED
  BY <1>4, <1>5, <1>6, <1>7 DEF Open

-----------------------------------------------------------------------------
(***************************************************************************)
(* What a step does                                                        *)
(***************************************************************************)

\* The cursors at the candidate move past it, to least at least, and not past any
\* document they hold there; the others stay.
LEMMA MovedFacts ==
  ASSUME InputOK, CursorsOK, active # <<>>, NEW STATE least, least \in Nat
  PROVE  /\ Moved(least) \in [Cursors -> Nat]
         /\ \A c \in Cursors : Moved(least)[c] \in DOMAIN lists[c] /\ Moved(least)[c] >= at[c]
         /\ \A c \in Cursors \ AtCandidate : Moved(least)[c] = at[c]
         /\ \A c \in AtCandidate : \A e \in DOMAIN lists[c] :
              e > Candidate /\ e >= least => c \notin Exhausted(least) /\ Moved(least)[c] <= e
         /\ \A c \in AtCandidate \ Exhausted(least) : Moved(least)[c] > at[c]
         /\ AreDistinct(Retained(least), Cursors)
         /\ ToSet(Retained(least)) = ToSet(active) \ Exhausted(least)
         /\ \A c \in ToSet(Retained(least)) : Moved(least)[c] > Candidate
<1> DEFINE next(c) == Min(Onward(lists[c], at[c], least))
<1>1. /\ Candidate \in Nat /\ AtCandidate \subseteq ToSet(active)
      /\ \A c \in AtCandidate : at[c] = Candidate
      /\ \A c \in ToSet(active) \ AtCandidate : at[c] > Candidate
  BY CandidateFacts
<1>2. ToSet(active) \subseteq Cursors
  BY FiniteMembers DEF CursorsOK, AreDistinct
<1>3. \A c \in Cursors : IsList(lists[c]) /\ DOMAIN lists[c] \subseteq Nat /\ at[c] \in DOMAIN lists[c]
  BY DEF InputOK, AreLists, Cursors, CursorsOK, IsList
<1>4. ASSUME NEW c \in AtCandidate \ Exhausted(least)
      PROVE  /\ next(c) \in DOMAIN lists[c] /\ next(c) > at[c]
             /\ \A e \in DOMAIN lists[c] : e > at[c] /\ e >= least => next(c) <= e
  <2>1. Onward(lists[c], at[c], least) # {}
    BY DEF Exhausted
  <2>2. IsList(lists[c]) /\ at[c] \in Int /\ least \in Int
    BY <1>1, <1>2, <1>3
  <2>. QED
    BY <2>1, <2>2, OnwardFacts
<1>5. \A c \in Cursors :
        Moved(least)[c] = IF c \in AtCandidate \ Exhausted(least) THEN next(c) ELSE at[c]
  BY DEF Moved
<1>6. \A c \in AtCandidate : \A e \in DOMAIN lists[c] :
        e > Candidate /\ e >= least => c \notin Exhausted(least)
  BY <1>1 DEF Exhausted, Onward
<1> HIDE DEF next
<1>7. \A c \in Cursors : Moved(least)[c] \in DOMAIN lists[c] /\ Moved(least)[c] >= at[c]
                         /\ Moved(least)[c] \in Nat
  BY <1>3, <1>4, <1>5
<1>8. Moved(least) \in [Cursors -> Nat]
  BY <1>7 DEF Moved
<1>9. \A c \in AtCandidate : \A e \in DOMAIN lists[c] :
        e > Candidate /\ e >= least => Moved(least)[c] <= e
  BY <1>1, <1>2, <1>4, <1>5, <1>6
<1>10. /\ AreDistinct(Retained(least), Cursors)
       /\ ToSet(Retained(least)) = ToSet(active) \ Exhausted(least)
  BY WithoutFacts DEF CursorsOK, Retained
<1>11. \A c \in ToSet(Retained(least)) : Moved(least)[c] > Candidate
  <2> SUFFICES ASSUME NEW c \in ToSet(active) \ Exhausted(least) PROVE Moved(least)[c] > Candidate
    BY <1>10
  <2>1. CASE c \in AtCandidate
    BY <1>1, <1>2, <1>4, <1>5, <2>1
  <2>2. CASE c \notin AtCandidate
    BY <1>1, <1>2, <1>5, <2>2
  <2>. QED
    BY <2>1, <2>2
<1>12. \A c \in AtCandidate \ Exhausted(least) : Moved(least)[c] > at[c]
  BY <1>1, <1>2, <1>4, <1>5
<1>13. \A c \in Cursors \ AtCandidate : Moved(least)[c] = at[c]
  BY <1>5
<1>. QED
  BY <1>6, <1>7, <1>8, <1>9, <1>10, <1>11, <1>12, <1>13

\* A cursor that becomes passive keeps the passive ones below theta, and none is
\* lost on the way.
LEMMA ExpandFacts ==
  ASSUME InputOK, lists' = lists, theta' \in Nat,
         NEW STATE left, AreDistinct(left, Cursors),
         NEW STATE pass, AreDistinct(pass, Cursors), ToSet(left) \cap ToSet(pass) = {},
         NEW STATE sum, sum = SumOver(Bounds(lists), ToSet(pass)), pass # <<>> => sum < theta',
         Expand(left, pass, sum)
  PROVE  /\ AreDistinct(active', Cursors) /\ AreDistinct(passive', Cursors)
         /\ ToSet(active') \cap ToSet(passive') = {} /\ ToSet(active') \subseteq ToSet(left)
         /\ ToSet(active') \cup ToSet(passive') = ToSet(left) \cup ToSet(pass)
         /\ PassiveStaysBelow'
<1>1. CASE left # <<>> /\ MaxValue(lists[Last(left)]) + sum < theta'
  <2>1. /\ active' = Front(left) /\ passive' = Append(pass, Last(left))
        /\ sumPass' = sum + MaxValue(lists[Last(left)])
    BY <1>1 DEF Expand
  <2>2. /\ Last(left) \in ToSet(left)
        /\ AreDistinct(Front(left), Cursors) /\ ToSet(Front(left)) = ToSet(left) \ {Last(left)}
        /\ AreDistinct(Append(pass, Last(left)), Cursors)
        /\ ToSet(Append(pass, Last(left))) = ToSet(pass) \cup {Last(left)}
    BY <1>1, LastMoves
  <2>3. Last(left) \notin ToSet(pass) /\ Last(left) \in Cursors
    BY <2>2, FiniteMembers DEF AreDistinct
  <2>4. IsFiniteSet(ToSet(pass)) /\ ToSet(pass) \subseteq Cursors
    BY FiniteMembers DEF AreDistinct
  <2>5. SumOver(Bounds(lists), ToSet(pass) \cup {Last(left)})
          = Bounds(lists)[Last(left)] + SumOver(Bounds(lists), ToSet(pass))
    BY <2>3, <2>4, BoundsFacts, SumAdd
  <2>6. /\ Bounds(lists)[Last(left)] = MaxValue(lists[Last(left)])
        /\ Bounds(lists)[Last(left)] \in Nat /\ sum \in Nat
    BY <2>3, <2>4, BoundsFacts, SumType
  <2>7. sumPass' = SumOver(Bounds(lists), ToSet(passive'))
    BY <2>1, <2>2, <2>5, <2>6
  <2>8. sumPass' < theta'
    BY <1>1, <2>1, <2>6
  <2>9. PassiveStaysBelow'
    BY <2>7, <2>8 DEF PassiveStaysBelow
  <2>. QED
    BY <2>1, <2>2, <2>3, <2>9
<1>2. CASE ~(left # <<>> /\ MaxValue(lists[Last(left)]) + sum < theta')
  <2>1. active' = left /\ passive' = pass /\ sumPass' = sum
    BY <1>2 DEF Expand
  <2>2. PassiveStaysBelow'
    BY <2>1 DEF PassiveStaysBelow
  <2>. QED
    BY <2>1, <2>2
<1>. QED
  BY <1>1, <1>2

\* A skip of blocks loses no document that can still enter the heap: one before
\* the target scores at most what the blocks and the passive lists can add.
LEMMA PruneSkips ==
  ASSUME IInv, active # <<>>, BlockBound <= theta
  PROVE  /\ SkipTo \in Nat
         /\ \A d \in Candidates : Open(d) => d > Candidate /\ d >= SkipTo
<1> DEFINE ends == {MaxBlockDocId(lists[c], at[c]) + 1 : c \in AtCandidate}
           others == {at[c] : c \in ToSet(active) \ AtCandidate}
           A == AtCandidate
           P == ToSet(passive)
<1>1. /\ Candidate \in Nat /\ A \subseteq ToSet(active) /\ IsFiniteSet(A) /\ A # {}
      /\ \A c \in A : at[c] = Candidate
      /\ \A c \in ToSet(active) : at[c] >= Candidate
      /\ \A c \in ToSet(active) \ A : at[c] > Candidate
  BY CandidateFacts DEF IInv
<1>2. /\ IsFiniteSet(ToSet(active)) /\ ToSet(active) \subseteq Cursors
      /\ IsFiniteSet(P) /\ P \subseteq Cursors /\ ToSet(active) \cap P = {}
  BY FiniteMembers DEF IInv, CursorsOK, AreDistinct
<1>3. \A c \in Cursors : IsList(lists[c]) /\ at[c] \in DOMAIN lists[c] /\ at[c] \in Nat
  BY DEF IInv, InputOK, AreLists, Cursors, CursorsOK
<1>4. \A c \in Cursors : /\ MaxBlockDocId(lists[c], at[c]) \in DOMAIN lists[c]
                         /\ at[c] <= MaxBlockDocId(lists[c], at[c])
                         /\ BlockBounds(lists, at)[c] = MaxBlockValue(lists[c], at[c])
                         /\ BlockBounds(lists, at)[c] \in Nat
                         /\ \A e \in DOMAIN lists[c] :
                              at[c] <= e /\ e <= MaxBlockDocId(lists[c], at[c])
                                => lists[c][e] <= BlockBounds(lists, at)[c]
  BY <1>3, BlockFacts DEF BlockBounds, Cursors
<1>5. \A c \in Cursors : MaxBlockDocId(lists[c], at[c]) \in Nat
  BY <1>3, <1>4 DEF IsList
<1>6. IsFiniteSet(ends \cup others)
  <2> DEFINE f == [c \in A |-> MaxBlockDocId(lists[c], at[c]) + 1]
  <2>1. ends = {f[c] : c \in A}
    OBVIOUS
  <2>2. IsFiniteSet({f[c] : c \in A})
    <3> HIDE DEF f
    <3>. QED
      BY <1>1, FiniteValues
  <2>3. IsFiniteSet(ToSet(active) \ A)
    BY <1>2, FS_Subset
  <2>4. IsFiniteSet(others)
    BY <2>3, FiniteValues
  <2> HIDE DEF ends, others
  <2>. QED
    BY <2>1, <2>2, <2>4, FS_Union
<1>7. ends \cup others \subseteq Nat /\ ends \cup others \subseteq Int /\ ends # {}
  BY <1>1, <1>2, <1>3, <1>5
<1>8. SkipTo \in Nat /\ \A x \in ends \cup others : SkipTo <= x
  <2>1. SkipTo = Min(ends \cup others)
    BY DEF SkipTo
  <2> HIDE DEF ends, others
  <2>. QED
    BY <1>6, <1>7, <2>1, SmallestMember
<1>9. SkipTo > Candidate
  <2>1. \A x \in ends \cup others : x > Candidate
    BY <1>1, <1>2, <1>4, <1>5
  <2>2. SkipTo \in ends \cup others
    <3>1. SkipTo = Min(ends \cup others)
      BY DEF SkipTo
    <3> HIDE DEF ends, others
    <3>. QED
      BY <1>6, <1>7, <3>1, SmallestMember
  <2>. QED
    BY <2>1, <2>2
<1>10. ASSUME NEW d \in Candidates, Open(d)
       PROVE  d >= SkipTo
  <2> DEFINE H == Holders(lists, d)
             V == ValuesAt(lists, d)
  <2> SUFFICES ASSUME ~(d >= SkipTo) PROVE FALSE
    OBVIOUS
  <2>1. d \in Nat /\ H \subseteq Cursors
    BY DEF IInv, InputOK, AreLists, IsList, Candidates, Eligible, Matching, Holders, Cursors
  <2>2. \A c \in H : c \in ToSet(active) \cup P /\ at[c] <= d
    BY <1>10 DEF IInv, Ahead
  <2>3. \A c \in H \cap ToSet(active) : c \in A
    <3>1. \A c \in ToSet(active) \ A : at[c] >= SkipTo
      BY <1>8
    <3>. QED
      BY <1>2, <1>3, <1>8, <2>1, <2>2, <3>1
  <2>4. \A c \in H \cap A : lists[c][d] <= BlockBounds(lists, at)[c]
    <3> SUFFICES ASSUME NEW c \in H \cap A PROVE lists[c][d] <= BlockBounds(lists, at)[c]
      OBVIOUS
    <3>1. MaxBlockDocId(lists[c], at[c]) + 1 >= SkipTo
      BY <1>8
    <3>2. c \in Cursors /\ d \in DOMAIN lists[c] /\ at[c] <= d
      BY <2>1, <2>2 DEF Holders
    <3>3. d <= MaxBlockDocId(lists[c], at[c])
      BY <1>5, <1>8, <2>1, <3>1, <3>2
    <3>. QED
      BY <1>4, <3>2, <3>3
  <2>5. SumOver(V, A \cap H) <= SumOver(BlockBounds(lists, at), A)
    <3>1. IsFiniteSet(A \cap H) /\ A \cap H \subseteq H
      BY <1>1, FS_Subset
    <3>2. \A c \in A : BlockBounds(lists, at)[c] \in Nat
      BY <1>1, <1>2, <1>4
    <3>3. SumOver(V, A \cap H) <= SumOver(BlockBounds(lists, at), A \cap H)
      BY <3>1, <3>2, <2>4, ScoreBelow DEF IInv, InputOK
    <3>4. SumOver(BlockBounds(lists, at), A \cap H) <= SumOver(BlockBounds(lists, at), A)
      BY <1>1, <3>2, SumPart
    <3>5. /\ SumOver(V, A \cap H) \in Nat
          /\ SumOver(BlockBounds(lists, at), A \cap H) \in Nat
          /\ SumOver(BlockBounds(lists, at), A) \in Nat
      <4>1. \A c \in A \cap H : V[c] \in Nat
        BY ScoreType DEF IInv, InputOK
      <4>. QED
        BY <1>1, <3>1, <3>2, <4>1, SumType
    <3>. QED
      BY <3>3, <3>4, <3>5
  <2>6. SumOver(V, P \cap H) <= sumPass /\ sumPass \in Nat
    <3>1. SumOver(V, P \cap H) <= SumOver(Bounds(lists), P)
      BY <1>2, PartBelowBounds DEF IInv
    <3>2. sumPass = SumOver(Bounds(lists), P) /\ SumOver(Bounds(lists), P) \in Nat
      BY <1>2, BoundsFacts, SumType DEF IInv, PassiveStaysBelow
    <3>. QED
      BY <3>1, <3>2
  <2>7. /\ IsFiniteSet(A \cap H) /\ IsFiniteSet(P \cap H) /\ (A \cap H) \cap (P \cap H) = {}
        /\ (A \cap H) \cup (P \cap H) = H
    BY <1>1, <1>2, <2>2, <2>3, FS_Subset
  <2>8. \A c \in H : V[c] \in Nat
    BY ScoreType DEF IInv, InputOK
  <2>9. SumOver(V, (A \cap H) \cup (P \cap H)) = SumOver(V, A \cap H) + SumOver(V, P \cap H)
    BY <2>7, <2>8, SumUnion
  <2>10. Score(lists, d) = SumOver(V, A \cap H) + SumOver(V, P \cap H)
    BY <2>7, <2>9 DEF Score
  <2>11. /\ SumOver(V, A \cap H) \in Nat /\ SumOver(V, P \cap H) \in Nat
         /\ SumOver(BlockBounds(lists, at), A) \in Nat
    BY <1>1, <1>2, <1>4, <2>7, <2>8, SumType
  <2>12. Score(lists, d) > theta /\ theta \in Nat
    BY <1>10, ThetaFacts DEF IInv, Open
  <2>13. SumOver(BlockBounds(lists, at), A) + sumPass <= theta
    BY DEF BlockBound
  <2>. QED
    BY <2>5, <2>6, <2>10, <2>11, <2>12, <2>13
<1>11. \A d \in Candidates : d \in Nat
  BY DEF IInv, InputOK, AreLists, IsList, Candidates, Eligible, Matching
<1>. QED
  BY <1>1, <1>8, <1>9, <1>10, <1>11

-----------------------------------------------------------------------------
(***************************************************************************)
(* The steps keep the invariant                                            *)
(***************************************************************************)

\* What every iteration does to the active cursors: those that stay are past the
\* candidate.
StepsOn ==
  /\ theta <= theta' /\ ToSet(active') \subseteq ToSet(active)
  /\ \A c \in ToSet(active') : at'[c] > Candidate /\ at'[c] >= at[c]

\* A skip of the blocks around the candidate, or of a refused one.
LEMMA SkipKeeps ==
  ASSUME IInv, active # <<>>, NEW STATE least, least \in Nat,
         \A d \in Candidates : Open(d) => d > Candidate /\ d >= least,
         at' = Moved(least), UNCHANGED <<input, theta, heap, answered, answer>>,
         Expand(Retained(least), passive, sumPass)
  PROVE  IInv' /\ StepsOn
<1>1. /\ lists' = lists /\ filter' = filter /\ accepted' = accepted /\ topK' = topK
      /\ minScore' = minScore /\ theta' = theta /\ heap' = heap
      /\ answered' = answered /\ answer' = answer
  BY DEF input
<1>2. InputOK'
  BY <1>1 DEF IInv, InputOK
<1>3. /\ Moved(least) \in [Cursors -> Nat]
      /\ \A c \in Cursors : at'[c] \in DOMAIN lists[c] /\ at'[c] >= at[c]
      /\ \A c \in Cursors \ AtCandidate : at'[c] = at[c]
      /\ \A c \in AtCandidate : \A e \in DOMAIN lists[c] :
           e > Candidate /\ e >= least => c \notin Exhausted(least) /\ at'[c] <= e
      /\ AreDistinct(Retained(least), Cursors)
      /\ ToSet(Retained(least)) = ToSet(active) \ Exhausted(least)
      /\ \A c \in ToSet(Retained(least)) : at'[c] > Candidate
  BY MovedFacts DEF IInv
<1>4. /\ AreDistinct(active', Cursors) /\ AreDistinct(passive', Cursors)
      /\ ToSet(active') \cap ToSet(passive') = {} /\ ToSet(active') \subseteq ToSet(Retained(least))
      /\ ToSet(active') \cup ToSet(passive') = ToSet(Retained(least)) \cup ToSet(passive)
      /\ PassiveStaysBelow'
  <2>1. theta' \in Nat
    BY <1>1, ThetaFacts DEF IInv
  <2>2. /\ AreDistinct(passive, Cursors) /\ ToSet(Retained(least)) \cap ToSet(passive) = {}
        /\ sumPass = SumOver(Bounds(lists), ToSet(passive))
        /\ passive # <<>> => sumPass < theta'
    BY <1>1, <1>3 DEF IInv, CursorsOK, PassiveStaysBelow
  <2>. QED
    BY <1>1, <1>3, <2>1, <2>2, ExpandFacts DEF IInv
<1>5. Cursors' = Cursors /\ Candidates' = Candidates
  BY <1>1 DEF Cursors, Candidates
<1>6. CursorsOK'
  BY <1>1, <1>3, <1>4, <1>5 DEF CursorsOK
<1>7. HeapOK'
  <2>1. \A h \in heap : \A c \in ToSet(active) : h.docid < at[c]
    BY DEF IInv, HeapOK
  <2>2. ToSet(active') \subseteq ToSet(active) /\ ToSet(active) \subseteq Cursors
    BY <1>3, <1>4, FiniteMembers DEF IInv, CursorsOK, AreDistinct
  <2>3. \A h \in heap : h.docid \in Nat
    BY DEF IInv, HeapOK, IsHeap, InputOK, AreLists, IsList, Candidates, Eligible, Matching
  <2>4. \A c \in Cursors : at[c] \in Nat /\ at'[c] \in Nat
    BY <1>3 DEF IInv, CursorsOK
  <2>5. \A h \in heap : \A c \in ToSet(active') : h.docid < at'[c]
    BY <1>3, <2>1, <2>2, <2>3, <2>4
  <2>. QED
    BY <1>1, <1>5, <2>5 DEF IInv, HeapOK
<1>8. Ahead'
  <2> SUFFICES ASSUME NEW d \in Candidates', Open(d)', NEW c \in Holders(lists, d)
               PROVE  c \in ToSet(active') \cup ToSet(passive') /\ at'[c] <= d
    BY <1>1 DEF Ahead
  <2>1. d \in Candidates /\ Open(d)
    BY <1>1, <1>5 DEF Open
  <2>2. c \in ToSet(active) \cup ToSet(passive) /\ at[c] <= d
    BY <2>1 DEF IInv, Ahead
  <2>3. d > Candidate /\ d >= least
    BY <2>1
  <2>4. c \in Cursors /\ d \in DOMAIN lists[c]
    BY DEF Holders, Cursors
  <2>5. CASE c \in AtCandidate
    BY <1>3, <1>4, <2>2, <2>3, <2>4, <2>5
  <2>6. CASE c \notin AtCandidate
    BY <1>3, <1>4, <2>2, <2>4, <2>6 DEF Exhausted
  <2>. QED
    BY <2>5, <2>6
<1>9. AnswerOK'
  BY <1>1 DEF IInv, AnswerOK
<1>10. StepsOn
  <2>1. ToSet(active) \subseteq Cursors
    BY FiniteMembers DEF IInv, CursorsOK, AreDistinct
  <2>2. theta <= theta'
    BY <1>1, ThetaFacts DEF IInv
  <2>. QED
    BY <1>3, <1>4, <2>1, <2>2 DEF StepsOn
<1>. QED
  BY <1>2, <1>4, <1>6, <1>7, <1>8, <1>9, <1>10 DEF IInv

-----------------------------------------------------------------------------
(***************************************************************************)
(* Scoring a candidate                                                     *)
(***************************************************************************)

\* Where a passive cursor may go when it is asked for the candidate, and what it
\* then adds.
Ask(c) == Onward(lists[c], at[c] - 1, Candidate)
Found == [c \in Cursors |-> IF Candidate \in Ask(c) THEN lists[c][Candidate] ELSE 0]

Consultation ==
  [score : Nat, rest : Int, at : [Cursors -> Nat], gone : SUBSET Cursors, stopped : BOOLEAN]

\* The cursors K have been asked.
HasAsked(K, s, first, moved) ==
  /\ s.score = first + SumOver(Found, K)
  /\ s.rest = sumPass - SumOver(Bounds(lists), K)
  /\ s.gone = {c \in K : Ask(c) = {}}
  /\ s.at = [c \in Cursors |-> IF c \in K /\ Ask(c) # {} THEN Min(Ask(c)) ELSE moved[c]]

\* Of the cursors P all have been asked, or it was found that they cannot help.
Consults(P, s, first, moved) ==
  /\ s \in Consultation
  /\ \E K \in SUBSET P :
       /\ HasAsked(K, s, first, moved)
       /\ IF s.stopped THEN s.score + s.rest <= theta ELSE K = P

\* What one cursor may find.
LEMMA AskFacts ==
  ASSUME InputOK, CursorsOK, active # <<>>, NEW c \in Cursors
  PROVE  /\ Found[c] \in Nat /\ Bounds(lists)[c] \in Nat
         /\ Ask(c) # {} => Min(Ask(c)) \in DOMAIN lists[c] /\ Min(Ask(c)) \in Nat
                           /\ Min(Ask(c)) >= at[c]
         /\ \A e \in DOMAIN lists[c] :
              e >= at[c] /\ e >= Candidate => Ask(c) # {} /\ Min(Ask(c)) <= e
         /\ at[c] <= Candidate /\ Candidate \in DOMAIN lists[c] => Found[c] = lists[c][Candidate]
         /\ Found[c] # 0 => c \in Holders(lists, Candidate) /\ Found[c] = lists[c][Candidate]
<1>1. IsList(lists[c]) /\ at[c] \in Nat
  BY DEF InputOK, AreLists, Cursors, CursorsOK
<1>2. Candidate \in Nat
  BY CandidateFacts
<1>3. at[c] - 1 \in Int /\ Candidate \in Int
  BY <1>1, <1>2
<1>4. Ask(c) # {} => /\ Min(Ask(c)) \in DOMAIN lists[c] /\ Min(Ask(c)) > at[c] - 1
                     /\ \A e \in DOMAIN lists[c] :
                          e > at[c] - 1 /\ e >= Candidate => Min(Ask(c)) <= e
  BY <1>1, <1>3, OnwardFacts DEF Ask
<1>5. DOMAIN lists[c] \subseteq Nat /\ \A e \in DOMAIN lists[c] : lists[c][e] \in Nat
  BY <1>1 DEF IsList
<1>6. \A e \in DOMAIN lists[c] : e >= at[c] => e > at[c] - 1
  BY <1>1, <1>5
<1>7. \A e \in DOMAIN lists[c] : e >= at[c] /\ e >= Candidate => e \in Ask(c)
  BY <1>6 DEF Ask, Onward
<1>8. Ask(c) \subseteq DOMAIN lists[c]
  BY DEF Ask, Onward
<1>9. Bounds(lists)[c] \in Nat
  BY BoundsFacts
<1>10. Found[c] = IF Candidate \in Ask(c) THEN lists[c][Candidate] ELSE 0
  BY DEF Found
<1>11. Candidate \in Ask(c) => c \in Holders(lists, Candidate)
  BY <1>8 DEF Holders, Cursors
<1>12. Ask(c) # {} => Min(Ask(c)) >= at[c] /\ Min(Ask(c)) \in Nat
  BY <1>1, <1>4, <1>5
<1>13. \A e \in DOMAIN lists[c] : e >= at[c] /\ e >= Candidate => Ask(c) # {} /\ Min(Ask(c)) <= e
  BY <1>4, <1>6, <1>7
<1>14. at[c] <= Candidate /\ Candidate \in DOMAIN lists[c] => Candidate \in Ask(c)
  BY <1>1, <1>2, <1>7
<1>15. Found[c] \in Nat
  BY <1>5, <1>8, <1>10
<1>. QED
  BY <1>4, <1>9, <1>10, <1>11, <1>12, <1>13, <1>14, <1>15

\* What asking one cursor does, unless it was found that the others cannot help.
LEMMA ConsultOneFacts ==
  ASSUME InputOK, CursorsOK, active # <<>>, NEW STATE c, c \in Cursors,
         NEW STATE s, s \in Consultation
  PROVE  /\ ConsultOne(c, s) \in Consultation
         /\ s.stopped \/ s.score + s.rest <= theta =>
              ConsultOne(c, s) = [s EXCEPT !.stopped = TRUE]
         /\ ~(s.stopped \/ s.score + s.rest <= theta) =>
              ConsultOne(c, s) =
                [score |-> s.score + Found[c], rest |-> s.rest - Bounds(lists)[c],
                 at |-> IF Ask(c) = {} THEN s.at ELSE [s.at EXCEPT ![c] = Min(Ask(c))],
                 gone |-> IF Ask(c) = {} THEN s.gone \cup {c} ELSE s.gone,
                 stopped |-> FALSE]
<1> DEFINE t == ConsultOne(c, s)
<1>1. /\ s = [score |-> s.score, rest |-> s.rest, at |-> s.at, gone |-> s.gone,
               stopped |-> s.stopped]
      /\ s.score \in Nat /\ s.rest \in Int /\ s.at \in [Cursors -> Nat]
      /\ s.gone \in SUBSET Cursors /\ s.stopped \in BOOLEAN
  BY DEF Consultation
<1>2. CASE s.stopped \/ s.score + s.rest <= theta
  <2>1. t = [s EXCEPT !.stopped = TRUE]
    BY <1>2 DEF ConsultOne
  <2>. QED
    BY <1>1, <1>2, <2>1 DEF Consultation
<1>3. CASE ~(s.stopped \/ s.score + s.rest <= theta)
  <2> DEFINE added == IF Candidate \in Ask(c) THEN lists[c][Candidate] ELSE 0
             bound == MaxValue(lists[c])
  <2>1. /\ Found[c] \in Nat /\ Bounds(lists)[c] \in Nat /\ Bounds(lists)[c] = bound
        /\ Found[c] = added /\ (Ask(c) # {} => Min(Ask(c)) \in Nat)
    BY AskFacts, BoundsFacts DEF Found
  <2>2. t = IF Ask(c) = {}
            THEN [s EXCEPT !.rest = @ - bound, !.gone = @ \cup {c}]
            ELSE [s EXCEPT !.rest = @ - bound, !.score = @ + added, !.at[c] = Min(Ask(c))]
    BY <1>3 DEF ConsultOne, Ask
  <2> HIDE DEF t, added, bound
  <2>3. ~s.stopped /\ s.rest - bound \in Int /\ s.score + added \in Nat
    BY <1>1, <1>3, <2>1
  <2>4. CASE Ask(c) = {}
    <3>1. t = [score |-> s.score, rest |-> s.rest - bound, at |-> s.at, gone |-> s.gone \cup {c},
               stopped |-> s.stopped]
      BY <1>1, <2>2, <2>4
    <3>2. Found[c] = 0 /\ s.score + 0 = s.score
      BY <1>1, <2>1, <2>4 DEF added
    <3>3. t = [score |-> s.score + Found[c], rest |-> s.rest - Bounds(lists)[c],
               at |-> s.at, gone |-> s.gone \cup {c}, stopped |-> FALSE]
      BY <1>1, <2>1, <2>3, <3>1, <3>2
    <3>4. t \in Consultation
      BY <1>1, <2>3, <3>1 DEF Consultation
    <3>. QED
      BY <1>3, <2>4, <3>3, <3>4 DEF t
  <2>5. CASE Ask(c) # {}
    <3>1. t = [score |-> s.score + added, rest |-> s.rest - bound,
               at |-> [s.at EXCEPT ![c] = Min(Ask(c))], gone |-> s.gone, stopped |-> s.stopped]
      BY <1>1, <2>2, <2>5
    <3>2. [s.at EXCEPT ![c] = Min(Ask(c))] \in [Cursors -> Nat]
      BY <1>1, <2>1, <2>5
    <3>3. t = [score |-> s.score + Found[c], rest |-> s.rest - Bounds(lists)[c],
               at |-> [s.at EXCEPT ![c] = Min(Ask(c))], gone |-> s.gone, stopped |-> FALSE]
      BY <1>1, <2>1, <2>3, <3>1
    <3>4. t \in Consultation
      BY <1>1, <2>3, <3>1, <3>2 DEF Consultation
    <3>. QED
      BY <1>3, <2>5, <3>3, <3>4 DEF t
  <2>. QED
    BY <2>4, <2>5
<1>. QED
  BY <1>2, <1>3

\* Asking another cursor.
LEMMA OneMoreAsked ==
  ASSUME InputOK, CursorsOK, active # <<>>, theta \in Nat, sumPass \in Nat,
         NEW STATE P, P \subseteq Cursors, NEW STATE c, c \in Cursors \ P,
         NEW STATE first, first \in Nat, NEW STATE moved, NEW STATE s, Consults(P, s, first, moved)
  PROVE  Consults(P \cup {c}, ConsultOne(c, s), first, moved)
<1> DEFINE t == ConsultOne(c, s)
           L == P \cup {c}
<1>1. s \in Consultation /\ t \in Consultation
  BY ConsultOneFacts DEF Consults
<1>2. PICK K \in SUBSET P :
        HasAsked(K, s, first, moved) /\ IF s.stopped THEN s.score + s.rest <= theta ELSE K = P
  BY DEF Consults
<1>3. CASE s.stopped \/ s.score + s.rest <= theta
  <2>1. t = [s EXCEPT !.stopped = TRUE]
    BY <1>1, <1>3, ConsultOneFacts
  <2>2. /\ t.stopped /\ t.score = s.score /\ t.rest = s.rest /\ t.gone = s.gone /\ t.at = s.at
    BY <1>1, <2>1 DEF Consultation
  <2> HIDE DEF t
  <2>3. HasAsked(K, t, first, moved)
    BY <1>2, <2>2 DEF HasAsked
  <2>4. t.score + t.rest <= theta
    BY <1>2, <1>3, <2>2
  <2>. QED
    BY <1>1, <2>2, <2>3, <2>4 DEF Consults, t
<1>4. CASE ~(s.stopped \/ s.score + s.rest <= theta)
  <2>1. K = P /\ c \notin K /\ ~s.stopped
    BY <1>2, <1>4
  <2>2. IsFiniteSet(P)
    BY BoundsFacts, FS_Subset
  <2>3. \A x \in L : Found[x] \in Nat /\ Bounds(lists)[x] \in Nat
    BY AskFacts
  <2>4. /\ SumOver(Found, L) = Found[c] + SumOver(Found, P)
        /\ SumOver(Bounds(lists), L) = Bounds(lists)[c] + SumOver(Bounds(lists), P)
    BY <2>2, <2>3, SumAdd
  <2>5. SumOver(Found, P) \in Nat /\ SumOver(Bounds(lists), P) \in Nat
    BY <2>2, <2>3, SumType
  <2>6. t = [score |-> s.score + Found[c], rest |-> s.rest - Bounds(lists)[c],
             at |-> IF Ask(c) = {} THEN s.at ELSE [s.at EXCEPT ![c] = Min(Ask(c))],
             gone |-> IF Ask(c) = {} THEN s.gone \cup {c} ELSE s.gone,
             stopped |-> FALSE]
    BY <1>1, <1>4, ConsultOneFacts
  <2> HIDE DEF t
  <2>7. /\ ~t.stopped /\ t.score = s.score + Found[c] /\ t.rest = s.rest - Bounds(lists)[c]
        /\ t.at = IF Ask(c) = {} THEN s.at ELSE [s.at EXCEPT ![c] = Min(Ask(c))]
        /\ t.gone = IF Ask(c) = {} THEN s.gone \cup {c} ELSE s.gone
    BY <2>6
  <2>8. t.score = first + SumOver(Found, L) /\ t.rest = sumPass - SumOver(Bounds(lists), L)
    <3>1. s.score = first + SumOver(Found, P) /\ s.rest = sumPass - SumOver(Bounds(lists), P)
      BY <1>2, <2>1 DEF HasAsked
    <3>2. Found[c] \in Nat /\ Bounds(lists)[c] \in Nat
      BY <2>3
    <3>. QED
      BY <2>4, <2>5, <2>7, <3>1, <3>2
  <2>9. t.gone = {x \in L : Ask(x) = {}}
    <3>1. s.gone = {x \in P : Ask(x) = {}}
      BY <1>2, <2>1 DEF HasAsked
    <3>. QED
      BY <2>7, <3>1
  <2>10. t.at = [x \in Cursors |-> IF x \in L /\ Ask(x) # {} THEN Min(Ask(x)) ELSE moved[x]]
    <3>1. s.at = [x \in Cursors |-> IF x \in P /\ Ask(x) # {} THEN Min(Ask(x)) ELSE moved[x]]
      BY <1>2, <2>1 DEF HasAsked
    <3>2. CASE Ask(c) = {}
      BY <2>7, <3>1, <3>2
    <3>3. CASE Ask(c) # {}
      BY <2>7, <3>1, <3>3
    <3>. QED
      BY <3>2, <3>3
  <2>11. HasAsked(L, t, first, moved)
    BY <2>8, <2>9, <2>10 DEF HasAsked
  <2>. QED
    BY <1>1, <2>7, <2>11 DEF Consults, t
<1>. QED
  BY <1>3, <1>4

\* What the fold over the passive cursors picks and does.
FirstAsked == [s \in SUBSET DOMAIN passive |-> Min(s)]
Asking == [p \in (DOMAIN passive) \X Consultation |-> ConsultOne(passive[p[1]], p[2])]

\* The recursion of that fold.
IsConsulting(it, base) ==
  it = [s \in SUBSET DOMAIN passive |->
          IF s = {} THEN base
          ELSE LET i == Min(s) IN ConsultOne(passive[i], it[s \ {i}])]

\* Scoring asks some of the passive cursors, and leaves the others only when they
\* cannot bring the candidate above theta.
LEMMA ConsultedFacts ==
  ASSUME InputOK, CursorsOK, active # <<>>, theta \in Nat, sumPass \in Nat,
         NEW STATE first, first \in Nat, NEW STATE moved, moved \in [Cursors -> Nat]
  PROVE  Consults(ToSet(passive), Consulted(first, moved), first, moved)
<1> DEFINE D == DOMAIN passive
           P(s) == {passive[i] : i \in s}
           base == [score |-> first, rest |-> sumPass, at |-> moved, gone |-> {}, stopped |-> FALSE]
           pick == FirstAsked
           step == Asking
<1>1. /\ IsFiniteSet(D) /\ D \subseteq Nat /\ \A i \in D : passive[i] \in Cursors
      /\ \A i, j \in D : passive[i] = passive[j] => i = j
  <2>1. AreDistinct(passive, Cursors)
    BY DEF CursorsOK
  <2>2. D = 1 .. Len(passive) /\ Len(passive) \in Nat
    BY <2>1 DEF AreDistinct
  <2>3. IsFiniteSet(D) /\ D \subseteq Nat
    BY <2>2, FS_Interval
  <2>4. /\ \A i \in D : passive[i] \in Cursors
        /\ \A i, j \in D : passive[i] = passive[j] => i = j
    BY <2>1 DEF AreDistinct
  <2>. QED
    BY <2>3, <2>4
<1>2. \A s \in SUBSET D : s # {} => pick[s] = Min(s) /\ pick[s] \in s
  <2> SUFFICES ASSUME NEW s \in SUBSET D, s # {} PROVE Min(s) \in s /\ pick[s] = Min(s)
    OBVIOUS
  <2>1. IsFiniteSet(s) /\ s \subseteq Int
    BY <1>1, FS_Subset
  <2>. QED
    BY <2>1, SmallestMember DEF FirstAsked
<1>3. base \in Consultation
  BY DEF Consultation
<1>4. \A i \in D, v \in Consultation :
        step[<<i, v>>] = ConsultOne(passive[i], v) /\ step[<<i, v>>] \in Consultation
  <2> SUFFICES ASSUME NEW i \in D, NEW v \in Consultation
               PROVE  step[<<i, v>>] = ConsultOne(passive[i], v) /\ step[<<i, v>>] \in Consultation
    OBVIOUS
  <2>1. ConsultOne(passive[i], v) \in Consultation
    BY <1>1, ConsultOneFacts
  <2> DEFINE p == <<i, v>>
  <2>2. p \in D \X Consultation /\ p[1] = i /\ p[2] = v
    OBVIOUS
  <2> HIDE DEF p
  <2>3. step[p] = ConsultOne(passive[p[1]], p[2])
    BY <2>2 DEF Asking
  <2>. QED
    BY <2>1, <2>2, <2>3 DEF p
<1> HIDE DEF D, base, pick, step
<1>5. PICK g \in [SUBSET D -> Consultation] : Solves(g, D, base, pick, step)
  BY <1>1, <1>2, <1>3, <1>4, SubsetRecursion
<1>6. IsConsulting(g, base)
  <2>1. \A s \in SUBSET D : g[s] = IF s = {} THEN base
                       ELSE LET i == Min(s) IN ConsultOne(passive[i], g[s \ {i}])
    <3> SUFFICES ASSUME NEW s \in SUBSET D, s # {}
                 PROVE  g[s] = ConsultOne(passive[Min(s)], g[s \ {Min(s)}])
      BY <1>5 DEF Solves
    <3>1. Min(s) \in D /\ g[s \ {Min(s)}] \in Consultation /\ pick[s] = Min(s)
      BY <1>2
    <3>. QED
      BY <1>4, <1>5, <3>1 DEF Solves
  <2>2. g = [s \in SUBSET D |-> g[s]]
    OBVIOUS
  <2>. QED
    BY <2>1, <2>2 DEF IsConsulting, D
<1> DEFINE it == CHOOSE it : IsConsulting(it, base)
<1>7. IsConsulting(it, base)
  BY <1>6
<1>8. Consulted(first, moved) = it[D]
  BY DEF Consulted, FoldRight, MapThenFoldSet, IsConsulting, base, D
<1> HIDE DEF it
<1>9. /\ it[{}] = base
      /\ \A s \in SUBSET D : s # {} => it[s] = ConsultOne(passive[Min(s)], it[s \ {Min(s)}])
  BY <1>7 DEF IsConsulting, D
<1> DEFINE F == {s \in SUBSET D : ~Consults(P(s), it[s], first, moved)}
<1>10. F = {}
  <2> SUFFICES ASSUME F # {} PROVE FALSE
    OBVIOUS
  <2>1. PICK U \in F : \A W \in F : W \subseteq U => W = U
    <3>1. F \subseteq SUBSET D
      OBVIOUS
    <3>2. IsFiniteSet(D)
      BY <1>1
    <3> HIDE DEF F
    <3>. QED
      BY <3>1, <3>2, SmallestSubset
  <2>2. CASE U = {}
    <3>1. P(U) = {} /\ it[U] = base
      BY <1>9, <2>2
    <3>2. SumOver(Found, {}) = 0 /\ SumOver(Bounds(lists), {}) = 0
      BY SumEmpty
    <3>3. HasAsked({}, base, first, moved)
      BY <3>2 DEF HasAsked, base
    <3>4. ~base.stopped
      BY DEF base
    <3>5. Consults({}, base, first, moved)
      BY <1>3, <3>3, <3>4 DEF Consults
    <3>. QED
      BY <2>1, <3>1, <3>5
  <2>3. CASE U # {}
    <3> DEFINE i == Min(U)
               R == U \ {i}
    <3>1. i \in U /\ i \in D
      BY <1>2, <2>1, <2>3
    <3>2. R \notin F /\ R \in SUBSET D
      BY <2>1, <3>1
    <3>3. Consults(P(R), it[R], first, moved)
      BY <3>2
    <3>4. P(R) \subseteq Cursors /\ passive[i] \in Cursors \ P(R)
      BY <1>1, <3>1, <2>1
    <3>5. P(U) = P(R) \cup {passive[i]}
      BY <3>1
    <3>6. it[U] = ConsultOne(passive[i], it[R])
      BY <1>9, <2>1, <2>3
    <3>7. Consults(P(R) \cup {passive[i]}, ConsultOne(passive[i], it[R]), first, moved)
      <4> HIDE DEF P, i, R
      <4>. QED
        BY <3>3, <3>4, OneMoreAsked
    <3>. QED
      BY <2>1, <3>5, <3>6, <3>7
  <2>. QED
    BY <2>2, <2>3
<1>11. P(D) = ToSet(passive)
  BY DEF ToSet, D
<1>12. Consults(P(D), it[D], first, moved)
  BY <1>10
<1>. QED
  BY <1>8, <1>11, <1>12

\* What the candidate scores is at most its score, and its score if it can still
\* enter the heap and beats theta.
LEMMA ScoredFacts ==
  ASSUME IInv, active # <<>>, NEW STATE s,
         NEW K \in SUBSET ToSet(passive),
         s.score = SumOver(ValuesAt(lists, Candidate), AtCandidate) + SumOver(Found, K),
         K = ToSet(passive)
           \/ s.score + (sumPass - SumOver(Bounds(lists), K)) <= theta
  PROVE  /\ s.score \in Nat /\ s.score <= Score(lists, Candidate)
         /\ Open(Candidate) => s.score = Score(lists, Candidate)
<1> DEFINE H == Holders(lists, Candidate)
           V == ValuesAt(lists, Candidate)
           A == AtCandidate
           P == ToSet(passive)
           first == SumOver(V, A)
<1>1. /\ Candidate \in Nat /\ A \subseteq ToSet(active) /\ A \subseteq H
      /\ \A c \in ToSet(active) \ A : at[c] > Candidate
  BY CandidateFacts DEF IInv
<1>2. /\ IsFiniteSet(P) /\ P \subseteq Cursors /\ ToSet(active) \cap P = {}
      /\ ToSet(active) \subseteq Cursors
  BY FiniteMembers DEF IInv, CursorsOK, AreDistinct
<1>3. IsFiniteSet(H) /\ \A c \in H : V[c] = lists[c][Candidate] /\ V[c] \in Nat
  BY ScoreType DEF IInv, InputOK
<1>4. \A c \in P : /\ Found[c] \in Nat /\ Bounds(lists)[c] \in Nat
                   /\ Found[c] # 0 => c \in H /\ Found[c] = V[c]
                   /\ at[c] <= Candidate /\ c \in H => Found[c] = V[c]
  <2> SUFFICES ASSUME NEW c \in P
               PROVE  /\ Found[c] \in Nat /\ Bounds(lists)[c] \in Nat
                      /\ Found[c] # 0 => c \in H /\ Found[c] = V[c]
                      /\ at[c] <= Candidate /\ c \in H => Found[c] = V[c]
    OBVIOUS
  <2>1. c \in Cursors
    BY <1>2
  <2>2. c \in H => Candidate \in DOMAIN lists[c]
    BY DEF Holders
  <2> HIDE DEF P, H, V
  <2>. QED
    BY <1>3, <2>1, <2>2, AskFacts DEF IInv, H
<1>5. /\ IsFiniteSet(K) /\ IsFiniteSet(A) /\ IsFiniteSet(K \cap H) /\ IsFiniteSet(P \cap H)
      /\ IsFiniteSet(P \ K) /\ IsFiniteSet((P \ K) \cap H)
  BY <1>1, <1>2, <1>3, FS_Subset
<1> DEFINE L == {c \in K : Found[c] # 0}
<1>6. /\ L \subseteq K \cap H /\ A \cap L = {} /\ IsFiniteSet(L)
      /\ SumOver(Found, K) = SumOver(Found, L) /\ SumOver(Found, L) = SumOver(V, L)
  <2>1. L \subseteq K \cap H /\ A \cap L = {}
    BY <1>1, <1>2, <1>4
  <2>2. IsFiniteSet(L)
    BY <1>5, FS_Subset
  <2>3. SumOver(Found, K) = SumOver(Found, L)
    <3>1. \A c \in L : Found[c] \in Nat
      BY <1>4
    <3>2. \A c \in K \ L : Found[c] = 0
      OBVIOUS
    <3>3. L \in SUBSET K
      OBVIOUS
    <3> HIDE DEF L
    <3>. QED
      BY <1>5, <3>1, <3>2, <3>3, SumSupport
  <2>4. SumOver(Found, L) = SumOver(V, L)
    <3>1. \A c \in L : Found[c] \in Nat /\ Found[c] = V[c]
      BY <1>4
    <3> HIDE DEF L, V
    <3>. QED
      BY <2>2, <3>1, SumSame
  <2>. QED
    BY <2>1, <2>2, <2>3, <2>4
<1> HIDE DEF L
<1>7. s.score = SumOver(V, A \cup L) /\ s.score \in Nat /\ s.score <= Score(lists, Candidate)
  <2>1. A \cup L \in SUBSET H /\ \A c \in A \cup L : V[c] \in Nat
    BY <1>1, <1>3, <1>6
  <2>2. SumOver(V, A \cup L) = SumOver(V, A) + SumOver(V, L)
    BY <1>5, <1>6, <2>1, SumUnion
  <2>3. SumOver(V, A \cup L) <= SumOver(V, H)
    BY <1>3, <2>1, SumPart
  <2>4. IsFiniteSet(A \cup L)
    BY <1>3, <2>1, FS_Subset
  <2>5. SumOver(V, A \cup L) \in Nat
    BY <2>1, <2>4, SumType
  <2>. QED
    BY <1>6, <2>2, <2>3, <2>5 DEF Score
<1>8. ASSUME Open(Candidate)
      PROVE  s.score = Score(lists, Candidate)
  <2>1. \A c \in H : c \in ToSet(active) \cup P /\ at[c] <= Candidate
    BY <1>8 DEF IInv, Ahead, Open
  <2>2. \A c \in H \cap ToSet(active) : c \in A
    <3>1. \A c \in ToSet(active) : at[c] \in Nat
      BY <1>2 DEF IInv, CursorsOK
    <3>. QED
      BY <1>1, <2>1, <3>1
  <2>3. H = A \cup (P \cap H) /\ A \cap (P \cap H) = {}
    BY <1>1, <1>2, <2>1, <2>2
  <2>4. \A c \in P \cap H : Found[c] = V[c]
    BY <1>4, <2>1
  <2>5. CASE K = P
    <3>1. SumOver(V, P \cap H) = SumOver(V, L)
      <4>1. \A c \in (P \cap H) \ L : V[c] = 0
        BY <2>4, <2>5 DEF L
      <4>2. L \in SUBSET (P \cap H) /\ \A c \in L : V[c] \in Nat
        BY <1>3, <1>6, <2>5
      <4> HIDE DEF V
      <4>. QED
        BY <1>5, <4>1, <4>2, SumSupport
    <3>2. SumOver(V, A \cup (P \cap H)) = SumOver(V, A) + SumOver(V, P \cap H)
      BY <1>3, <1>5, <2>3, SumUnion
    <3>3. SumOver(V, A \cup L) = SumOver(V, A) + SumOver(V, L)
      BY <1>1, <1>3, <1>5, <1>6, SumUnion
    <3>4. Score(lists, Candidate) = SumOver(V, A \cup (P \cap H))
      BY <2>3 DEF Score
    <3>. QED
      BY <1>7, <3>1, <3>2, <3>3, <3>4
  <2>6. CASE K # P
    <3> DEFINE R == P \ K
    <3>1. s.score + (sumPass - SumOver(Bounds(lists), K)) <= theta
      BY <2>6
    <3>2. sumPass = SumOver(Bounds(lists), K) + SumOver(Bounds(lists), R)
      <4>1. P = K \cup R /\ K \cap R = {}
        OBVIOUS
      <4>2. SumOver(Bounds(lists), K \cup R) = SumOver(Bounds(lists), K) + SumOver(Bounds(lists), R)
        BY <1>4, <1>5, <4>1, SumUnion
      <4>3. sumPass = SumOver(Bounds(lists), P)
        BY DEF IInv, PassiveStaysBelow
      <4>. QED
        BY <4>1, <4>2, <4>3
    <3>3. SumOver(V, R \cap H) <= SumOver(Bounds(lists), R)
      <4>1. R \in SUBSET Cursors
        BY <1>2
      <4> HIDE DEF R
      <4>. QED
        BY <4>1, PartBelowBounds DEF IInv
    <3>4. SumOver(V, P \cap H) = SumOver(V, L) + SumOver(V, R \cap H)
      <4>1. SumOver(V, K \cap H) = SumOver(V, L)
        <5>1. \A c \in (K \cap H) \ L : V[c] = 0
          BY <2>4 DEF L
        <5>2. L \in SUBSET (K \cap H) /\ \A c \in L : V[c] \in Nat
          BY <1>3, <1>6
        <5> HIDE DEF V
        <5>. QED
          BY <1>5, <5>1, <5>2, SumSupport
      <4>2. (K \cap H) \cup (R \cap H) = P \cap H /\ (K \cap H) \cap (R \cap H) = {}
        OBVIOUS
      <4>3. SumOver(V, (K \cap H) \cup (R \cap H)) = SumOver(V, K \cap H) + SumOver(V, R \cap H)
        BY <1>3, <1>5, <4>2, SumUnion
      <4>. QED
        BY <4>1, <4>2, <4>3
    <3>5. SumOver(V, A \cup (P \cap H)) = SumOver(V, A) + SumOver(V, P \cap H)
      BY <1>3, <1>5, <2>3, SumUnion
    <3>6. SumOver(V, A \cup L) = SumOver(V, A) + SumOver(V, L)
      BY <1>1, <1>3, <1>5, <1>6, SumUnion
    <3>7. Score(lists, Candidate) = SumOver(V, A \cup (P \cap H))
      BY <2>3 DEF Score
    <3>8. /\ SumOver(V, A) \in Nat /\ SumOver(V, L) \in Nat /\ SumOver(V, R \cap H) \in Nat
          /\ SumOver(Bounds(lists), K) \in Nat /\ SumOver(Bounds(lists), R) \in Nat
      BY <1>1, <1>3, <1>4, <1>5, <1>6, SumType
    <3>9. Score(lists, Candidate) > theta /\ theta \in Nat
      BY <1>8, ThetaFacts DEF IInv, Open
    <3>10. Score(lists, Candidate) = s.score + SumOver(V, R \cap H)
      BY <1>7, <3>4, <3>5, <3>6, <3>7, <3>8
    <3> HIDE DEF R, V
    <3>. QED
      BY <1>7, <3>1, <3>2, <3>3, <3>8, <3>9, <3>10
  <2>. QED
    BY <2>5, <2>6
<1>. QED
  BY <1>7, <1>8

\* The scoring of a candidate.
LEMMA ScoreKeeps ==
  ASSUME IInv, ScoreCandidate
  PROVE  IInv' /\ StepsOn
<1> DEFINE first == SumOver(ValuesAt(lists, Candidate), AtCandidate)
           moved == Moved(0)
           s == Consulted(first, moved)
           h == Hit(Candidate, s.score)
           pass == Without(passive, s.gone)
           sum == sumPass - SumOver(Bounds(lists), s.gone)
           P == ToSet(passive)
<1>1. /\ active # <<>> /\ Accept(filter, Candidate) /\ at' = s.at
      /\ heap' \in Added(heap, topK, h) /\ theta' = Threshold(heap', topK, minScore)
      /\ Expand(Retained(0), pass, sum)
  BY DEF ScoreCandidate
<1>2. /\ lists' = lists /\ filter' = filter /\ accepted' = accepted /\ topK' = topK
      /\ minScore' = minScore /\ answered' = answered /\ answer' = answer
  BY DEF ScoreCandidate, input
<1>3. Cursors' = Cursors /\ Candidates' = Candidates
  BY <1>2 DEF Cursors, Candidates
<1>4. InputOK'
  BY <1>2 DEF IInv, InputOK
<1>5. /\ Candidate \in Nat /\ Candidate \in Matching(lists) /\ IsFiniteSet(AtCandidate)
      /\ AtCandidate # {} /\ AtCandidate \subseteq ToSet(active)
      /\ AtCandidate \subseteq Holders(lists, Candidate)
      /\ \A c \in AtCandidate : at[c] = Candidate
      /\ \A c \in ToSet(active) : at[c] >= Candidate
      /\ \A c \in ToSet(active) \ AtCandidate : at[c] > Candidate
  BY <1>1, CandidateFacts DEF IInv
<1>6. Candidate \in Candidates
  BY <1>1, <1>5 DEF IInv, InputOK, IsFilter, Accept, Candidates, Eligible
<1>7. /\ IsFiniteSet(P) /\ P \subseteq Cursors /\ ToSet(active) \subseteq Cursors
      /\ ToSet(active) \cap P = {} /\ AreDistinct(passive, Cursors)
  BY FiniteMembers DEF IInv, CursorsOK, AreDistinct
<1>8. theta \in Nat /\ minScore <= theta
  BY ThetaFacts DEF IInv
<1>9. /\ sumPass \in Nat /\ sumPass = SumOver(Bounds(lists), P)
      /\ \A c \in P : Bounds(lists)[c] \in Nat
  <2>1. \A c \in P : Bounds(lists)[c] \in Nat
    BY <1>7, BoundsFacts DEF IInv
  <2>2. SumOver(Bounds(lists), P) \in Nat
    BY <1>7, <2>1, SumType
  <2>. QED
    BY <2>1, <2>2 DEF IInv, PassiveStaysBelow
<1>10. /\ moved \in [Cursors -> Nat]
       /\ \A c \in Cursors : moved[c] \in DOMAIN lists[c] /\ moved[c] >= at[c]
       /\ \A c \in Cursors \ AtCandidate : moved[c] = at[c]
       /\ \A c \in AtCandidate : \A e \in DOMAIN lists[c] :
            e > Candidate /\ e >= 0 => c \notin Exhausted(0) /\ moved[c] <= e
       /\ AreDistinct(Retained(0), Cursors)
       /\ ToSet(Retained(0)) = ToSet(active) \ Exhausted(0)
       /\ \A c \in ToSet(Retained(0)) : moved[c] > Candidate
  <2>1. 0 \in Nat
    OBVIOUS
  <2>. QED
    BY <1>1, <2>1, MovedFacts DEF IInv
<1>11. first \in Nat
  <2>1. \A c \in AtCandidate : ValuesAt(lists, Candidate)[c] \in Nat
    BY <1>5, ScoreType DEF IInv, InputOK
  <2>. QED
    BY <1>5, <2>1, SumType
<1> HIDE DEF first, moved
<1>12. Consults(P, s, first, moved)
  BY <1>1, <1>8, <1>9, <1>10, <1>11, ConsultedFacts DEF IInv
<1> HIDE DEF s
<1>13. PICK K \in SUBSET P :
         HasAsked(K, s, first, moved) /\ IF s.stopped THEN s.score + s.rest <= theta ELSE K = P
  BY <1>12 DEF Consults
<1>14. /\ s.score = first + SumOver(Found, K) /\ s.rest = sumPass - SumOver(Bounds(lists), K)
       /\ s.gone = {c \in K : Ask(c) = {}}
       /\ \A c \in Cursors : s.at[c] = IF c \in K /\ Ask(c) # {} THEN Min(Ask(c)) ELSE moved[c]
       /\ s.at \in [Cursors -> Nat]
  BY <1>12, <1>13 DEF HasAsked, Consults, Consultation
<1>15. /\ s.score \in Nat /\ s.score <= Score(lists, Candidate)
       /\ Open(Candidate) => s.score = Score(lists, Candidate)
  <2>1. K = P \/ s.score + (sumPass - SumOver(Bounds(lists), K)) <= theta
    BY <1>13, <1>14
  <2>. QED
    BY <1>1, <1>14, <2>1, ScoredFacts DEF first
<1>16. \A c \in Cursors :
         /\ Ask(c) # {} => Min(Ask(c)) \in DOMAIN lists[c] /\ Min(Ask(c)) >= at[c]
         /\ \A e \in DOMAIN lists[c] :
              e >= at[c] /\ e >= Candidate => Ask(c) # {} /\ Min(Ask(c)) <= e
  BY <1>1, AskFacts DEF IInv
<1>17. /\ \A c \in Cursors : at'[c] \in DOMAIN lists[c] /\ at'[c] \in Nat
       /\ \A c \in ToSet(active) : at'[c] = moved[c]
       /\ \A c \in P : at'[c] = IF c \in K /\ Ask(c) # {} THEN Min(Ask(c)) ELSE at[c]
  BY <1>1, <1>5, <1>7, <1>10, <1>13, <1>14, <1>16
<1>18. AreDistinct(pass, Cursors) /\ ToSet(pass) = P \ s.gone /\ s.gone \subseteq P
  BY <1>7, <1>14, WithoutFacts
<1>19. /\ IsHeap(heap', Candidates, topK) /\ heap' \subseteq heap \cup {h} /\ theta <= theta'
       /\ \A x \in (heap \cup {h}) \ heap' : x.score <= theta'
       /\ theta' \in Nat
  <2>1. h.docid \notin Docids(heap)
    <3>1. \A g \in heap : \A c \in AtCandidate : g.docid < Candidate
      BY <1>5 DEF IInv, HeapOK
    <3>. QED
      BY <1>5, <3>1 DEF Docids, Hit
  <2>2. h \in [docid : Candidates, score : Nat]
    BY <1>6, <1>15 DEF Hit
  <2>3. /\ IsHeap(heap, Candidates, topK) /\ theta = Threshold(heap, topK, minScore)
        /\ topK \in Nat \ {0} /\ minScore \in Nat
    BY DEF IInv, HeapOK, InputOK
  <2> HIDE DEF h
  <2>4. /\ IsHeap(heap', Candidates, topK) /\ heap' \subseteq heap \cup {h}
        /\ Threshold(heap, topK, minScore) <= Threshold(heap', topK, minScore)
        /\ \A x \in (heap \cup {h}) \ heap' : x.score <= Threshold(heap', topK, minScore)
    BY <1>1, <2>1, <2>2, <2>3, AddedFacts
  <2>5. theta' \in Nat
    BY <1>1, <2>3, <2>4, ThresholdFacts
  <2>. QED
    BY <1>1, <2>3, <2>4, <2>5
<1>20. /\ AreDistinct(active', Cursors) /\ AreDistinct(passive', Cursors)
       /\ ToSet(active') \cap ToSet(passive') = {} /\ ToSet(active') \subseteq ToSet(Retained(0))
       /\ ToSet(active') \cup ToSet(passive') = ToSet(Retained(0)) \cup ToSet(pass)
       /\ PassiveStaysBelow'
  <2>1. /\ IsFiniteSet(s.gone) /\ IsFiniteSet(P \ s.gone)
        /\ P = s.gone \cup (P \ s.gone) /\ s.gone \cap (P \ s.gone) = {}
    BY <1>7, <1>18, FS_Subset
  <2>2. SumOver(Bounds(lists), s.gone \cup (P \ s.gone))
          = SumOver(Bounds(lists), s.gone) + SumOver(Bounds(lists), P \ s.gone)
    BY <1>9, <2>1, SumUnion
  <2>3. SumOver(Bounds(lists), s.gone) \in Nat /\ SumOver(Bounds(lists), P \ s.gone) \in Nat
    BY <1>9, <2>1, SumType
  <2>4. sumPass = SumOver(Bounds(lists), s.gone) + SumOver(Bounds(lists), P \ s.gone)
    BY <1>9, <2>1, <2>2
  <2>5. sum = SumOver(Bounds(lists), ToSet(pass)) /\ sum <= sumPass
    BY <1>18, <2>3, <2>4
  <2>6. pass # <<>> => sum < theta'
    <3> SUFFICES ASSUME pass # <<>> PROVE sum < theta'
      OBVIOUS
    <3>1. ToSet(pass) # {}
      <4>1. 1 \in DOMAIN pass
        BY <1>18 DEF AreDistinct
      <4>. QED
        BY <4>1 DEF ToSet
    <3>2. passive # <<>>
      BY <1>18, <3>1 DEF ToSet
    <3>3. sumPass < theta
      BY <3>2 DEF IInv, PassiveStaysBelow
    <3>4. sum \in Int
      BY <1>9, <2>3
    <3> HIDE DEF sum
    <3>. QED
      BY <1>8, <1>9, <1>19, <2>5, <3>3, <3>4
  <2>7. ToSet(Retained(0)) \cap ToSet(pass) = {}
    BY <1>7, <1>10, <1>18
  <2> HIDE DEF sum, pass
  <2>. QED
    BY <1>1, <1>2, <1>10, <1>18, <1>19, <2>5, <2>6, <2>7, ExpandFacts DEF IInv
<1>21. \A c \in ToSet(active') : at'[c] > Candidate /\ c \in ToSet(active)
  BY <1>10, <1>17, <1>20
<1>22. CursorsOK'
  BY <1>1, <1>2, <1>3, <1>14, <1>17, <1>20 DEF CursorsOK
<1>23. HeapOK'
  <2>1. ASSUME NEW g \in heap'
        PROVE  /\ g.score <= Score(lists, g.docid)
               /\ Score(lists, g.docid) > minScore => g.score = Score(lists, g.docid)
               /\ \A c \in ToSet(active') : g.docid < at'[c]
    <3>1. CASE g \in heap
      <4>1. /\ g.score <= Score(lists, g.docid)
            /\ Score(lists, g.docid) > minScore => g.score = Score(lists, g.docid)
            /\ \A c \in ToSet(active) : g.docid < at[c]
        BY <3>1 DEF IInv, HeapOK
      <4>2. g.docid \in Nat
        BY <3>1 DEF IInv, HeapOK, IsHeap, InputOK, AreLists, IsList, Candidates, Eligible, Matching
      <4>3. \A c \in Cursors : at[c] \in Nat /\ moved[c] \in Nat
        BY <1>10 DEF IInv, CursorsOK
      <4>4. \A c \in ToSet(active') : g.docid < at'[c]
        BY <1>7, <1>10, <1>17, <1>21, <4>1, <4>2, <4>3
      <4>. QED
        BY <4>1, <4>4
    <3>2. CASE g \notin heap
      <4>1. g = h /\ h \in heap' /\ h \notin heap /\ g.docid = Candidate /\ g.score = s.score
        BY <1>19, <3>2 DEF Hit
      <4>2. Candidate \notin Docids(heap)
        <5>1. \A x \in heap : \A c \in AtCandidate : x.docid < Candidate
          BY <1>5 DEF IInv, HeapOK
        <5>. QED
          BY <1>5, <5>1 DEF Docids
      <4>3. ASSUME Score(lists, Candidate) > minScore
            PROVE  s.score = Score(lists, Candidate)
        <5>1. CASE Score(lists, Candidate) > theta
          BY <1>6, <1>15, <4>2, <5>1 DEF Open
        <5>2. CASE ~(Score(lists, Candidate) > theta)
          <6>1. theta > minScore /\ Score(lists, Candidate) \in Nat /\ minScore \in Nat
            <7>1. Score(lists, Candidate) \in Nat /\ minScore \in Nat
              BY ScoreType DEF IInv, InputOK
            <7>. QED
              BY <1>8, <4>3, <5>2, <7>1
          <6>2. /\ Cardinality(heap) = topK
                /\ \E l \in heap : l.score = Lowest(heap) /\ l.score >= theta
            <7>1. /\ theta = Threshold(heap, topK, minScore) /\ IsHeap(heap, Candidates, topK)
                  /\ topK \in Nat \ {0} /\ minScore \in Nat
              BY DEF IInv, HeapOK, InputOK
            <7>2. Cardinality(heap) = topK /\ \A x \in heap : x.score >= theta
              BY <6>1, <7>1, ThresholdFacts
            <7>3. \E l \in heap : l.score = Lowest(heap)
              BY <7>1, <7>2, ThresholdFacts
            <7>. QED
              BY <7>2, <7>3
          <6>3. Lowest(heap) >= theta /\ Lowest(heap) \in Nat
            BY <6>2 DEF IInv, HeapOK, IsHeap
          <6>4. ~(Lowest(heap) < h.score)
            BY <1>8, <1>15, <5>2, <6>1, <6>3 DEF Hit
          <6>5. ~(Cardinality(heap) < topK)
            BY <6>2 DEF IInv, InputOK
          <6>6. heap' = heap
            BY <1>1, <6>4, <6>5 DEF Added
          <6>. QED
            BY <4>1, <6>6
        <5>. QED
          BY <5>1, <5>2
      <4>4. \A c \in ToSet(active') : Candidate < at'[c]
        BY <1>5, <1>17, <1>21, <1>7
      <4>. QED
        BY <1>15, <4>1, <4>3, <4>4
    <3>. QED
      BY <3>1, <3>2
  <2>. QED
    BY <1>1, <1>2, <1>3, <1>19, <2>1 DEF HeapOK
<1>24. Ahead'
  <2> SUFFICES ASSUME NEW d \in Candidates', Open(d)', NEW c \in Holders(lists, d)
               PROVE  c \in ToSet(active') \cup ToSet(passive') /\ at'[c] <= d
    BY <1>2 DEF Ahead
  <2>1. d \in Candidates /\ Score(lists, d) > theta' /\ d \notin Docids(heap')
    BY <1>2, <1>3 DEF Open
  <2>2. Score(lists, d) \in Nat /\ Score(lists, d) > theta /\ Score(lists, d) > minScore
    <3>1. Score(lists, d) \in Nat /\ minScore \in Nat
      BY ScoreType DEF IInv, InputOK
    <3>. QED
      BY <1>8, <1>19, <2>1, <3>1
  <2>3. d \notin Docids(heap)
    <3> SUFFICES ASSUME NEW x \in heap, x.docid = d PROVE FALSE
      BY DEF Docids
    <3>1. x.score = Score(lists, d)
      BY <2>2 DEF IInv, HeapOK
    <3>2. x \notin heap'
      BY <2>1 DEF Docids
    <3>3. x.score <= theta'
      BY <1>19, <3>2
    <3>. QED
      BY <1>19, <2>1, <2>2, <3>1, <3>3
  <2>4. Open(d)
    BY <2>1, <2>2, <2>3 DEF Open
  <2>5. d # Candidate
    <3> SUFFICES ASSUME d = Candidate PROVE FALSE
      OBVIOUS
    <3>1. h.score = Score(lists, d) /\ h.docid = d
      BY <1>15, <2>4 DEF Hit
    <3>2. h \notin heap'
      BY <2>1, <3>1 DEF Docids
    <3>3. h.score <= theta'
      BY <1>19, <3>2
    <3>. QED
      BY <1>19, <2>1, <2>2, <3>1, <3>3
  <2>6. d \in Nat /\ c \in Cursors /\ d \in DOMAIN lists[c]
    BY <2>1 DEF IInv, InputOK, AreLists, IsList, Candidates, Eligible, Matching, Holders, Cursors
  <2>7. c \in ToSet(active) \cup P /\ at[c] <= d
    BY <2>1, <2>4 DEF IInv, Ahead
  <2>8. d > Candidate
    <3>1. PICK a \in Holders(lists, d) : a \in ToSet(active)
      BY <2>1, <2>4, OneIsActive
    <3>2. at[a] <= d /\ at[a] >= Candidate /\ at[a] \in Nat
      BY <1>5, <1>7, <2>1, <2>4, <3>1 DEF IInv, Ahead, CursorsOK
    <3>. QED
      BY <1>5, <2>5, <2>6, <3>2
  <2>9. CASE c \in AtCandidate
    <3>1. c \notin Exhausted(0) /\ moved[c] <= d
      BY <1>10, <2>6, <2>8, <2>9
    <3>. QED
      BY <1>5, <1>10, <1>17, <1>20, <2>9, <3>1
  <2>10. CASE c \in ToSet(active) \ AtCandidate
    <3>1. c \notin Exhausted(0) /\ moved[c] = at[c]
      BY <1>7, <1>10, <2>10 DEF Exhausted
    <3>. QED
      BY <1>10, <1>17, <1>20, <2>7, <2>10, <3>1
  <2>11. CASE c \in P
    <3>1. at[c] \in Nat
      BY <2>6 DEF IInv, CursorsOK
    <3>2. Ask(c) # {} /\ Min(Ask(c)) <= d
      BY <1>5, <1>16, <2>6, <2>7, <2>8, <3>1
    <3>3. c \notin s.gone
      BY <1>14, <3>2
    <3>. QED
      BY <1>17, <1>18, <1>20, <2>7, <2>11, <3>2, <3>3
  <2>. QED
    BY <2>7, <2>9, <2>10, <2>11
<1>25. AnswerOK'
  BY <1>2 DEF IInv, AnswerOK
<1>26. StepsOn
  BY <1>7, <1>10, <1>17, <1>19, <1>21 DEF StepsOn
<1>. QED
  BY <1>4, <1>20, <1>22, <1>23, <1>24, <1>25, <1>26 DEF IInv

\* The filter refuses the candidate: it is not one that can enter the heap.
LEMMA RejectKeeps ==
  ASSUME IInv, Reject
  PROVE  IInv' /\ StepsOn
<1>1. active # <<>> /\ ~Accept(filter, Candidate) /\ at' = Moved(0)
  BY DEF Reject
<1>2. UNCHANGED <<input, theta, heap, answered, answer>> /\ Expand(Retained(0), passive, sumPass)
  BY DEF Reject
<1>3. Candidate \in Nat /\ \A c \in ToSet(active) : at[c] >= Candidate
  BY <1>1, CandidateFacts DEF IInv
<1>4. ASSUME NEW d \in Candidates, Open(d)
      PROVE  d > Candidate /\ d >= 0
  <2>1. d # Candidate
    BY <1>1 DEF IInv, InputOK, IsFilter, Accept, Candidates, Eligible
  <2>2. PICK c \in Holders(lists, d) : c \in ToSet(active)
    BY <1>4, OneIsActive
  <2>3. at[c] <= d /\ at[c] >= Candidate
    BY <1>3, <1>4, <2>2 DEF IInv, Ahead
  <2>4. at[c] \in Nat
    BY <2>2, FiniteMembers DEF IInv, CursorsOK, AreDistinct
  <2>5. d \in Nat
    BY DEF IInv, InputOK, AreLists, IsList, Candidates, Eligible, Matching
  <2>. QED
    BY <1>3, <2>1, <2>3, <2>4, <2>5
<1>5. 0 \in Nat
  OBVIOUS
<1>. QED
  BY <1>1, <1>2, <1>4, <1>5, SkipKeeps

\* The blocks around the candidate are skipped.
LEMMA PruneKeeps ==
  ASSUME IInv, PruneBlocks
  PROVE  IInv' /\ StepsOn
<1>1. active # <<>> /\ BlockBound <= theta /\ at' = Moved(SkipTo)
  BY DEF PruneBlocks
<1>2. UNCHANGED <<input, theta, heap, answered, answer>> /\ Expand(Retained(SkipTo), passive, sumPass)
  BY DEF PruneBlocks
<1>3. SkipTo \in Nat /\ \A d \in Candidates : Open(d) => d > Candidate /\ d >= SkipTo
  BY <1>1, PruneSkips
<1>. QED
  BY <1>1, <1>2, <1>3, SkipKeeps

\* The heap, sorted and with the ids of the caller, is the answer.
LEMMA FinishAnswers ==
  ASSUME IInv, Finish
  PROVE  IInv' /\ IsAnswer(answer', Scores, topK, minScore)
<1>1. active = <<>> /\ answered' = TRUE /\ ~answered
  BY DEF Finish
<1>2. /\ lists' = lists /\ filter' = filter /\ accepted' = accepted /\ topK' = topK
      /\ minScore' = minScore /\ at' = at /\ active' = active /\ passive' = passive
      /\ sumPass' = sumPass /\ theta' = theta /\ heap' = heap
  BY DEF Finish, input
<1>3. PICK hits \in Decreasing(heap) : answer' = Remapped(filter, hits)
  BY DEF Finish
<1> DEFINE scores == [d \in Candidates |-> Score(lists, d)]
<1>4. \A d \in DOMAIN scores : scores[d] \in Nat
  BY ScoreType DEF IInv, InputOK
<1>5. IsHeap(heap, DOMAIN scores, topK) /\ theta = Threshold(heap, topK, minScore)
  BY DEF IInv, HeapOK
<1>6. \A g \in heap : g.docid \in Candidates
  BY DEF IInv, HeapOK, IsHeap
<1>7. \A g \in heap : /\ g.score <= scores[g.docid]
                      /\ scores[g.docid] > minScore => g.score = scores[g.docid]
  BY <1>6 DEF IInv, HeapOK
<1>8. \A d \in DOMAIN scores \ Docids(heap) : scores[d] <= Threshold(heap, topK, minScore)
  <2> SUFFICES ASSUME NEW d \in Candidates, d \notin Docids(heap), ~(Score(lists, d) <= theta)
               PROVE  FALSE
    BY <1>5
  <2>1. Score(lists, d) > theta
    BY <1>4, ThetaFacts DEF IInv
  <2>2. \E c \in Holders(lists, d) : c \in ToSet(active)
    BY <2>1, OneIsActive DEF Open
  <2>. QED
    BY <1>1, <2>2 DEF ToSet
<1>9. topK \in Nat \ {0} /\ minScore \in Nat /\ IsFilter(filter, accepted, Matching(lists))
  BY DEF IInv, InputOK
<1>10. IsAnswer(hits, scores, topK, minScore)
  <2> HIDE DEF scores
  <2>. QED
    BY <1>4, <1>5, <1>7, <1>8, <1>9, HeapAnswers
<1>11. hits \in Seq([docid : Candidates, score : Nat])
  <2>1. IsFiniteSet(heap) /\ heap \subseteq [docid : Candidates, score : Nat]
    BY DEF IInv, HeapOK, IsHeap
  <2>2. hits \in Seq(heap)
    BY <2>1, DecreasingFacts
  <2> DEFINE all == [docid : Candidates, score : Nat]
  <2>3. heap \subseteq all
    BY <2>1
  <2> HIDE DEF all
  <2>4. hits \in Seq(all)
    BY <2>2, <2>3
  <2>. QED
    BY <2>4 DEF all
<1>12. /\ IsAnswer(answer', ScoresOf(lists, filter, accepted), topK, minScore)
       /\ \A i \in DOMAIN answer' : answer'[i].docid \in accepted
  BY <1>3, <1>9, <1>10, <1>11, RemappedAnswers DEF Candidates
<1>13. Cursors' = Cursors /\ Candidates' = Candidates
  BY <1>2 DEF Cursors, Candidates
<1>14. InputOK' /\ CursorsOK' /\ HeapOK' /\ PassiveStaysBelow'
  BY <1>2, <1>13 DEF IInv, InputOK, CursorsOK, HeapOK, PassiveStaysBelow
<1>15. Ahead'
  BY <1>2, <1>13 DEF IInv, Ahead, Open
<1>16. AnswerOK'
  BY <1>1, <1>2, <1>12 DEF AnswerOK
<1>. QED
  BY <1>12, <1>14, <1>15, <1>16 DEF IInv, Scores

-----------------------------------------------------------------------------
(***************************************************************************)
(* Theorems                                                                *)
(***************************************************************************)

\* A search starts with the invariant.
LEMMA InitInvariant ==
  ASSUME Init
  PROVE  IInv /\ BoundedWork /\ iterations = 0
<1>1. InputOK
  BY SearchAssumption DEF Init, InputOK
<1>2. IsFiniteSet(Cursors)
  BY <1>1, BoundsFacts
<1>3. active \in SetToSeqs(Cursors) /\ passive = <<>> /\ sumPass = 0 /\ theta = minScore
      /\ heap = {} /\ answered = FALSE /\ answer = <<>> /\ iterations = 0
      /\ at = [c \in Cursors |-> Min(DOMAIN lists[c])]
  BY DEF Init
<1>4. AreDistinct(active, Cursors) /\ ToSet(active) = Cursors
  BY <1>2, <1>3, SequenceOfAll
<1>5. \A c \in Cursors : /\ at[c] \in DOMAIN lists[c] /\ at[c] \in Nat
                         /\ \A d \in DOMAIN lists[c] : at[c] <= d
  <2> SUFFICES ASSUME NEW c \in Cursors
               PROVE  /\ at[c] \in DOMAIN lists[c] /\ at[c] \in Nat
                      /\ \A d \in DOMAIN lists[c] : at[c] <= d
    OBVIOUS
  <2>1. /\ IsFiniteSet(DOMAIN lists[c]) /\ DOMAIN lists[c] # {} /\ DOMAIN lists[c] \subseteq Nat
        /\ DOMAIN lists[c] \subseteq Int
    BY <1>1 DEF InputOK, AreLists, IsList, Cursors
  <2>2. at[c] = Min(DOMAIN lists[c])
    BY <1>3
  <2>. QED
    BY <2>1, <2>2, SmallestMember
<1>6. ToSet(passive) = {}
  BY <1>3 DEF ToSet
<1>7. CursorsOK
  <2>1. AreDistinct(passive, Cursors)
    BY <1>3 DEF AreDistinct
  <2>. QED
    BY <1>3, <1>4, <1>5, <1>6, <2>1 DEF CursorsOK
<1>8. HeapOK
  <2>1. IsFiniteSet({}) /\ Cardinality({}) = 0
    BY FS_EmptySet
  <2>2. IsHeap(heap, Candidates, topK)
    BY <1>1, <1>3, <2>1 DEF IsHeap, InputOK
  <2>3. theta = Threshold(heap, topK, minScore)
    BY <1>1, <1>3, <2>1 DEF Threshold, InputOK
  <2>. QED
    BY <1>3, <2>2, <2>3 DEF HeapOK
<1>9. Ahead
  BY <1>4, <1>5 DEF Ahead, Holders, Cursors
<1>10. PassiveStaysBelow
  BY <1>3, <1>6, SumEmpty DEF PassiveStaysBelow
<1>11. AnswerOK
  <2>1. DOMAIN answer = {}
    BY <1>3
  <2>. QED
    BY <1>3, <2>1 DEF AnswerOK
<1>12. BoundedWork
  <2>1. \A c \in Cursors : /\ ToRead(lists, at)[c] \in Nat /\ Lengths(lists)[c] \in Nat
                           /\ ToRead(lists, at)[c] <= Lengths(lists)[c]
    BY <1>1, <1>5, ToReadFacts DEF InputOK, Cursors
  <2>2. SumOver(ToRead(lists, at), Cursors) <= SumOver(Lengths(lists), Cursors)
    BY <1>2, <2>1, SumMonotone
  <2>3. SumOver(ToRead(lists, at), Cursors) \in Nat
    BY <1>2, <2>1, SumType
  <2>. QED
    BY <1>3, <1>4, <2>2, <2>3 DEF BoundedWork, Left
<1>. QED
  BY <1>1, <1>3, <1>7, <1>8, <1>9, <1>10, <1>11, <1>12 DEF IInv

\* An iteration leaves the active cursors less to read.
LEMMA IterationReads ==
  ASSUME IInv, IInv', StepsOn, lists' = lists, active # <<>>
  PROVE  Left \in Nat /\ Left' \in Nat /\ Left' < Left
<1> DEFINE S == ToSet(active)
           T == ToSet(active')
<1>1. S \in SUBSET DOMAIN lists /\ T \in SUBSET S
  BY FiniteMembers DEF IInv, CursorsOK, AreDistinct, Cursors, StepsOn
<1>2. AreLists(lists) /\ \A c \in S : at[c] \in DOMAIN lists[c]
  BY <1>1 DEF IInv, InputOK, CursorsOK, Cursors
<1>3. \A c \in T : at'[c] \in DOMAIN lists[c] /\ at'[c] >= at[c]
  BY <1>1 DEF IInv, CursorsOK, Cursors, StepsOn
<1>4. PICK a \in S : at[a] = Candidate
  BY CandidateFacts DEF IInv
<1>5. a \in T => at'[a] > at[a]
  BY <1>4 DEF StepsOn
<1>6. Left = SumOver(ToRead(lists, at), S) /\ Left' = SumOver(ToRead(lists, at'), T)
  BY DEF Left
<1> DEFINE bt == at'
<1> HIDE DEF S, T, bt
<1>7. \A c \in T : bt[c] \in DOMAIN lists[c] /\ bt[c] >= at[c]
  BY <1>3 DEF bt
<1>8. a \in S /\ (a \in T => bt[a] > at[a])
  BY <1>4, <1>5 DEF S, bt
<1>9. /\ SumOver(ToRead(lists, at), S) \in Nat /\ SumOver(ToRead(lists, bt), T) \in Nat
      /\ SumOver(ToRead(lists, bt), T) < SumOver(ToRead(lists, at), S)
  BY <1>1, <1>2, <1>7, <1>8, LessToRead
<1>. QED
  BY <1>6, <1>9 DEF bt

\* The next candidate is one of the documents the active cursors have moved to.
LEMMA NextCandidate ==
  ASSUME IInv, IInv', StepsOn, active' # <<>>
  PROVE  Candidate' > Candidate
<1>1. \A c \in Cursors' : at'[c] \in Nat
  BY DEF IInv, CursorsOK
<1>2. active' \in Seq(Cursors')
  BY DEF IInv, CursorsOK, AreDistinct
<1>3. Candidate' \in {at'[c] : c \in ToSet(active')}
  <2>1. Min({at'[c] : c \in ToSet(active')}) \in {at'[c] : c \in ToSet(active')}
    <3> DEFINE S == Cursors'
               some == active'
               bt == at'
    <3>1. some \in Seq(S) /\ some # <<>> /\ \A c \in S : bt[c] \in Nat
      BY <1>1, <1>2
    <3> HIDE DEF S, some, bt
    <3>2. IsFiniteSet(ToSet(some)) /\ ToSet(some) \subseteq S
      BY <3>1, FiniteMembers, Zenon
    <3> DEFINE docs == {bt[c] : c \in ToSet(some)}
    <3>3. IsFiniteSet(docs)
      BY <3>2, FiniteValues, Zenon
    <3>4. docs \subseteq Int
      BY <3>1, <3>2
    <3>5. docs # {}
      <4>1. some[1] \in ToSet(some)
        BY <3>1 DEF ToSet
      <4>. QED
        BY <4>1
    <3>6. Min(docs) \in docs
      <4> HIDE DEF docs
      <4>. QED
        BY <3>3, <3>4, <3>5, SmallestMember
    <3>. QED
      BY <3>6, Zenon DEF some, bt
  <2>. QED
    BY <2>1, Zenon DEF Candidate
<1>. QED
  BY <1>3 DEF StepsOn

\* Steps that leave the variables alone keep the invariant.
LEMMA StutterKeeps ==
  ASSUME IInv, UNCHANGED vars
  PROVE  IInv'
<1>1. /\ lists' = lists /\ filter' = filter /\ accepted' = accepted /\ topK' = topK
      /\ minScore' = minScore /\ at' = at /\ active' = active /\ passive' = passive
      /\ sumPass' = sumPass /\ theta' = theta /\ heap' = heap /\ answered' = answered
      /\ answer' = answer
  BY DEF vars, input
<1>2. Cursors' = Cursors /\ Candidates' = Candidates
  BY <1>1 DEF Cursors, Candidates
<1>3. InputOK' /\ CursorsOK' /\ HeapOK' /\ PassiveStaysBelow' /\ AnswerOK'
  BY <1>1, <1>2 DEF IInv, InputOK, CursorsOK, HeapOK, PassiveStaysBelow, AnswerOK
<1>4. Ahead'
  BY <1>1, <1>2 DEF IInv, Ahead, Open
<1>. QED
  BY <1>3, <1>4 DEF IInv

\* What a step does: an iteration, the answer, or nothing.
LEMMA StepFacts ==
  ASSUME IInv, [Next]_vars
  PROVE  /\ IInv'
         /\ \/ /\ active # <<>> /\ StepsOn /\ iterations' = iterations + 1
               /\ UNCHANGED <<input, answered, answer>>
            \/ /\ active = <<>> /\ ~answered /\ answered' = TRUE /\ IsAnswer(answer', Scores, topK, minScore)
               /\ UNCHANGED <<input, at, active, theta, iterations>>
            \/ UNCHANGED vars
<1>1. CASE PruneBlocks
  BY <1>1, PruneKeeps DEF PruneBlocks
<1>2. CASE Reject
  BY <1>2, RejectKeeps DEF Reject
<1>3. CASE ScoreCandidate
  BY <1>3, ScoreKeeps DEF ScoreCandidate
<1>4. CASE Finish
  <2>1. IInv' /\ IsAnswer(answer', Scores, topK, minScore)
    BY <1>4, FinishAnswers
  <2>2. /\ active = <<>> /\ ~answered /\ answered' = TRUE
        /\ UNCHANGED <<input, at, active, theta, iterations>>
    BY <1>4 DEF Finish
  <2>. QED
    BY <2>1, <2>2
<1>5. CASE Done
  BY <1>5, StutterKeeps DEF Done
<1>6. CASE UNCHANGED vars
  BY <1>6, StutterKeeps
<1>. QED
  BY <1>1, <1>2, <1>3, <1>4, <1>5, <1>6 DEF Next

\* The invariant is more than the types and the safety of pruning.
LEMMA InvariantImplies ==
  ASSUME IInv
  PROVE  TypeOK /\ NothingLost /\ PassiveStaysBelow
<1>1. /\ at \in [Cursors -> Nat] /\ \A c \in Cursors : at[c] \in DOMAIN lists[c]
      /\ AreDistinct(active, Cursors) /\ AreDistinct(passive, Cursors)
      /\ ToSet(active) \cap ToSet(passive) = {}
  BY DEF IInv, CursorsOK
<1>2. /\ IsInjective(active \o passive)
      /\ ToSet(active \o passive) = ToSet(active) \cup ToSet(passive)
  BY <1>1, Joined
<1>3. sumPass \in Nat
  <2>1. IsFiniteSet(ToSet(passive)) /\ ToSet(passive) \subseteq Cursors
    BY <1>1, FiniteMembers DEF AreDistinct
  <2>. QED
    BY <2>1, BoundsFacts, SumType DEF IInv, PassiveStaysBelow
<1>4. TypeOK
  <2>1. theta \in Nat
    BY ThetaFacts DEF IInv
  <2>2. heap \subseteq [docid : Candidates, score : Nat] /\ Cardinality(heap) <= topK
    BY DEF IInv, HeapOK, IsHeap
  <2>3. ToSet(active) \subseteq Cursors /\ ToSet(passive) \subseteq Cursors
    BY <1>1, FiniteMembers DEF AreDistinct
  <2>. QED
    BY <1>1, <1>2, <1>3, <2>1, <2>2, <2>3 DEF TypeOK, IInv, AnswerOK
<1>5. NothingLost
  <2> SUFFICES ASSUME NEW d \in Candidates, Open(d)
               PROVE  /\ \A c \in Holders(lists, d) : c \in ToSet(active \o passive) /\ at[c] <= d
                      /\ \E c \in Holders(lists, d) : c \in ToSet(active)
    BY DEF NothingLost, Open
  <2>. QED
    BY <1>2, OneIsActive DEF IInv, Ahead
<1>. QED
  BY <1>4, <1>5 DEF IInv

\* Pruning is safe, and every iteration leaves the cursors less to read.
THEOREM SearchIsSafe == Spec => [](TypeOK /\ NothingLost /\ PassiveStaysBelow /\ BoundedWork)
<1> DEFINE I == IInv /\ BoundedWork /\ iterations \in Nat
<1>1. Init => I
  BY InitInvariant
<1>2. I /\ [Next]_vars => I'
  <2> SUFFICES ASSUME I, [Next]_vars PROVE I'
    OBVIOUS
  <2>1. /\ IInv'
        /\ \/ /\ active # <<>> /\ StepsOn /\ iterations' = iterations + 1
              /\ UNCHANGED <<input, answered, answer>>
           \/ UNCHANGED <<input, at, active, iterations>>
    BY StepFacts DEF vars
  <2>2. CASE active # <<>> /\ StepsOn /\ iterations' = iterations + 1 /\ UNCHANGED input
    <3>1. lists' = lists /\ Left \in Nat /\ Left' \in Nat /\ Left' < Left
      BY <2>1, <2>2, IterationReads DEF input
    <3>2. BoundedWork'
      <4>1. SumOver(Lengths(lists), Cursors)' = SumOver(Lengths(lists), Cursors)
        BY <3>1 DEF Cursors
      <4>2. SumOver(Lengths(lists), Cursors) \in Nat
        <5>1. \A c \in Cursors : Lengths(lists)[c] \in Nat
          BY ToReadFacts DEF IInv, InputOK, CursorsOK, Cursors
        <5>. QED
          BY <5>1, BoundsFacts, SumType DEF IInv
      <4>. QED
        BY <2>2, <3>1, <4>1, <4>2 DEF BoundedWork
    <3>. QED
      BY <2>1, <2>2, <3>2
  <2>3. CASE UNCHANGED <<input, at, active, iterations>>
    <3>1. BoundedWork'
      BY <2>3 DEF BoundedWork, Left, Cursors, input
    <3>. QED
      BY <2>1, <2>3, <3>1
  <2>. QED
    BY <2>1, <2>2, <2>3
<1>3. I => TypeOK /\ NothingLost /\ PassiveStaysBelow /\ BoundedWork
  BY InvariantImplies
<1>. QED
  BY <1>1, <1>2, <1>3, PTL DEF Spec

\* The threshold never falls, and a candidate comes after the one before.
THEOREM SearchMovesOn ==
  Spec => [][/\ theta' >= theta
             /\ active # <<>> /\ active' # <<>> => Candidate' > Candidate]_vars
<1> DEFINE A == /\ theta' >= theta
                /\ active # <<>> /\ active' # <<>> => Candidate' > Candidate
<1>1. Init => IInv
  BY InitInvariant
<1>2. IInv /\ [Next]_vars => IInv'
  BY StepFacts
<1>3. IInv /\ IInv' /\ [Next]_vars => [A]_vars
  <2> SUFFICES ASSUME IInv, IInv', [Next]_vars, ~UNCHANGED vars PROVE A
    OBVIOUS
  <2>1. theta \in Nat
    BY ThetaFacts DEF IInv
  <2>2. CASE StepsOn
    <3>1. active' # <<>> => Candidate' > Candidate
      BY <2>2, NextCandidate
    <3>. QED
      BY <2>1, <2>2, <3>1 DEF StepsOn
  <2>3. CASE active = <<>> /\ theta' = theta
    BY <2>1, <2>3
  <2>. QED
    BY <2>2, <2>3, StepFacts
<1>. QED
  BY <1>1, <1>2, <1>3, PTL DEF Spec

Contract == INSTANCE SearchContract WITH scores <- Scores

\* MaxScore answers once, with the best documents of the filter.
THEOREM SearchAnswers == Spec => Contract!Spec
<1>1. Init => IInv /\ Contract!Init
  BY InitInvariant DEF Init, Contract!Init
<1>2. IInv /\ [Next]_vars => IInv' /\ [Contract!Answer]_Contract!vars
  <2> SUFFICES ASSUME IInv, [Next]_vars PROVE IInv' /\ [Contract!Answer]_Contract!vars
    OBVIOUS
  <2>1. IInv' /\ UNCHANGED input
    BY StepFacts DEF vars
  <2>2. Scores' = Scores /\ topK' = topK /\ minScore' = minScore
    BY <2>1 DEF input, Scores
  <2>3. \/ UNCHANGED <<answered, answer>>
        \/ ~answered /\ answered' = TRUE /\ IsAnswer(answer', Scores, topK, minScore)
    BY StepFacts DEF vars
  <2>4. answered \in BOOLEAN
    BY DEF IInv, AnswerOK
  <2>5. IsAnswer(answer', Scores, topK, minScore)
          => Contract!IsAnswer(answer', Scores, topK, minScore)
    BY DEF IsAnswer, Contract!IsAnswer, ToSet, Contract!ToSet, Docids, Contract!Docids,
           IsInjective, Contract!IsInjective
  <2>. QED
    BY <2>1, <2>2, <2>3, <2>4, <2>5 DEF Contract!Answer, Contract!vars
<1>. QED
  BY <1>1, <1>2, PTL DEF Spec, Contract!Spec
=============================================================================
