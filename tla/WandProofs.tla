----------------------------- MODULE WandProofs -----------------------------
(***************************************************************************)
(* Theorems about block-max WAND, for all posting lists, filters, numbers  *)
(* of results, thresholds, block sizes and slacks.                         *)
(***************************************************************************)
EXTENDS Wand, SearchLemmas

-----------------------------------------------------------------------------
(***************************************************************************)
(* The sorted sequence of cursors                                          *)
(***************************************************************************)

\* Two sequences, one after the other.
LEMMA Concatenated ==
  ASSUME NEW S, NEW a \in Seq(S), NEW b \in Seq(S)
  PROVE  /\ a \o b \in Seq(S) /\ Len(a \o b) = Len(a) + Len(b)
         /\ \A j \in 1 .. Len(a) : (a \o b)[j] = a[j]
         /\ \A j \in 1 .. Len(b) : (a \o b)[Len(a) + j] = b[j]
OBVIOUS

\* A sequence without its member at i.
LEMMA RemoveAtFacts ==
  ASSUME NEW S, NEW some, AreDistinct(some, S), NEW i \in DOMAIN some
  PROVE  /\ AreDistinct(RemoveAt(some, i), S)
         /\ Len(RemoveAt(some, i)) = Len(some) - 1
         /\ \A j \in 1 .. (Len(some) - 1) :
              RemoveAt(some, i)[j] = IF j < i THEN some[j] ELSE some[j + 1]
         /\ ToSet(RemoveAt(some, i)) = ToSet(some) \ {some[i]}
<1> DEFINE n == Len(some)
           others == RemoveAt(some, i)
<1>1. n \in Nat /\ DOMAIN some = 1 .. n /\ some \in Seq(S) /\ i \in 1 .. n
  BY DEF AreDistinct
<1>2. others = SubSeq(some, 1, i - 1) \o SubSeq(some, i + 1, n)
  BY DEF RemoveAt
<1>3. /\ others \in Seq(S) /\ Len(others) = n - 1 /\ DOMAIN others = 1 .. (n - 1)
      /\ \A j \in 1 .. (n - 1) : others[j] = IF j < i THEN some[j] ELSE some[j + 1]
  <2> DEFINE a == SubSeq(some, 1, i - 1)
             b == SubSeq(some, i + 1, n)
  <2>1. a \in Seq(S) /\ Len(a) = i - 1 /\ \A j \in 1 .. (i - 1) : a[j] = some[j]
    BY <1>1
  <2>2. b \in Seq(S) /\ Len(b) = n - i /\ \A j \in 1 .. (n - i) : b[j] = some[i + j]
    BY <1>1
  <2> HIDE DEF a, b, n
  <2>3. /\ a \o b \in Seq(S) /\ Len(a \o b) = n - 1
        /\ \A j \in 1 .. (i - 1) : (a \o b)[j] = a[j]
        /\ \A j \in 1 .. (n - i) : (a \o b)[(i - 1) + j] = b[j]
    <3>1. n \in Nat /\ i \in 1 .. n /\ (i - 1) + (n - i) = n - 1
      BY <1>1
    <3>2. a \in Seq(S) /\ b \in Seq(S)
      BY <2>1, <2>2
    <3>3. /\ a \o b \in Seq(S) /\ Len(a \o b) = Len(a) + Len(b)
          /\ \A j \in 1 .. Len(a) : (a \o b)[j] = a[j]
          /\ \A j \in 1 .. Len(b) : (a \o b)[Len(a) + j] = b[j]
      BY <3>2, Concatenated
    <3>4. a \o b \in Seq(S) /\ Len(a \o b) = n - 1
      BY <2>1, <2>2, <3>1, <3>3
    <3>5. \A j \in 1 .. (i - 1) : (a \o b)[j] = a[j]
      BY <2>1, <3>3, Zenon
    <3>6. \A j \in 1 .. (n - i) : (a \o b)[(i - 1) + j] = b[j]
      BY <2>1, <2>2, <3>3, Zenon
    <3>. QED
      BY <3>4, <3>5, <3>6, Zenon
  <2>4. \A j \in 1 .. (n - 1) : ~(j < i) => /\ j - (i - 1) \in 1 .. (n - i)
                                            /\ i + (j - (i - 1)) = j + 1
                                            /\ (i - 1) + (j - (i - 1)) = j
    BY <1>1
  <2>5. \A j \in 1 .. (n - 1) : j < i => j \in 1 .. (i - 1)
    BY <1>1
  <2>6. ASSUME NEW j \in 1 .. (n - 1)
        PROVE  (a \o b)[j] = IF j < i THEN some[j] ELSE some[j + 1]
    <3>1. CASE j < i
      BY <2>1, <2>3, <2>5, <3>1
    <3>2. CASE ~(j < i)
      <4>1. j - (i - 1) \in 1 .. (n - i)
        BY <2>4, <3>2, Zenon
      <4>2. b[j - (i - 1)] = some[i + (j - (i - 1))] /\ i + (j - (i - 1)) = j + 1
        BY <2>2, <2>4, <3>2, <4>1, Zenon
      <4>3. (a \o b)[(i - 1) + (j - (i - 1))] = b[j - (i - 1)] /\ (i - 1) + (j - (i - 1)) = j
        BY <2>3, <2>4, <3>2, <4>1, Zenon
      <4>. QED
        BY <3>2, <4>2, <4>3, Zenon
    <3>. QED
      BY <3>1, <3>2
  <2>7. others = a \o b
    BY <1>2 DEF a, b
  <2> HIDE DEF others
  <2>8. DOMAIN others = 1 .. (n - 1)
    BY <2>3, <2>7
  <2>. QED
    BY <2>3, <2>6, <2>7, <2>8
<1> HIDE DEF others
<1>4. \A j \in 1 .. (n - 1) : j \in 1 .. n /\ j + 1 \in 1 .. n
  BY <1>1
<1>5. AreDistinct(others, S)
  <2> SUFFICES ASSUME NEW j \in 1 .. (n - 1), NEW k \in 1 .. (n - 1), others[j] = others[k]
               PROVE  j = k
    BY <1>3 DEF AreDistinct
  <2> DEFINE p(x) == IF x < i THEN x ELSE x + 1
  <2>1. p(j) \in 1 .. n /\ p(k) \in 1 .. n /\ others[j] = some[p(j)] /\ others[k] = some[p(k)]
    BY <1>3, <1>4
  <2>2. p(j) = p(k)
    BY <1>1, <2>1 DEF AreDistinct
  <2>. QED
    BY <1>1, <2>2
<1>6. ToSet(others) = ToSet(some) \ {some[i]}
  <2>1. ASSUME NEW x \in ToSet(others) PROVE x \in ToSet(some) /\ x # some[i]
    <3>1. PICK j \in 1 .. (n - 1) : x = others[j]
      BY <1>3, <2>1 DEF ToSet
    <3>2. PICK k \in 1 .. n : k # i /\ x = some[k]
      BY <1>1, <1>3, <1>4, <3>1
    <3>. QED
      BY <1>1, <3>2 DEF ToSet, AreDistinct
  <2>2. ASSUME NEW x \in ToSet(some), x # some[i] PROVE x \in ToSet(others)
    <3>1. PICK k \in 1 .. n : x = some[k] /\ k # i
      BY <1>1, <2>2 DEF ToSet
    <3>2. \E j \in 1 .. (n - 1) : x = others[j]
      <4>1. CASE k < i
        BY <1>1, <1>3, <3>1, <4>1
      <4>2. CASE k > i
        <5>1. k - 1 \in 1 .. (n - 1) /\ ~(k - 1 < i) /\ (k - 1) + 1 = k
          BY <1>1, <4>2
        <5>. QED
          BY <1>3, <3>1, <5>1
      <4>. QED
        BY <1>1, <3>1, <4>1, <4>2
    <3>. QED
      BY <1>3, <3>2 DEF ToSet
  <2>. QED
    BY <2>1, <2>2
<1>. QED
  BY <1>3, <1>5, <1>6 DEF others

\* A sequence with another member after the first m.
LEMMA InsertAtFacts ==
  ASSUME NEW S, NEW some, AreDistinct(some, S), NEW m \in 0 .. Len(some),
         NEW c \in S, c \notin ToSet(some)
  PROVE  /\ AreDistinct(InsertAt(some, m + 1, c), S)
         /\ Len(InsertAt(some, m + 1, c)) = Len(some) + 1
         /\ \A j \in 1 .. (Len(some) + 1) :
              InsertAt(some, m + 1, c)[j] =
                IF j <= m THEN some[j] ELSE IF j = m + 1 THEN c ELSE some[j - 1]
         /\ ToSet(InsertAt(some, m + 1, c)) = ToSet(some) \cup {c}
<1> DEFINE n == Len(some)
           more == InsertAt(some, m + 1, c)
<1>1. n \in Nat /\ DOMAIN some = 1 .. n /\ some \in Seq(S) /\ m \in 0 .. n
  BY DEF AreDistinct
<1>2. more = SubSeq(some, 1, m) \o <<c>> \o SubSeq(some, m + 1, n)
  <2>1. (m + 1) - 1 = m
    BY <1>1
  <2>. QED
    BY <2>1, Zenon DEF InsertAt
<1>3. /\ SubSeq(some, 1, m) \in Seq(S) /\ Len(SubSeq(some, 1, m)) = m
      /\ \A j \in 1 .. m : SubSeq(some, 1, m)[j] = some[j]
      /\ SubSeq(some, m + 1, n) \in Seq(S) /\ Len(SubSeq(some, m + 1, n)) = n - m
      /\ \A j \in 1 .. (n - m) : SubSeq(some, m + 1, n)[j] = some[m + j]
  BY <1>1
<1>4. /\ more \in Seq(S) /\ Len(more) = n + 1 /\ DOMAIN more = 1 .. (n + 1)
      /\ \A j \in 1 .. (n + 1) :
           more[j] = IF j <= m THEN some[j] ELSE IF j = m + 1 THEN c ELSE some[j - 1]
  <2> DEFINE a == SubSeq(some, 1, m)
             b == SubSeq(some, m + 1, n)
             d == a \o <<c>>
  <2>1. /\ a \in Seq(S) /\ Len(a) = m /\ \A j \in 1 .. m : a[j] = some[j]
        /\ b \in Seq(S) /\ Len(b) = n - m /\ \A j \in 1 .. (n - m) : b[j] = some[m + j]
    BY <1>3
  <2> HIDE DEF a, b, n
  <2>2. d \in Seq(S) /\ Len(d) = m + 1
    BY <1>1, <2>1
  <2>3. \A j \in 1 .. (m + 1) : d[j] = IF j <= m THEN some[j] ELSE c
    BY <1>1, <2>1
  <2>4. more = d \o b
    BY <1>2 DEF a, b
  <2> HIDE DEF more, d
  <2>5. d \in Seq(S) /\ b \in Seq(S)
    BY <2>1, <2>2
  <2>6. /\ d \o b \in Seq(S) /\ Len(d \o b) = Len(d) + Len(b)
        /\ \A j \in 1 .. Len(d) : (d \o b)[j] = d[j]
        /\ \A j \in 1 .. Len(b) : (d \o b)[Len(d) + j] = b[j]
    BY <2>5, Concatenated
  <2>7. more \in Seq(S) /\ Len(more) = n + 1 /\ DOMAIN more = 1 .. (n + 1)
    <3>1. n \in Nat /\ m \in Nat /\ (m + 1) + (n - m) = n + 1
      BY <1>1
    <3>. QED
      BY <2>1, <2>2, <2>4, <2>6, <3>1
  <2>8. /\ \A j \in 1 .. (m + 1) : more[j] = d[j]
        /\ \A j \in 1 .. (n - m) : more[(m + 1) + j] = b[j]
    <3>1. \A j \in 1 .. (m + 1) : more[j] = d[j]
      BY <2>2, <2>4, <2>6, Zenon
    <3>2. \A j \in 1 .. (n - m) : more[(m + 1) + j] = b[j]
      BY <2>1, <2>2, <2>4, <2>6, Zenon
    <3>. QED
      BY <3>1, <3>2
  <2>9. \A j \in 1 .. (n + 1) : j > m + 1 => /\ j - (m + 1) \in 1 .. (n - m)
                                              /\ m + (j - (m + 1)) = j - 1
                                              /\ (m + 1) + (j - (m + 1)) = j
    BY <1>1
  <2>10. \A j \in 1 .. (n + 1) : j <= m + 1 => j \in 1 .. (m + 1) /\ (j <= m \/ j = m + 1)
    BY <1>1
  <2>11. ASSUME NEW j \in 1 .. (n + 1)
        PROVE  more[j] = IF j <= m THEN some[j] ELSE IF j = m + 1 THEN c ELSE some[j - 1]
    <3>1. CASE j <= m + 1
      BY <1>1, <2>3, <2>8, <2>10, <3>1
    <3>2. CASE j > m + 1
      <4>1. more[j] = b[j - (m + 1)] /\ b[j - (m + 1)] = some[j - 1]
        BY <2>1, <2>8, <2>9, <3>2
      <4>2. ~(j <= m) /\ j # m + 1
        BY <1>1, <3>2
      <4>. QED
        BY <4>1, <4>2
    <3>. QED
      BY <1>1, <3>1, <3>2
  <2>. QED
    BY <2>7, <2>11
<1> HIDE DEF more
<1>5. \A j \in 1 .. n : some[j] # c
  BY <1>1 DEF ToSet
<1>6. AreDistinct(more, S)
  <2> SUFFICES ASSUME NEW j \in 1 .. (n + 1), NEW k \in 1 .. (n + 1), more[j] = more[k], j < k
               PROVE  FALSE
    BY <1>1, <1>4 DEF AreDistinct
  <2> DEFINE p(x) == IF x <= m THEN x ELSE x - 1
  <2>1. \A x \in 1 .. (n + 1) : x # m + 1 => p(x) \in 1 .. n /\ more[x] = some[p(x)]
    BY <1>1, <1>4
  <2>2. more[m + 1] = c
    BY <1>1, <1>4
  <2>3. j # m + 1 /\ k # m + 1
    BY <1>5, <2>1, <2>2
  <2>4. p(j) = p(k)
    BY <1>1, <2>1, <2>3 DEF AreDistinct
  <2>. QED
    BY <1>1, <2>3, <2>4
<1>7. ToSet(more) = ToSet(some) \cup {c}
  <2>1. ASSUME NEW x \in ToSet(more), x # c PROVE x \in ToSet(some)
    <3>1. PICK j \in 1 .. (n + 1) : x = more[j]
      BY <1>4, <2>1 DEF ToSet
    <3>2. \E k \in 1 .. n : x = some[k]
      BY <1>1, <1>4, <2>1, <3>1
    <3>. QED
      BY <1>1, <3>2 DEF ToSet
  <2>2. c \in ToSet(more)
    <3>1. m + 1 \in 1 .. (n + 1) /\ more[m + 1] = c
      BY <1>1, <1>4
    <3>. QED
      BY <1>4, <3>1 DEF ToSet
  <2>3. ASSUME NEW x \in ToSet(some) PROVE x \in ToSet(more)
    <3>1. PICK k \in 1 .. n : x = some[k]
      BY <1>1, <2>3 DEF ToSet
    <3>2. \E j \in 1 .. (n + 1) : x = more[j]
      <4>1. CASE k <= m
        BY <1>1, <1>4, <3>1, <4>1
      <4>2. CASE k > m
        <5>1. k + 1 \in 1 .. (n + 1) /\ ~(k + 1 <= m) /\ k + 1 # m + 1 /\ (k + 1) - 1 = k
          BY <1>1, <4>2
        <5>. QED
          BY <1>4, <3>1, <5>1
      <4>. QED
        BY <1>1, <4>1, <4>2
    <3>. QED
      BY <1>4, <3>2 DEF ToSet
  <2>. QED
    BY <2>1, <2>2, <2>3
<1>. QED
  BY <1>4, <1>6, <1>7 DEF more

\* A cursor of a sorted sequence is not ahead of a later one.
LEMMA SortedFar ==
  ASSUME NEW S, NEW some \in Seq(S), NEW pos, \A c \in S : pos[c] \in Nat, Sorted(some, pos),
         NEW i \in DOMAIN some, NEW j \in DOMAIN some, i <= j
  PROVE  pos[some[i]] <= pos[some[j]]
<1> DEFINE B == {k \in DOMAIN some : i <= k /\ ~(pos[some[i]] <= pos[some[k]])}
<1>1. DOMAIN some = 1 .. Len(some) /\ Len(some) \in Nat /\ i \in Int
      /\ \A k \in DOMAIN some : pos[some[k]] \in Nat
  OBVIOUS
<1>2. IsFiniteSet(B) /\ B \subseteq Int
  <2>1. IsFiniteSet(DOMAIN some)
    BY <1>1, FS_Interval
  <2>. QED
    BY <1>1, <2>1, FS_Subset
<1>3. SUFFICES ASSUME B # {} PROVE FALSE
  OBVIOUS
<1>4. PICK m \in B : \A k \in B : m <= k
  <2> HIDE DEF B
  <2>. QED
    BY <1>2, <1>3, SmallestMember
<1>5. m \in 1 .. Len(some) /\ i <= m /\ ~(pos[some[i]] <= pos[some[m]])
  BY <1>1, <1>4
<1>6. i # m
  BY <1>1, <1>5
<1>7. m - 1 \in DOMAIN some /\ i <= m - 1 /\ m - 1 \notin B /\ m \in 2 .. Len(some)
  BY <1>1, <1>4, <1>5, <1>6
<1>8. pos[some[i]] <= pos[some[m - 1]] /\ pos[some[m - 1]] <= pos[some[m]]
  BY <1>7 DEF Sorted
<1>. QED
  BY <1>1, <1>5, <1>7, <1>8

-----------------------------------------------------------------------------
(***************************************************************************)
(* The invariant                                                           *)
(***************************************************************************)

\* What a search is given.
InputOK ==
  /\ topK \in Nat \ {0} /\ minScore \in Nat
  /\ AreLists(lists) /\ IsFilter(filter, accepted, Matching(lists))

CursorsOK ==
  /\ at \in [Cursors -> Nat] /\ \A c \in Cursors : at[c] \in DOMAIN lists[c]
  /\ AreDistinct(iterators, Cursors) /\ StaysSorted
  /\ curDoc \in Nat \cup {-1}

\* The hits have their scores, if these matter, and were candidates.
HeapOK ==
  /\ theta = Threshold(heap, topK, minScore)
  /\ IsHeap(heap, Candidates, topK)
  /\ \A h \in heap :
       /\ h.score <= Score(lists, h.docid)
       /\ Score(lists, h.docid) > minScore => h.score = Score(lists, h.docid)
       /\ h.docid <= curDoc

\* A document that can still enter the heap.
Open(d) == d \in Candidates /\ Score(lists, d) > theta /\ d \notin Docids(heap)

\* It has not been a candidate, and is ahead of the cursors of all its terms.
Ahead ==
  \A d \in Candidates :
    Open(d) => /\ d > curDoc
               /\ \A c \in Holders(lists, d) : c \in ToSet(iterators) /\ at[c] <= d

AnswerOK ==
  /\ answered \in BOOLEAN /\ (~answered => answer = <<>>)
  /\ \A i \in DOMAIN answer : answer[i].docid \in accepted

IInv == InputOK /\ CursorsOK /\ HeapOK /\ Ahead /\ AnswerOK

-----------------------------------------------------------------------------
(***************************************************************************)
(* What the invariant says of one state                                    *)
(***************************************************************************)

\* The bounds of the lists are natural numbers and bound what they add.
LEMMA BoundsFacts ==
  ASSUME InputOK
  PROVE  /\ IsFiniteSet(Cursors)
         /\ \A c \in Cursors : BoundOf[c] \in Nat
         /\ \A d : \A c \in Holders(lists, d) : lists[c][d] <= BoundOf[c]
<1>1. \A c \in Cursors : IsList(lists[c]) /\ BoundOf[c] = MaxValue(lists[c])
  BY DEF InputOK, AreLists, Cursors, Bounds, BoundOf
<1>2. \A c \in Cursors : /\ MaxValue(lists[c]) \in Nat
                         /\ \A d \in DOMAIN lists[c] : lists[c][d] <= MaxValue(lists[c])
  BY <1>1, ListBound
<1>3. IsFiniteSet(Cursors)
  BY DEF InputOK, AreLists, Cursors
<1>. QED
  BY <1>1, <1>2, <1>3 DEF Holders, Cursors

\* The bounds of the blocks the cursors are in bound what comes up to their ends.
LEMMA BlockBoundsFacts ==
  ASSUME InputOK, CursorsOK, NEW c \in Cursors
  PROVE  /\ BlockBoundOf[c] \in Nat
         /\ MaxBlockDocId(lists[c], at[c]) \in Nat /\ at[c] <= MaxBlockDocId(lists[c], at[c])
         /\ \A d \in DOMAIN lists[c] :
              at[c] <= d /\ d <= MaxBlockDocId(lists[c], at[c]) => lists[c][d] <= BlockBoundOf[c]
<1>1. /\ IsList(lists[c]) /\ at[c] \in DOMAIN lists[c] /\ DOMAIN lists[c] \subseteq Nat
      /\ BlockBoundOf[c] = MaxBlockValue(lists[c], at[c])
  BY DEF InputOK, CursorsOK, AreLists, IsList, Cursors, BlockBounds, BlockBoundOf
<1>. QED
  BY <1>1, BlockFacts

\* theta is a natural number, not below the initial threshold.
LEMMA ThetaFacts ==
  ASSUME InputOK, HeapOK
  PROVE  theta \in Nat /\ minScore <= theta
BY ThresholdFacts DEF InputOK, HeapOK

\* The cursors at the positions P.
CursorsAt(P) == {iterators[i] : i \in P}

\* Cursors are finitely many, and what comes later in the sequence is not behind.
LEMMA PositionsFacts ==
  ASSUME InputOK, CursorsOK
  PROVE  /\ Len(iterators) \in Nat /\ DOMAIN iterators = 1 .. Len(iterators)
         /\ \A i \in DOMAIN iterators : iterators[i] \in Cursors /\ at[iterators[i]] \in Nat
         /\ \A i, j \in DOMAIN iterators : i <= j => at[iterators[i]] <= at[iterators[j]]
         /\ \A i, j \in DOMAIN iterators : iterators[i] = iterators[j] => i = j
         /\ \A P \in SUBSET DOMAIN iterators :
              IsFiniteSet(P) /\ IsFiniteSet(CursorsAt(P)) /\ CursorsAt(P) \subseteq Cursors
         /\ CursorsAt(DOMAIN iterators) = ToSet(iterators)
<1>1. /\ Len(iterators) \in Nat /\ DOMAIN iterators = 1 .. Len(iterators)
      /\ iterators \in Seq(Cursors)
      /\ \A i, j \in DOMAIN iterators : iterators[i] = iterators[j] => i = j
  BY DEF CursorsOK, AreDistinct
<1>2. \A i \in DOMAIN iterators : iterators[i] \in Cursors
  BY <1>1
<1>3. \A c \in Cursors : at[c] \in Nat
  BY DEF CursorsOK
<1>4. \A i, j \in DOMAIN iterators : i <= j => at[iterators[i]] <= at[iterators[j]]
  BY <1>1, <1>3, SortedFar DEF CursorsOK, StaysSorted
<1>5. ASSUME NEW P \in SUBSET DOMAIN iterators
      PROVE  IsFiniteSet(P) /\ IsFiniteSet(CursorsAt(P)) /\ CursorsAt(P) \subseteq Cursors
  <2>1. IsFiniteSet(DOMAIN iterators)
    BY <1>1, FS_Interval
  <2>2. IsFiniteSet(P)
    BY <2>1, FS_Subset
  <2>3. IsFiniteSet(CursorsAt(P))
    BY <2>2, FiniteValues DEF CursorsAt
  <2>. QED
    BY <1>2, <2>2, <2>3 DEF CursorsAt
<1>6. CursorsAt(DOMAIN iterators) = ToSet(iterators)
  BY DEF CursorsAt, ToSet
<1>. QED
  BY <1>1, <1>2, <1>3, <1>4, <1>5, <1>6

\* A document whose terms the first n cursors read scores what their bounds add up
\* to, at most.
LEMMA ScoreBelowTotal ==
  ASSUME InputOK, CursorsOK, NEW n \in 0 .. Len(iterators), NEW bound,
         \A c \in Cursors : bound[c] \in Nat,
         NEW d, \A c \in Holders(lists, d) : c \in CursorsAt(1 .. n) /\ lists[c][d] <= bound[c]
  PROVE  Score(lists, d) <= Total(bound, n) /\ Total(bound, n) \in Nat
<1> DEFINE H == Holders(lists, d)
           K == CursorsAt(1 .. n)
<1>1. 1 .. n \in SUBSET DOMAIN iterators
  BY PositionsFacts
<1>2. IsFiniteSet(K) /\ K \subseteq Cursors
  BY <1>1, PositionsFacts
<1>3. H \subseteq K
  OBVIOUS
<1>4. Total(bound, n) = SumOver(bound, K)
  BY DEF Total, CursorsAt
<1>5. \A c \in H : bound[c] \in Nat /\ lists[c][d] <= bound[c]
  BY <1>2, <1>3
<1>6. AreLists(lists)
  BY DEF InputOK
<1>7. H \in SUBSET Holders(lists, d)
  OBVIOUS
<1>8. SumOver(ValuesAt(lists, d), H) <= SumOver(bound, H)
  <2> HIDE DEF H
  <2>. QED
    BY <1>5, <1>6, <1>7, ScoreBelow
<1>9. \A c \in K : bound[c] \in Nat
  BY <1>2
<1>10. SumOver(bound, H) <= SumOver(bound, K)
  <2> HIDE DEF H, K
  <2>. QED
    BY <1>2, <1>3, <1>9, SumPart
<1>11. SumOver(bound, H) \in Nat /\ SumOver(bound, K) \in Nat
  <2>1. IsFiniteSet(H)
    BY <1>2, <1>3, FS_Subset
  <2> HIDE DEF H, K
  <2>. QED
    BY <1>2, <1>5, <1>9, <2>1, SumType
<1>12. Score(lists, d) = SumOver(ValuesAt(lists, d), H) /\ Score(lists, d) \in Nat
  BY <1>6, ScoreType DEF Score
<1>. QED
  BY <1>4, <1>8, <1>10, <1>11, <1>12

\* Cursors whose bounds do not add up to more than theta are not all a document has
\* that can still enter the heap.
LEMMA NotEnough ==
  ASSUME IInv, NEW n \in 0 .. Len(iterators), n # 0 => ~(Total(BoundOf, n) > theta),
         NEW d \in Candidates, Open(d)
  PROVE  \E c \in Holders(lists, d) : c \in ToSet(iterators) /\ c \notin CursorsAt(1 .. n)
<1> SUFFICES ASSUME \A c \in Holders(lists, d) : c \in CursorsAt(1 .. n) PROVE FALSE
  BY DEF IInv, Ahead
<1>1. Score(lists, d) <= Total(BoundOf, n) /\ Total(BoundOf, n) \in Nat
  <2>1. InputOK /\ CursorsOK
    BY DEF IInv
  <2>2. \A c \in Cursors : BoundOf[c] \in Nat
    BY <2>1, BoundsFacts
  <2>3. \A c \in Holders(lists, d) : lists[c][d] <= BoundOf[c]
    BY <2>1, BoundsFacts
  <2>. QED
    BY <2>1, <2>2, <2>3, ScoreBelowTotal
<1>2. n = 0 => Total(BoundOf, n) = 0
  <2>1. {iterators[i] : i \in 1 .. 0} = {}
    OBVIOUS
  <2>. QED
    BY <2>1, SumEmpty DEF Total
<1>3. theta \in Nat
  BY ThetaFacts DEF IInv
<1>4. Score(lists, d) \in Nat /\ Score(lists, d) > theta
  BY ScoreType DEF IInv, InputOK, Open
<1>. QED
  BY <1>1, <1>2, <1>3, <1>4

\* The pivot is the last of the cursors at its document, and what can still enter
\* the heap does not come before that document.
LEMMA PivotFacts ==
  ASSUME IInv, NEW p \in Pivots
  PROVE  /\ p \in DOMAIN iterators
         /\ \A i \in DOMAIN iterators : IF i <= p THEN at[iterators[i]] <= at[iterators[p]]
                                        ELSE at[iterators[i]] > at[iterators[p]]
         /\ \A d \in Candidates : Open(d) => d >= at[iterators[p]]
<1> DEFINE D == DOMAIN iterators
           enough == {i \in D : Total(BoundOf, i) > theta}
           e == Min(enough)
           same == {i \in D : at[iterators[i]] = at[iterators[e]]}
<1>1. /\ Len(iterators) \in Nat /\ D = 1 .. Len(iterators)
      /\ \A i \in D : iterators[i] \in Cursors /\ at[iterators[i]] \in Nat
      /\ \A i, j \in D : i <= j => at[iterators[i]] <= at[iterators[j]]
  BY PositionsFacts DEF IInv
<1>2. IsFiniteSet(D) /\ D \subseteq Int
  BY <1>1, FS_Interval
<1>3. enough # {} /\ p = Max(same)
  BY DEF Pivots
<1>4. e \in enough /\ \A i \in enough : e <= i
  <2>1. IsFiniteSet(enough) /\ enough \subseteq Int
    BY <1>2, FS_Subset
  <2> HIDE DEF enough
  <2>. QED
    BY <1>3, <2>1, SmallestMember
<1> HIDE DEF e
<1>5. e \in D /\ e - 1 \in 0 .. Len(iterators) /\ (e - 1 # 0 => ~(Total(BoundOf, e - 1) > theta))
  <2>1. e \in D
    BY <1>4
  <2>2. e - 1 # 0 => e - 1 \in D /\ e - 1 \notin enough
    BY <1>1, <1>4
  <2>. QED
    BY <1>1, <2>1, <2>2
<1>6. p \in same /\ \A i \in same : i <= p
  <2>1. IsFiniteSet(same) /\ same \subseteq Int /\ e \in same
    BY <1>2, <1>5, FS_Subset
  <2> HIDE DEF same
  <2>. QED
    BY <1>3, <2>1, LargestMember
<1>7. p \in D /\ at[iterators[p]] = at[iterators[e]]
  BY <1>6
<1>8. ASSUME NEW i \in D, ~(i <= p) PROVE at[iterators[i]] > at[iterators[p]]
  <2>1. i \notin same /\ at[iterators[p]] <= at[iterators[i]]
    BY <1>1, <1>6, <1>7, <1>8
  <2>. QED
    BY <1>1, <1>7, <2>1
<1>9. ASSUME NEW d \in Candidates, Open(d), ~(d >= at[iterators[p]]) PROVE FALSE
  <2>1. PICK c \in Holders(lists, d) : c \in ToSet(iterators) /\ c \notin CursorsAt(1 .. (e - 1))
    BY <1>5, <1>9, NotEnough
  <2>2. PICK i \in D : c = iterators[i]
    BY <2>1 DEF ToSet
  <2>3. i >= e
    BY <1>1, <1>5, <2>1, <2>2 DEF CursorsAt
  <2>4. at[c] <= d
    BY <1>9 DEF IInv, Ahead
  <2>5. at[iterators[e]] <= at[c] /\ d \in Nat
    <3>1. d \in Nat
      BY DEF IInv, InputOK, AreLists, IsList, Candidates, Eligible, Matching
    <3>. QED
      BY <1>1, <1>5, <2>2, <2>3, <3>1
  <2>. QED
    BY <1>1, <1>7, <1>9, <2>2, <2>4, <2>5
<1>. QED
  BY <1>1, <1>7, <1>8, <1>9

\* Without a pivot nothing can enter the heap any more.
LEMMA NoPivot ==
  ASSUME IInv, Pivots = {}, NEW d \in Candidates
  PROVE  ~Open(d)
<1> SUFFICES ASSUME Open(d) PROVE FALSE
  OBVIOUS
<1> DEFINE n == Len(iterators)
<1>1. n \in Nat /\ DOMAIN iterators = 1 .. n /\ CursorsAt(1 .. n) = ToSet(iterators)
  <2>1. n \in Nat /\ DOMAIN iterators = 1 .. n /\ CursorsAt(DOMAIN iterators) = ToSet(iterators)
    BY PositionsFacts DEF IInv
  <2>. QED
    BY <2>1
<1>2. {i \in DOMAIN iterators : Total(BoundOf, i) > theta} = {}
  BY DEF Pivots
<1>3. n # 0 => ~(Total(BoundOf, n) > theta)
  BY <1>1, <1>2
<1>4. n \in 0 .. Len(iterators)
  BY <1>1
<1>. QED
  BY <1>1, <1>3, <1>4, NotEnough

\* At an aligned pivot, the cursors that hold a document up to the next cursor are
\* those up to the pivot, and they are at the document of the pivot.
LEMMA AlignedFacts ==
  ASSUME IInv, NEW p \in Pivots, Aligned(p)
  PROVE  /\ \A i \in 1 .. p : i \in DOMAIN iterators /\ at[iterators[i]] = at[iterators[p]]
         /\ \A d \in Candidates :
              Open(d) /\ (\A i \in (p + 1) .. Len(iterators) : d < at[iterators[i]])
                => \A c \in Holders(lists, d) : c \in CursorsAt(1 .. p)
<1> DEFINE D == DOMAIN iterators
<1>1. /\ Len(iterators) \in Nat /\ D = 1 .. Len(iterators)
      /\ \A i \in D : iterators[i] \in Cursors /\ at[iterators[i]] \in Nat
      /\ \A i, j \in D : i <= j => at[iterators[i]] <= at[iterators[j]]
  BY PositionsFacts DEF IInv
<1>2. p \in D
  BY PivotFacts
<1>3. \A i \in 1 .. p : i \in D /\ 1 \in D /\ 1 <= i /\ i <= p
  BY <1>1, <1>2
<1>4. ASSUME NEW i \in 1 .. p PROVE at[iterators[i]] = at[iterators[p]]
  <2>1. at[iterators[1]] <= at[iterators[i]] /\ at[iterators[i]] <= at[iterators[p]]
    BY <1>1, <1>2, <1>3
  <2>. QED
    BY <1>1, <1>2, <1>3, <2>1 DEF Aligned
<1>5. ASSUME NEW d \in Candidates, Open(d), \A i \in (p + 1) .. Len(iterators) : d < at[iterators[i]],
             NEW c \in Holders(lists, d)
      PROVE  c \in CursorsAt(1 .. p)
  <2>1. c \in ToSet(iterators) /\ at[c] <= d
    BY <1>5 DEF IInv, Ahead
  <2>2. PICK i \in D : c = iterators[i]
    BY <2>1 DEF ToSet
  <2>3. d \in Nat
    BY DEF IInv, InputOK, AreLists, IsList, Candidates, Eligible, Matching
  <2>4. ~(i \in (p + 1) .. Len(iterators))
    BY <1>1, <1>5, <2>1, <2>2, <2>3
  <2>5. i \in 1 .. p
    BY <1>1, <1>2, <2>4
  <2>. QED
    BY <2>2, <2>5 DEF CursorsAt
<1>. QED
  BY <1>3, <1>4, <1>5

-----------------------------------------------------------------------------
(***************************************************************************)
(* What a step does                                                        *)
(***************************************************************************)

\* The first of some positions, as many as they are.
LEMMA FirstPositions ==
  ASSUME NEW n \in Nat, NEW B \in SUBSET (1 .. n), \A j \in B : \A k \in 1 .. n : k < j => k \in B
  PROVE  Cardinality(B) \in 0 .. n /\ B = 1 .. Cardinality(B)
<1>1. \E m \in 0 .. n : B = 1 .. m
  <2>1. CASE B = {}
    <3>1. B = 1 .. 0
      BY <2>1
    <3>. QED
      BY <3>1
  <2>2. CASE B # {}
    <3>1. IsFiniteSet(B) /\ B \subseteq Int
      <4>1. IsFiniteSet(1 .. n)
        BY FS_Interval
      <4>2. IsFiniteSet(B)
        BY <4>1, FS_Subset
      <4>3. B \subseteq Int
        OBVIOUS
      <4>. QED
        BY <4>2, <4>3
    <3>2. PICK m \in B : \A j \in B : j <= m
      BY <2>2, <3>1, LargestMember
    <3>3. m \in 0 .. n /\ B = 1 .. m
      <4>1. m \in 1 .. n
        BY <3>2
      <4>2. \A j \in 1 .. m : j \in 1 .. n /\ (j < m \/ j = m)
        BY <4>1
      <4>3. \A j \in 1 .. m : j \in B
        BY <3>2, <4>2
      <4>4. \A j \in B : j \in 1 .. m
        BY <3>2, <4>1
      <4>5. B = 1 .. m
        BY <4>3, <4>4
      <4>. QED
        BY <4>1, <4>5
    <3>. QED
      BY <3>3
  <2>. QED
    BY <2>1, <2>2
<1>2. PICK m \in 0 .. n : B = 1 .. m
  BY <1>1
<1>3. Cardinality(1 .. m) = m
  BY FS_Interval
<1>. QED
  BY <1>2, <1>3

\* A cursor moves on and the others stay, the sequence stays sorted, and no document
\* of the cursor that is not before least is passed.
LEMMA AdvanceFacts ==
  ASSUME InputOK, CursorsOK, NEW STATE i, i \in DOMAIN iterators, NEW STATE least, least \in Nat,
         lists' = lists, AdvanceTo(i, least)
  PROVE  /\ at' \in [Cursors -> Nat]
         /\ \A x \in Cursors : /\ at'[x] \in DOMAIN lists[x] /\ at'[x] >= at[x]
                               /\ x # iterators[i] => at'[x] = at[x]
         /\ AreDistinct(iterators', Cursors) /\ StaysSorted'
         /\ ToSet(iterators') \subseteq ToSet(iterators)
         /\ ToSet(iterators) \ {iterators[i]} \subseteq ToSet(iterators')
         /\ iterators[i] \in ToSet(iterators') => at'[iterators[i]] > at[iterators[i]]
         /\ \A e \in DOMAIN lists[iterators[i]] :
              e > at[iterators[i]] /\ e >= least =>
                iterators[i] \in ToSet(iterators') /\ at'[iterators[i]] <= e
<1> DEFINE c == iterators[i]
           n == Len(iterators)
           others == RemoveAt(iterators, i)
           onward == Onward(lists[c], at[c], least)
           next == Min(onward)
           behind == {j \in DOMAIN others : j < i \/ at[others[j]] < next}
           m == Cardinality(behind)
<1>1. /\ n \in Nat /\ DOMAIN iterators = 1 .. n /\ i \in 1 .. n /\ AreDistinct(iterators, Cursors)
      /\ \A j \in 1 .. n : iterators[j] \in Cursors /\ at[iterators[j]] \in Nat
      /\ \A j, k \in 1 .. n : j <= k => at[iterators[j]] <= at[iterators[k]]
  BY PositionsFacts DEF CursorsOK
<1>2. c \in Cursors /\ c \in ToSet(iterators) /\ at[c] \in Nat
  BY <1>1 DEF ToSet
<1>3. /\ at \in [Cursors -> Nat] /\ \A x \in Cursors : at[x] \in DOMAIN lists[x] /\ at[x] \in Nat
  BY DEF CursorsOK
<1>4. AreDistinct(others, Cursors) /\ Len(others) = n - 1 /\ ToSet(others) = ToSet(iterators) \ {c}
  <2>1. AreDistinct(iterators, Cursors) /\ i \in DOMAIN iterators
    BY <1>1
  <2>2. /\ AreDistinct(RemoveAt(iterators, i), Cursors)
        /\ Len(RemoveAt(iterators, i)) = Len(iterators) - 1
        /\ ToSet(RemoveAt(iterators, i)) = ToSet(iterators) \ {iterators[i]}
    BY <2>1, RemoveAtFacts
  <2>. QED
    BY <2>2
<1>5. \A j \in 1 .. (n - 1) : others[j] = IF j < i THEN iterators[j] ELSE iterators[j + 1]
  BY <1>1, RemoveAtFacts
<1>6. DOMAIN others = 1 .. (n - 1)
  BY <1>4 DEF AreDistinct
<1> HIDE DEF others
<1>7. \A j, k \in 1 .. (n - 1) : j <= k => at[others[j]] <= at[others[k]]
  <2> SUFFICES ASSUME NEW j \in 1 .. (n - 1), NEW k \in 1 .. (n - 1), j <= k
               PROVE  at[others[j]] <= at[others[k]]
    OBVIOUS
  <2> DEFINE p(x) == IF x < i THEN x ELSE x + 1
  <2>1. p(j) \in 1 .. n /\ p(k) \in 1 .. n /\ p(j) <= p(k)
    BY <1>1
  <2>2. others[j] = iterators[p(j)] /\ others[k] = iterators[p(k)]
    BY <1>5
  <2> HIDE DEF p
  <2>. QED
    BY <1>1, <2>1, <2>2
<1>8. \A j \in 1 .. (n - 1) : others[j] \in Cursors /\ at[others[j]] \in Nat
  BY <1>3, <1>4, <1>6 DEF AreDistinct
<1>9. CASE onward = {}
  <2>1. iterators' = others /\ at' = at
    BY <1>9 DEF AdvanceTo, others
  <2>2. StaysSorted'
    BY <1>1, <1>4, <1>6, <1>7, <2>1 DEF StaysSorted, Sorted
  <2>3. \A e \in DOMAIN lists[c] : ~(e > at[c] /\ e >= least)
    BY <1>9 DEF Onward
  <2>. QED
    BY <1>3, <1>4, <2>1, <2>2, <2>3
<1>10. CASE onward # {}
  <2>1. /\ next \in DOMAIN lists[c] /\ next > at[c] /\ next >= least /\ next \in Nat
        /\ \A e \in DOMAIN lists[c] : e > at[c] /\ e >= least => next <= e
    <3>1. IsList(lists[c])
      BY <1>2 DEF InputOK, AreLists, Cursors
    <3>2. /\ next \in DOMAIN lists[c] /\ next > at[c] /\ next >= least
          /\ \A e \in DOMAIN lists[c] : e > at[c] /\ e >= least => next <= e
      BY <1>2, <1>10, <3>1, OnwardFacts
    <3>. QED
      BY <3>1, <3>2 DEF IsList
  <2>2. /\ at' = [at EXCEPT ![c] = next]
        /\ iterators' = InsertAt(others, m + 1, c)
    BY <1>10 DEF AdvanceTo, others
  <2> HIDE DEF next, onward
  <2>3. m \in 0 .. (n - 1) /\ behind = 1 .. m
    <3>1. behind \in SUBSET (1 .. (n - 1))
      BY <1>6
    <3>2. \A j \in behind : \A k \in 1 .. (n - 1) : k < j => k \in behind
      BY <1>1, <1>6, <1>7, <1>8, <2>1
    <3>3. n - 1 \in Nat
      BY <1>1
    <3> HIDE DEF behind, n
    <3>. QED
      BY <3>1, <3>2, <3>3, FirstPositions
  <2>4. \A j \in 1 .. m : at[others[j]] <= next
    <3> SUFFICES ASSUME NEW j \in 1 .. m, j < i PROVE at[others[j]] <= next
      BY <1>8, <2>1, <2>3
    <3>1. others[j] = iterators[j] /\ at[iterators[j]] <= at[c]
      <4>1. j \in 1 .. (n - 1) /\ j \in 1 .. n /\ i \in 1 .. n /\ j <= i
        BY <1>1, <2>3
      <4>2. others[j] = iterators[j]
        BY <1>5, <4>1
      <4>. QED
        BY <1>1, <4>1, <4>2
    <3>2. at[iterators[j]] \in Nat /\ at[c] \in Nat /\ next \in Nat /\ at[c] < next
      BY <1>1, <1>2, <2>1, <2>3
    <3>. QED
      BY <3>1, <3>2
  <2> DEFINE k == m
  <2>5. k \in 0 .. (n - 1) /\ behind = 1 .. k /\ k = m
    BY <2>3
  <2> HIDE DEF k
  <2>6. \A j \in (k + 1) .. (n - 1) : j \in 1 .. (n - 1) /\ j \notin 1 .. k
    BY <1>1, <2>5
  <2>7. \A j \in (m + 1) .. (n - 1) : next <= at[others[j]]
    <3> SUFFICES ASSUME NEW j \in (m + 1) .. (n - 1) PROVE next <= at[others[j]]
      OBVIOUS
    <3>1. j \in DOMAIN others /\ j \notin behind
      BY <1>6, <2>5, <2>6
    <3>. QED
      BY <1>6, <1>8, <2>1, <3>1
  <2> HIDE DEF m, behind
  <2>8. c \notin ToSet(others)
    BY <1>4
  <2>9. m \in 0 .. Len(others)
    BY <1>4, <2>3
  <2>10. /\ AreDistinct(iterators', Cursors) /\ Len(iterators') = Len(others) + 1
        /\ ToSet(iterators') = ToSet(others) \cup {c}
    <3>1. AreDistinct(others, Cursors) /\ m \in 0 .. Len(others) /\ c \in Cursors /\ c \notin ToSet(others)
      BY <1>2, <1>4, <2>8, <2>9
    <3> HIDE DEF c
    <3>2. /\ AreDistinct(InsertAt(others, m + 1, c), Cursors)
          /\ Len(InsertAt(others, m + 1, c)) = Len(others) + 1
          /\ ToSet(InsertAt(others, m + 1, c)) = ToSet(others) \cup {c}
      BY <3>1, InsertAtFacts
    <3>. QED
      BY <2>2, <3>2, Zenon
  <2>11. \A j \in 1 .. (Len(others) + 1) :
          iterators'[j] = IF j <= m THEN others[j] ELSE IF j = m + 1 THEN c ELSE others[j - 1]
    <3>1. AreDistinct(others, Cursors) /\ m \in 0 .. Len(others) /\ c \in Cursors /\ c \notin ToSet(others)
      BY <1>2, <1>4, <2>8, <2>9
    <3> HIDE DEF c
    <3>2. \A j \in 1 .. (Len(others) + 1) :
            InsertAt(others, m + 1, c)[j] =
              IF j <= m THEN others[j] ELSE IF j = m + 1 THEN c ELSE others[j - 1]
      BY <3>1, InsertAtFacts
    <3>. QED
      BY <2>2, <3>2, Zenon
  <2>12. /\ at' \in [Cursors -> Nat] /\ at'[c] = next
         /\ \A x \in Cursors : x # c => at'[x] = at[x]
    BY <1>2, <1>3, <2>1, <2>2
  <2>13. \A j \in 1 .. (n - 1) : at'[others[j]] = at[others[j]]
    BY <1>6, <1>8, <2>8, <2>12 DEF ToSet
  <2>14. StaysSorted'
    <3> DEFINE new == iterators'
               pos == at'
    <3>1. \A j \in 1 .. n : pos[new[j]] = IF j <= m THEN at[others[j]]
                                         ELSE IF j = m + 1 THEN next ELSE at[others[j - 1]]
      <4> SUFFICES ASSUME NEW j \in 1 .. n
                   PROVE  pos[new[j]] = IF j <= m THEN at[others[j]]
                                        ELSE IF j = m + 1 THEN next ELSE at[others[j - 1]]
        OBVIOUS
      <4>1. j \in 1 .. (Len(others) + 1)
        BY <1>1, <1>4
      <4>2. CASE j <= m
        <5>1. new[j] = others[j] /\ j \in 1 .. (n - 1)
          BY <2>3, <2>11, <4>1, <4>2
        <5>. QED
          BY <2>13, <4>2, <5>1
      <4>3. CASE j = m + 1
        <5>1. new[j] = c /\ ~(j <= m)
          BY <2>3, <2>11, <4>1, <4>3
        <5>. QED
          BY <2>12, <4>3, <5>1
      <4>4. CASE ~(j <= m) /\ j # m + 1
        <5>1. new[j] = others[j - 1] /\ j - 1 \in 1 .. (n - 1)
          BY <1>1, <2>3, <2>11, <4>1, <4>4
        <5>. QED
          BY <2>13, <4>4, <5>1
      <4>. QED
        BY <4>2, <4>3, <4>4
    <3>2. Len(new) = n
      BY <1>1, <1>4, <2>10
    <3> HIDE DEF new, pos, n
    <3>3. ASSUME NEW j \in 2 .. n PROVE pos[new[j - 1]] <= pos[new[j]]
      <4>1. j \in 1 .. n /\ j - 1 \in 1 .. n
        BY <1>1, <3>3
      <4>2. CASE j <= m
        <5>1. /\ pos[new[j]] = at[others[j]] /\ pos[new[j - 1]] = at[others[j - 1]]
              /\ j \in 1 .. (n - 1) /\ j - 1 \in 1 .. (n - 1) /\ j - 1 <= j
          BY <1>1, <2>3, <3>1, <3>3, <4>1, <4>2
        <5>. QED
          BY <1>7, <5>1
      <4>3. CASE j = m + 1
        <5>1. pos[new[j]] = next /\ pos[new[j - 1]] = at[others[j - 1]] /\ j - 1 \in 1 .. m
          BY <1>1, <2>3, <3>1, <3>3, <4>1, <4>3
        <5>. QED
          BY <2>4, <5>1
      <4>4. CASE j = m + 2
        <5>1. /\ pos[new[j]] = at[others[j - 1]] /\ pos[new[j - 1]] = next
              /\ j - 1 \in (m + 1) .. (n - 1)
          BY <1>1, <2>3, <3>1, <3>3, <4>1, <4>4
        <5>. QED
          BY <2>7, <5>1
      <4>5. CASE j > m + 2
        <5>1. /\ pos[new[j]] = at[others[j - 1]] /\ pos[new[j - 1]] = at[others[(j - 1) - 1]]
              /\ j - 1 \in 1 .. (n - 1) /\ (j - 1) - 1 \in 1 .. (n - 1) /\ (j - 1) - 1 <= j - 1
          BY <1>1, <2>3, <3>1, <3>3, <4>1, <4>5
        <5>. QED
          BY <1>7, <5>1
      <4>. QED
        BY <2>3, <3>3, <4>2, <4>3, <4>4, <4>5
    <3>. QED
      BY <3>2, <3>3 DEF StaysSorted, Sorted, new, pos
  <2>15. \A x \in Cursors : /\ at'[x] \in DOMAIN lists[x] /\ at'[x] >= at[x]
                            /\ x # c => at'[x] = at[x]
    BY <1>2, <1>3, <2>1, <2>12
  <2>16. \A e \in DOMAIN lists[c] : e > at[c] /\ e >= least => at'[c] <= e
    BY <2>1, <2>12
  <2>. QED
    BY <1>2, <1>4, <2>1, <2>10, <2>12, <2>14, <2>15, <2>16
<1>. QED
  BY <1>9, <1>10

\* An iteration that moves a cursor leaves less to read.
Advances == curDoc' = curDoc /\ Left \in Nat /\ Left' \in Nat /\ Left' < Left

\* One cursor moves, not past what it holds that can still enter the heap.
LEMMA AdvanceKeeps ==
  ASSUME IInv, NEW STATE i, i \in DOMAIN iterators, NEW STATE least, least \in Nat,
         AdvanceTo(i, least), UNCHANGED <<input, curDoc, theta, heap, answered, answer>>,
         \A d \in Candidates :
           Open(d) /\ iterators[i] \in Holders(lists, d) => d > at[iterators[i]] /\ d >= least
  PROVE  IInv' /\ Advances
<1> DEFINE c == iterators[i]
<1>1. /\ lists' = lists /\ filter' = filter /\ accepted' = accepted /\ topK' = topK
      /\ minScore' = minScore /\ curDoc' = curDoc /\ theta' = theta /\ heap' = heap
      /\ answered' = answered /\ answer' = answer
  BY DEF input
<1>2. Cursors' = Cursors /\ Candidates' = Candidates
  BY <1>1 DEF Cursors, Candidates
<1>3. InputOK /\ CursorsOK
  BY DEF IInv
<1>4. /\ at' \in [Cursors -> Nat]
      /\ \A x \in Cursors : at'[x] \in DOMAIN lists[x] /\ at'[x] >= at[x] /\ (x # c => at'[x] = at[x])
      /\ AreDistinct(iterators', Cursors) /\ StaysSorted'
      /\ ToSet(iterators') \subseteq ToSet(iterators)
      /\ ToSet(iterators) \ {c} \subseteq ToSet(iterators')
      /\ c \in ToSet(iterators') => at'[c] > at[c]
      /\ \A e \in DOMAIN lists[c] :
           e > at[c] /\ e >= least => c \in ToSet(iterators') /\ at'[c] <= e
  BY <1>1, <1>3, AdvanceFacts
<1>5. InputOK' /\ AnswerOK'
  BY <1>1, <1>2 DEF IInv, InputOK, AnswerOK
<1>6. CursorsOK'
  BY <1>1, <1>2, <1>3, <1>4 DEF CursorsOK
<1>7. HeapOK'
  BY <1>1, <1>2 DEF IInv, HeapOK
<1>8. Ahead'
  <2> SUFFICES ASSUME NEW d \in Candidates, Open(d)
               PROVE  /\ d > curDoc
                      /\ \A x \in Holders(lists, d) : x \in ToSet(iterators') /\ at'[x] <= d
    BY <1>1, <1>2 DEF Ahead, Open
  <2>1. /\ d > curDoc
        /\ \A x \in Holders(lists, d) : x \in ToSet(iterators) /\ x \in Cursors /\ at[x] <= d
    BY <1>3 DEF IInv, Ahead, Holders, Cursors
  <2>2. ASSUME NEW x \in Holders(lists, d), x # c PROVE x \in ToSet(iterators') /\ at'[x] <= d
    BY <1>4, <2>1, <2>2
  <2>3. ASSUME c \in Holders(lists, d) PROVE c \in ToSet(iterators') /\ at'[c] <= d
    <3>1. d \in DOMAIN lists[c] /\ d > at[c] /\ d >= least
      BY <2>3 DEF Holders
    <3>. QED
      BY <1>4, <3>1
  <2>. QED
    BY <2>1, <2>2, <2>3
<1>9. Advances
  <2> DEFINE S == ToSet(iterators)
             T == ToSet(iterators')
             bt == at'
  <2>1. S \in SUBSET DOMAIN lists /\ T \in SUBSET S /\ AreLists(lists)
    <3>1. S \subseteq Cursors
      BY <1>3, FiniteMembers DEF CursorsOK, AreDistinct
    <3>. QED
      BY <1>3, <1>4, <3>1 DEF InputOK, Cursors
  <2>2. \A x \in S : at[x] \in DOMAIN lists[x]
    BY <1>3, <2>1 DEF CursorsOK, Cursors
  <2>3. \A x \in T : bt[x] \in DOMAIN lists[x] /\ bt[x] >= at[x]
    BY <1>4, <2>1 DEF Cursors
  <2>4. c \in S /\ (c \in T => bt[c] > at[c])
    BY <1>4 DEF ToSet
  <2>5. Left = SumOver(ToRead(lists, at), S) /\ Left' = SumOver(ToRead(lists, bt), T)
    BY <1>1 DEF Left
  <2> HIDE DEF S, T, bt, c
  <2>6. /\ SumOver(ToRead(lists, at), S) \in Nat /\ SumOver(ToRead(lists, bt), T) \in Nat
        /\ SumOver(ToRead(lists, bt), T) < SumOver(ToRead(lists, at), S)
    BY <2>1, <2>2, <2>3, <2>4, LessToRead
  <2>. QED
    BY <1>1, <2>5, <2>6 DEF Advances
<1>. QED
  BY <1>5, <1>6, <1>7, <1>8, <1>9 DEF IInv

\* find_pivot_term moves the first cursor to the pivot, or past the last candidate.
LEMMA AdvanceFirstKeeps ==
  ASSUME IInv, AdvanceFirst
  PROVE  IInv' /\ Advances
<1>1. PICK p \in Pivots : (Considered(p) \/ ~Aligned(p)) /\ AdvanceTo(1, at[iterators[p]])
  BY DEF AdvanceFirst
<1>2. /\ Len(iterators) \in Nat /\ DOMAIN iterators = 1 .. Len(iterators) /\ p \in DOMAIN iterators
      /\ \A i \in DOMAIN iterators : iterators[i] \in Cursors /\ at[iterators[i]] \in Nat
      /\ \A i, j \in DOMAIN iterators : i <= j => at[iterators[i]] <= at[iterators[j]]
  BY PositionsFacts, PivotFacts DEF IInv
<1>3. 1 \in DOMAIN iterators /\ at[iterators[1]] <= at[iterators[p]]
  BY <1>2
<1>4. ASSUME NEW d \in Candidates, Open(d)
      PROVE  d > at[iterators[1]] /\ d >= at[iterators[p]]
  <2>1. d >= at[iterators[p]] /\ d > curDoc /\ d \in Nat /\ curDoc \in Int
    <3>1. d \in Nat
      BY DEF IInv, InputOK, AreLists, IsList, Candidates, Eligible, Matching
    <3>2. d >= at[iterators[p]]
      BY <1>4, PivotFacts
    <3>. QED
      BY <1>4, <3>1, <3>2 DEF IInv, Ahead, CursorsOK
  <2>2. CASE at[iterators[p]] <= curDoc
    BY <1>2, <1>3, <2>1, <2>2
  <2>3. CASE at[iterators[1]] # at[iterators[p]]
    BY <1>2, <1>3, <2>1, <2>3
  <2>. QED
    BY <1>1, <2>1, <2>2, <2>3 DEF Considered, Aligned
<1> DEFINE i == 1
           least == at[iterators[p]]
<1>5. AdvanceTo(i, least) /\ i \in DOMAIN iterators /\ least \in Nat
  BY <1>1, <1>2, <1>3
<1>6. \A d \in Candidates :
        Open(d) /\ iterators[i] \in Holders(lists, d) => d > at[iterators[i]] /\ d >= least
  BY <1>4
<1>7. UNCHANGED <<input, curDoc, theta, heap, answered, answer>>
  BY DEF AdvanceFirst
<1> HIDE DEF i, least
<1>. QED
  BY <1>5, <1>6, <1>7, AdvanceKeeps

\* What can still enter the heap is not in the blocks a bound rules out.
LEMMA PruneSkips ==
  ASSUME IInv, NEW p \in Pivots, Aligned(p), Total(BlockBoundOf, p) <= theta
  PROVE  /\ SkipTo(p) \in Nat /\ SkipTo(p) > at[iterators[p]]
         /\ \A d \in Candidates : Open(d) => d >= SkipTo(p)
<1> DEFINE n == Len(iterators)
           pivot == at[iterators[p]]
           end(i) == MaxBlockDocId(lists[iterators[i]], at[iterators[i]])
           ends == {end(i) : i \in 1 .. p}
           after == {at[iterators[i]] : i \in (p + 1) .. n}
           all == {Min(ends) + 1} \cup after
<1>1. /\ n \in Nat /\ DOMAIN iterators = 1 .. n /\ p \in 1 .. n
      /\ \A i \in 1 .. n : iterators[i] \in Cursors /\ at[iterators[i]] \in Nat
  BY PositionsFacts, PivotFacts DEF IInv
<1>2. /\ \A i \in 1 .. p : i \in 1 .. n /\ at[iterators[i]] = pivot
      /\ \A d \in Candidates : Open(d) /\ (\A i \in (p + 1) .. n : d < at[iterators[i]])
           => \A c \in Holders(lists, d) : c \in CursorsAt(1 .. p)
  BY <1>1, AlignedFacts
<1>3. \A i \in 1 .. p : end(i) \in Nat
  <2> SUFFICES ASSUME NEW i \in 1 .. p PROVE end(i) \in Nat
    OBVIOUS
  <2>1. iterators[i] \in Cursors /\ InputOK /\ CursorsOK
    BY <1>1, <1>2 DEF IInv
  <2>. QED
    BY <2>1, BlockBoundsFacts
<1>4. Min(ends) \in Nat /\ \A i \in 1 .. p : Min(ends) <= end(i)
  <2> DEFINE f == [i \in 1 .. p |-> end(i)]
  <2>1. IsFiniteSet(1 .. p)
    BY <1>1, FS_Interval
  <2>2. IsFiniteSet({f[i] : i \in 1 .. p})
    <3> HIDE DEF f
    <3>. QED
      BY <2>1, FiniteValues
  <2>3. ends = {f[i] : i \in 1 .. p}
    OBVIOUS
  <2>4. IsFiniteSet(ends)
    BY <2>2, <2>3
  <2>5. ends \subseteq Int /\ ends \subseteq Nat
    BY <1>3
  <2>6. \A i \in 1 .. p : end(i) \in ends
    OBVIOUS
  <2>7. 1 \in 1 .. p
    BY <1>1
  <2> HIDE DEF ends, end
  <2>8. Min(ends) \in ends /\ \A x \in ends : Min(ends) <= x
    BY <2>4, <2>5, <2>6, <2>7, SmallestMember
  <2>. QED
    BY <2>5, <2>6, <2>8
<1> HIDE DEF end, ends
<1>5. Min(all) \in Nat /\ \A x \in all : Min(all) <= x
  <2> DEFINE f == [i \in (p + 1) .. n |-> at[iterators[i]]]
  <2>1. IsFiniteSet((p + 1) .. n)
    BY <1>1, FS_Interval
  <2>2. IsFiniteSet({f[i] : i \in (p + 1) .. n})
    <3> HIDE DEF f
    <3>. QED
      BY <2>1, FiniteValues
  <2>3. after = {f[i] : i \in (p + 1) .. n}
    OBVIOUS
  <2>4. IsFiniteSet(after)
    BY <2>2, <2>3
  <2>5. \A i \in (p + 1) .. n : at[iterators[i]] \in Nat
    BY <1>1
  <2>6. after \subseteq Nat
    BY <2>5
  <2> HIDE DEF after
  <2>7. IsFiniteSet({Min(ends) + 1})
    BY FS_Singleton
  <2>8. IsFiniteSet(all)
    BY <2>4, <2>7, FS_Union
  <2>9. all \subseteq Nat /\ all \subseteq Int /\ all # {}
    <3>1. Min(ends) + 1 \in Nat
      BY <1>4
    <3>2. {Min(ends) + 1} \subseteq Nat /\ {Min(ends) + 1} # {}
      BY <3>1
    <3>3. all \subseteq Nat /\ all # {}
      BY <2>6, <3>2, Zenon
    <3> HIDE DEF all
    <3>. QED
      BY <3>3
  <2> HIDE DEF all
  <2>10. Min(all) \in all /\ \A x \in all : Min(all) <= x
    BY <2>8, <2>9, SmallestMember
  <2>. QED
    BY <2>9, <2>10
<1>6. Min(all) <= Min(ends) + 1 /\ \A i \in (p + 1) .. n : Min(all) <= at[iterators[i]]
  BY <1>5
<1> HIDE DEF all
<1>7. /\ SkipTo(p) \in {pivot + 1, Min(all)} /\ pivot + 1 <= SkipTo(p) /\ Min(all) <= SkipTo(p)
  <2> DEFINE both == {pivot + 1, Min(all)}
  <2>1. IsFiniteSet(both)
    <3>1. IsFiniteSet({pivot + 1}) /\ IsFiniteSet({Min(all)})
      BY FS_Singleton
    <3>2. IsFiniteSet({pivot + 1} \cup {Min(all)})
      BY <3>1, FS_Union, Zenon
    <3>3. both = {pivot + 1} \cup {Min(all)}
      OBVIOUS
    <3>. QED
      BY <3>2, <3>3
  <2>2. both \subseteq Int /\ both # {}
    BY <1>1, <1>5
  <2>3. SkipTo(p) = Max(both)
    BY DEF SkipTo, ends, end, all
  <2>4. pivot + 1 \in both /\ Min(all) \in both
    OBVIOUS
  <2> HIDE DEF both
  <2>5. Max(both) \in both /\ \A x \in both : x <= Max(both)
    BY <2>1, <2>2, LargestMember
  <2>. QED
    BY <2>3, <2>4, <2>5 DEF both
<1>8. SkipTo(p) \in Nat /\ SkipTo(p) > pivot
  BY <1>1, <1>5, <1>7
<1>9. ASSUME NEW d \in Candidates, Open(d), ~(d >= SkipTo(p)) PROVE FALSE
  <2>1. d \in Nat /\ d >= pivot
    <3>1. d \in Nat
      BY DEF IInv, InputOK, AreLists, IsList, Candidates, Eligible, Matching
    <3>. QED
      BY <1>9, <3>1, PivotFacts
  <2>2. d = pivot \/ d < Min(all)
    BY <1>1, <1>5, <1>7, <2>1, <1>9
  <2>3. \A i \in (p + 1) .. n : d < at[iterators[i]]
    <3> SUFFICES ASSUME NEW i \in (p + 1) .. n PROVE d < at[iterators[i]]
      OBVIOUS
    <3>1. i \in DOMAIN iterators /\ ~(i <= p) /\ at[iterators[i]] \in Nat
      BY <1>1
    <3>2. at[iterators[i]] > pivot
      BY <3>1, PivotFacts
    <3>. QED
      BY <1>1, <1>5, <1>6, <2>1, <2>2, <3>1, <3>2
  <2>4. \A c \in Holders(lists, d) : c \in CursorsAt(1 .. p)
    BY <1>2, <1>9, <2>3
  <2>5. ASSUME NEW c \in Holders(lists, d) PROVE lists[c][d] <= BlockBoundOf[c]
    <3>1. PICK i \in 1 .. p : c = iterators[i]
      BY <2>4 DEF CursorsAt
    <3>2. at[c] = pivot /\ c \in Cursors /\ d \in DOMAIN lists[c]
      BY <1>1, <1>2, <3>1 DEF Holders
    <3>3. InputOK /\ CursorsOK
      BY DEF IInv
    <3>4. pivot <= MaxBlockDocId(lists[c], pivot) /\ MaxBlockDocId(lists[c], pivot) \in Nat
      BY <3>2, <3>3, BlockBoundsFacts
    <3>5. MaxBlockDocId(lists[c], pivot) = end(i)
      BY <3>1, <3>2 DEF end
    <3>6. d <= MaxBlockDocId(lists[c], at[c])
      <4>1. CASE d = pivot
        BY <3>2, <3>4, <4>1
      <4>2. CASE d < Min(all)
        <5>1. d < Min(ends) + 1 /\ Min(ends) <= end(i)
          BY <1>4, <1>5, <1>6, <2>1, <3>1, <4>2
        <5>. QED
          BY <1>3, <1>4, <2>1, <3>1, <3>2, <3>5, <5>1
      <4>. QED
        BY <2>2, <4>1, <4>2
    <3>. QED
      BY <1>1, <2>1, <3>2, <3>3, <3>6, BlockBoundsFacts
  <2>6. Score(lists, d) <= Total(BlockBoundOf, p) /\ Total(BlockBoundOf, p) \in Nat
    <3>1. InputOK /\ CursorsOK /\ p \in 0 .. Len(iterators)
      BY <1>1 DEF IInv
    <3>2. \A c \in Cursors : BlockBoundOf[c] \in Nat
      BY <3>1, BlockBoundsFacts
    <3>. QED
      BY <2>4, <2>5, <3>1, <3>2, ScoreBelowTotal
  <2>7. theta \in Nat /\ Score(lists, d) \in Nat /\ Score(lists, d) > theta
    <3>1. theta \in Nat
      BY ThetaFacts DEF IInv
    <3>. QED
      BY <1>9, <3>1, ScoreType DEF IInv, InputOK, Open
  <2>. QED
    BY <2>6, <2>7
<1>. QED
  BY <1>8, <1>9

\* The costliest of the first cursors is one of them.
LEMMA CostliestFacts ==
  ASSUME InputOK, CursorsOK, NEW p \in DOMAIN iterators
  PROVE  Costliest(p) \in 1 .. p /\ Costliest(p) \in DOMAIN iterators
<1> DEFINE f == [i \in 1 .. p |-> BoundOf[iterators[i]]]
           all == {f[i] : i \in 1 .. p}
           best == {i \in 1 .. p : \A j \in 1 .. p : BoundOf[iterators[j]] <= BoundOf[iterators[i]]}
<1>1. /\ Len(iterators) \in Nat /\ DOMAIN iterators = 1 .. Len(iterators) /\ p \in 1 .. Len(iterators)
      /\ \A i \in DOMAIN iterators : iterators[i] \in Cursors
  BY PositionsFacts
<1>2. \A i \in 1 .. p : i \in DOMAIN iterators /\ f[i] = BoundOf[iterators[i]] /\ f[i] \in Nat
  <2>1. \A i \in 1 .. p : i \in DOMAIN iterators
    BY <1>1
  <2>. QED
    BY <1>1, <2>1, BoundsFacts
<1>3. IsFiniteSet(1 .. p)
  BY <1>1, FS_Interval
<1>4. Max(all) \in all /\ \A x \in all : x <= Max(all)
  <2> HIDE DEF f
  <2>1. IsFiniteSet(all)
    BY <1>3, FiniteValues
  <2>2. all \subseteq Int /\ all # {}
    BY <1>1, <1>2
  <2> HIDE DEF all
  <2>. QED
    BY <2>1, <2>2, LargestMember
<1>5. best # {}
  BY <1>2, <1>4
<1>6. Max(best) \in best
  <2>1. IsFiniteSet(best)
    BY <1>3, FS_Subset
  <2>2. best \subseteq Int
    OBVIOUS
  <2> HIDE DEF best
  <2>. QED
    BY <1>5, <2>1, <2>2, LargestMember
<1>7. Costliest(p) = Max(best)
  BY DEF Costliest
<1> HIDE DEF f
<1>. QED
  BY <1>2, <1>6, <1>7

\* The blocks at the pivot are skipped.
LEMMA PruneKeeps ==
  ASSUME IInv, PruneBlocks
  PROVE  IInv' /\ Advances
<1>1. PICK p \in Pivots : /\ ~Considered(p) /\ Aligned(p) /\ Total(BlockBoundOf, p) <= theta
                          /\ AdvanceTo(Costliest(p), SkipTo(p))
  BY DEF PruneBlocks
<1> DEFINE i == Costliest(p)
           least == SkipTo(p)
<1>2. p \in DOMAIN iterators /\ InputOK /\ CursorsOK
  BY PivotFacts DEF IInv
<1>3. i \in 1 .. p /\ i \in DOMAIN iterators
  BY <1>2, CostliestFacts
<1>4. at[iterators[i]] = at[iterators[p]] /\ at[iterators[i]] \in Nat
  BY <1>1, <1>2, <1>3, AlignedFacts, PositionsFacts
<1>5. /\ least \in Nat /\ least > at[iterators[p]]
      /\ \A d \in Candidates : Open(d) => d >= least
  BY <1>1, PruneSkips
<1>6. \A d \in Candidates :
        Open(d) /\ iterators[i] \in Holders(lists, d) => d > at[iterators[i]] /\ d >= least
  <2> SUFFICES ASSUME NEW d \in Candidates, Open(d) PROVE d > at[iterators[i]] /\ d >= least
    OBVIOUS
  <2>1. d \in Nat
    BY DEF IInv, InputOK, AreLists, IsList, Candidates, Eligible, Matching
  <2> HIDE DEF i, least
  <2>. QED
    BY <1>4, <1>5, <2>1
<1>7. UNCHANGED <<input, curDoc, theta, heap, answered, answer>> /\ AdvanceTo(i, least)
  BY <1>1 DEF PruneBlocks
<1> HIDE DEF i, least
<1>. QED
  BY <1>3, <1>5, <1>6, <1>7, AdvanceKeeps

\* An iteration that finds a candidate makes the document of the first cursor the
\* last candidate.
Considers ==
  /\ UNCHANGED <<at, iterators>> /\ iterators # <<>>
  /\ curDoc < at[iterators[1]] /\ at[iterators[1]] = curDoc'

\* A candidate comes after the last one, and nothing before it can enter the heap.
LEMMA CandidateFacts ==
  ASSUME IInv, NEW p \in Pivots, IsCandidate(p)
  PROVE  /\ at[iterators[p]] \in Nat /\ at[iterators[p]] > curDoc /\ p \in DOMAIN iterators
         /\ at[iterators[p]] \in Matching(lists) /\ Aligned(p)
         /\ Accept(filter, at[iterators[p]]) <=> at[iterators[p]] \in Candidates
         /\ at[iterators[p]] \notin Docids(heap)
         /\ iterators # <<>> /\ at[iterators[1]] = at[iterators[p]]
         /\ \A d \in Candidates : Open(d) => d \in Nat /\ d >= at[iterators[p]]
<1> DEFINE pivot == at[iterators[p]]
<1>1. /\ Len(iterators) \in Nat /\ DOMAIN iterators = 1 .. Len(iterators) /\ p \in DOMAIN iterators
      /\ iterators[p] \in Cursors /\ pivot \in Nat
  BY PositionsFacts, PivotFacts DEF IInv
<1>2. ~(pivot <= curDoc) /\ Aligned(p)
  BY DEF IsCandidate, Considered
<1>3. curDoc \in Int
  BY DEF IInv, CursorsOK
<1>4. pivot \in Matching(lists)
  BY <1>1 DEF IInv, CursorsOK, Matching, Cursors
<1>5. Accept(filter, pivot) <=> pivot \in Candidates
  BY <1>4 DEF IInv, InputOK, IsFilter, Accept, Candidates, Eligible
<1>6. pivot \notin Docids(heap)
  <2>1. \A h \in heap : h.docid <= curDoc
    BY DEF IInv, HeapOK
  <2>. QED
    BY <1>1, <1>2, <1>3, <2>1 DEF Docids
<1>7. ASSUME NEW d \in Candidates, Open(d) PROVE d \in Nat /\ d >= pivot
  <2>1. d \in Nat
    BY DEF IInv, InputOK, AreLists, IsList, Candidates, Eligible, Matching
  <2>. QED
    BY <1>7, <2>1, PivotFacts
<1>8. at[iterators[1]] = pivot
  BY <1>2 DEF Aligned
<1>9. iterators # <<>>
  BY <1>1
<1>. QED
  BY <1>1, <1>2, <1>3, <1>4, <1>5, <1>6, <1>7, <1>8, <1>9

\* A candidate the filter refuses.
LEMMA RejectKeeps ==
  ASSUME IInv, Reject
  PROVE  IInv' /\ Considers
<1>1. PICK p \in Pivots : /\ IsCandidate(p) /\ ~Accept(filter, at[iterators[p]])
                          /\ curDoc' = at[iterators[p]]
  BY DEF Reject
<1> DEFINE pivot == at[iterators[p]]
<1>2. /\ lists' = lists /\ filter' = filter /\ accepted' = accepted /\ topK' = topK
      /\ minScore' = minScore /\ theta' = theta /\ heap' = heap /\ at' = at
      /\ iterators' = iterators /\ answered' = answered /\ answer' = answer
  BY DEF Reject, input
<1>3. Cursors' = Cursors /\ Candidates' = Candidates
  BY <1>2 DEF Cursors, Candidates
<1>4. /\ pivot \in Nat /\ pivot > curDoc /\ pivot \notin Candidates
      /\ iterators # <<>> /\ at[iterators[1]] = pivot
      /\ \A d \in Candidates : Open(d) => d \in Nat /\ d >= pivot
  BY <1>1, CandidateFacts
<1>5. curDoc \in Int /\ curDoc' = pivot
  BY <1>1 DEF IInv, CursorsOK
<1> HIDE DEF pivot
<1>6. InputOK' /\ AnswerOK'
  BY <1>2, <1>3 DEF IInv, InputOK, AnswerOK
<1>7. CursorsOK'
  BY <1>2, <1>3, <1>4, <1>5 DEF IInv, CursorsOK, StaysSorted
<1>8. HeapOK'
  <2>1. \A h \in heap : h.docid <= curDoc /\ h.docid \in Nat
    <3>1. \A h \in heap : h.docid \in Candidates /\ h.docid <= curDoc
      BY DEF IInv, HeapOK, IsHeap
    <3>2. Candidates \subseteq Nat
      BY DEF IInv, InputOK, AreLists, IsList, Candidates, Eligible, Matching
    <3>. QED
      BY <3>1, <3>2
  <2>2. \A h \in heap : h.docid <= curDoc'
    BY <1>4, <1>5, <2>1
  <2>. QED
    BY <1>2, <1>3, <2>2 DEF IInv, HeapOK
<1>9. Ahead'
  <2>1. ASSUME NEW d \in Candidates, Open(d) PROVE d > curDoc'
    BY <1>4, <1>5, <2>1
  <2>. QED
    BY <1>2, <1>3, <2>1 DEF IInv, Ahead, Open
<1>10. Considers
  BY <1>2, <1>4, <1>5 DEF Considers
<1>. QED
  BY <1>6, <1>7, <1>8, <1>9, <1>10 DEF IInv

\* What the cursors at a candidate add up to is its score, if it can still enter the
\* heap; it cannot when it is dominated.
LEMMA ScoredFacts ==
  ASSUME IInv, NEW p \in Pivots, IsCandidate(p)
  PROVE  /\ Total(ValueOf, p) \in Nat
         /\ Total(ValueOf, p) <= Score(lists, at[iterators[p]])
         /\ Open(at[iterators[p]]) => Total(ValueOf, p) = Score(lists, at[iterators[p]])
         /\ Dominated(p) => ~Open(at[iterators[p]])
         /\ ~Dominated(p) => Total(ValueOf, p) > theta
<1> DEFINE pivot == at[iterators[p]]
           H == Holders(lists, pivot)
           K == CursorsAt(1 .. p)
<1>1. /\ Len(iterators) \in Nat /\ DOMAIN iterators = 1 .. Len(iterators) /\ p \in 1 .. Len(iterators)
      /\ \A i \in DOMAIN iterators : iterators[i] \in Cursors /\ at[iterators[i]] \in Nat
      /\ InputOK /\ CursorsOK /\ Aligned(p) /\ pivot \in Nat
  BY PositionsFacts, CandidateFacts DEF IInv
<1>2. /\ \A i \in 1 .. p : i \in DOMAIN iterators /\ at[iterators[i]] = pivot
      /\ \A d \in Candidates :
              Open(d) /\ (\A i \in (p + 1) .. Len(iterators) : d < at[iterators[i]])
                => \A c \in Holders(lists, d) : c \in K
  BY <1>1, AlignedFacts
<1>3. \A n \in 0 .. p : IsFiniteSet(CursorsAt(1 .. n)) /\ CursorsAt(1 .. n) \subseteq K
  <2> SUFFICES ASSUME NEW n \in 0 .. p
               PROVE  IsFiniteSet(CursorsAt(1 .. n)) /\ CursorsAt(1 .. n) \subseteq K
    OBVIOUS
  <2>1. \A i \in 1 .. n : i \in 1 .. p
    BY <1>1
  <2>2. 1 .. n \in SUBSET DOMAIN iterators
    BY <1>2, <2>1
  <2>3. IsFiniteSet(CursorsAt(1 .. n))
    BY <1>1, <2>2, PositionsFacts
  <2>. QED
    BY <2>1, <2>3 DEF CursorsAt
<1>4. IsFiniteSet(K) /\ K \subseteq Cursors /\ \A c \in K : at[c] = pivot
  <2>1. IsFiniteSet(K)
    BY <1>1, <1>3
  <2>. QED
    BY <1>1, <1>2, <2>1 DEF CursorsAt
<1>5. AreLists(lists) /\ H \subseteq Cursors /\ IsFiniteSet(H)
      /\ \A c \in H : ValuesAt(lists, pivot)[c] = lists[c][pivot] /\ lists[c][pivot] \in Nat
  <2>1. AreLists(lists)
    BY <1>1 DEF InputOK
  <2>. QED
    BY <2>1, ScoreType DEF Cursors
<1>6. K \subseteq H
  BY <1>1, <1>4 DEF CursorsOK, Holders, Cursors
<1>7. \A c \in K : /\ ValueOf[c] = lists[c][pivot] /\ ValueOf[c] \in Nat
                   /\ BlockBoundOf[c] \in Nat /\ ValueOf[c] <= BlockBoundOf[c]
  <2> SUFFICES ASSUME NEW c \in K
               PROVE  /\ ValueOf[c] = lists[c][pivot] /\ ValueOf[c] \in Nat
                      /\ BlockBoundOf[c] \in Nat /\ ValueOf[c] <= BlockBoundOf[c]
    OBVIOUS
  <2>1. c \in Cursors /\ at[c] = pivot /\ c \in H
    BY <1>4, <1>6
  <2>2. ValueOf[c] = lists[c][pivot] /\ ValueOf[c] \in Nat
    BY <1>5, <2>1 DEF ValueOf
  <2>3. /\ BlockBoundOf[c] \in Nat
        /\ MaxBlockDocId(lists[c], at[c]) \in Nat /\ at[c] <= MaxBlockDocId(lists[c], at[c])
        /\ \A d \in DOMAIN lists[c] :
              at[c] <= d /\ d <= MaxBlockDocId(lists[c], at[c]) => lists[c][d] <= BlockBoundOf[c]
    BY <1>1, <2>1, BlockBoundsFacts
  <2>4. pivot \in DOMAIN lists[c] /\ pivot <= pivot
    BY <1>1, <2>1 DEF Holders
  <2>. QED
    BY <2>1, <2>2, <2>3, <2>4
<1>8. \A n \in 0 .. p : /\ Total(ValueOf, n) = SumOver(ValueOf, CursorsAt(1 .. n))
                        /\ Total(BlockBoundOf, n) = SumOver(BlockBoundOf, CursorsAt(1 .. n))
  BY DEF Total, CursorsAt
<1>9. Total(ValueOf, p) = SumOver(ValuesAt(lists, pivot), K) /\ Total(ValueOf, p) \in Nat
  <2>1. p \in 0 .. p
    BY <1>1
  <2>2. \A c \in K : ValueOf[c] \in Nat /\ ValueOf[c] = ValuesAt(lists, pivot)[c]
    BY <1>5, <1>6, <1>7
  <2> HIDE DEF K, pivot, H
  <2>3. SumOver(ValueOf, K) = SumOver(ValuesAt(lists, pivot), K)
    BY <1>4, <2>2, SumSame
  <2>4. SumOver(ValueOf, K) \in Nat
    BY <1>4, <2>2, SumType
  <2>. QED
    BY <1>8, <2>1, <2>3, <2>4 DEF K
<1>10. Total(ValueOf, p) <= Score(lists, pivot)
  <2>1. \A c \in H : ValuesAt(lists, pivot)[c] \in Nat
    BY <1>5
  <2>2. Score(lists, pivot) = SumOver(ValuesAt(lists, pivot), H)
    BY DEF Score
  <2> HIDE DEF K, H, pivot
  <2>3. SumOver(ValuesAt(lists, pivot), K) <= SumOver(ValuesAt(lists, pivot), H)
    BY <1>5, <1>6, <2>1, SumPart
  <2>. QED
    BY <1>9, <2>2, <2>3
<1>11. ASSUME Open(pivot) PROVE Total(ValueOf, p) = Score(lists, pivot)
  <2>1. \A i \in (p + 1) .. Len(iterators) : pivot < at[iterators[i]]
    <3> SUFFICES ASSUME NEW i \in (p + 1) .. Len(iterators) PROVE pivot < at[iterators[i]]
      OBVIOUS
    <3>1. i \in DOMAIN iterators /\ ~(i <= p)
      BY <1>1
    <3>2. at[iterators[i]] > pivot
      BY <3>1, PivotFacts
    <3>. QED
      BY <1>1, <3>1, <3>2
  <2>2. H \subseteq K
    BY <1>2, <1>11, <2>1 DEF Open
  <2>3. Score(lists, pivot) = SumOver(ValuesAt(lists, pivot), H)
    BY DEF Score
  <2>4. H = K
    BY <1>6, <2>2
  <2> HIDE DEF H, K, pivot
  <2>. QED
    BY <1>9, <2>3, <2>4
<1>12. theta \in Nat
  BY ThetaFacts DEF IInv
<1>13. ASSUME NEW n \in 1 .. p
       PROVE  Tightened(n, p) \in Int /\ Total(ValueOf, p) <= Tightened(n, p)
  <2> DEFINE first == CursorsAt(1 .. n)
             rest == K \ first
  <2>1. /\ IsFiniteSet(first) /\ IsFiniteSet(rest) /\ first \cap rest = {} /\ first \cup rest = K
        /\ first \subseteq K /\ rest \subseteq K /\ n \in 0 .. p /\ p \in 0 .. p
    <3>1. n \in 0 .. p /\ p \in 0 .. p
      BY <1>1
    <3>2. IsFiniteSet(first) /\ first \subseteq K
      BY <1>3, <3>1
    <3>3. IsFiniteSet(rest)
      BY <1>4, FS_Subset
    <3>. QED
      BY <3>1, <3>2, <3>3
  <2>2. /\ Total(ValueOf, n) = SumOver(ValueOf, first)
        /\ Total(BlockBoundOf, n) = SumOver(BlockBoundOf, first)
        /\ Total(ValueOf, p) = SumOver(ValueOf, K)
        /\ Total(BlockBoundOf, p) = SumOver(BlockBoundOf, K)
    BY <1>8, <2>1
  <2> HIDE DEF first, rest, K
  <2>3. /\ \A c \in first \cup rest : ValueOf[c] \in Nat /\ BlockBoundOf[c] \in Nat
        /\ \A c \in rest : ValueOf[c] <= BlockBoundOf[c]
    BY <1>7, <2>1
  <2>4. /\ SumOver(ValueOf, first \cup rest) = SumOver(ValueOf, first) + SumOver(ValueOf, rest)
        /\ SumOver(BlockBoundOf, first \cup rest)
             = SumOver(BlockBoundOf, first) + SumOver(BlockBoundOf, rest)
    BY <2>1, <2>3, SumUnion
  <2>5. SumOver(ValueOf, rest) <= SumOver(BlockBoundOf, rest)
    BY <2>1, <2>3, SumMonotone
  <2>6. /\ SumOver(ValueOf, first) \in Nat /\ SumOver(ValueOf, rest) \in Nat
        /\ SumOver(BlockBoundOf, first) \in Nat /\ SumOver(BlockBoundOf, rest) \in Nat
    BY <2>1, <2>3, SumType
  <2>7. SumOver(ValueOf, K) = SumOver(ValueOf, first) + SumOver(ValueOf, rest)
    BY <2>1, <2>4
  <2>8. SumOver(BlockBoundOf, K) = SumOver(BlockBoundOf, first) + SumOver(BlockBoundOf, rest)
    BY <2>1, <2>4
  <2>9. Tightened(n, p) = SumOver(BlockBoundOf, K) - SumOver(BlockBoundOf, first)
                            + SumOver(ValueOf, first)
    BY <2>2 DEF Tightened
  <2>. QED
    BY <2>2, <2>5, <2>6, <2>7, <2>8, <2>9
<1>14. ASSUME Dominated(p), Open(pivot) PROVE FALSE
  <2>1. PICK n \in 1 .. p : Tightened(n, p) <= theta
    BY <1>14 DEF Dominated
  <2>2. Total(ValueOf, p) = Score(lists, pivot) /\ Score(lists, pivot) > theta
    BY <1>11, <1>14 DEF Open
  <2>. QED
    BY <1>9, <1>12, <1>13, <2>1, <2>2
<1>15. ASSUME ~Dominated(p) PROVE Total(ValueOf, p) > theta
  <2>1. p \in 1 .. p
    BY <1>1
  <2>2. ~(Tightened(p, p) <= theta) /\ Tightened(p, p) \in Int
    BY <1>13, <1>15, <2>1 DEF Dominated
  <2>3. Tightened(p, p) = Total(ValueOf, p)
    <3>1. \A c \in K : BlockBoundOf[c] \in Nat
      BY <1>7
    <3>2. SumOver(BlockBoundOf, K) \in Nat
      BY <1>4, <3>1, SumType
    <3>3. Total(BlockBoundOf, p) \in Nat
      BY <1>1, <1>8, <3>2
    <3>. QED
      BY <1>9, <3>3 DEF Tightened
  <2>. QED
    BY <1>9, <1>12, <2>2, <2>3
<1>. QED
  BY <1>9, <1>10, <1>11, <1>14, <1>15

\* A candidate is scored.
LEMMA ScoreKeeps ==
  ASSUME IInv, ScoreCandidate
  PROVE  IInv' /\ Considers /\ theta <= theta'
<1>1. PICK p \in Pivots :
        /\ IsCandidate(p) /\ Accept(filter, at[iterators[p]])
        /\ curDoc' = at[iterators[p]]
        /\ IF Dominated(p) THEN UNCHANGED <<heap, theta>>
           ELSE /\ heap' \in Added(heap, topK, Hit(at[iterators[p]], Total(ValueOf, p)))
                /\ theta' = Threshold(heap', topK, minScore)
  BY DEF ScoreCandidate
<1> DEFINE pivot == at[iterators[p]]
           total == Total(ValueOf, p)
           h == Hit(pivot, total)
<1>2. /\ lists' = lists /\ filter' = filter /\ accepted' = accepted /\ topK' = topK
      /\ minScore' = minScore /\ at' = at /\ iterators' = iterators
      /\ answered' = answered /\ answer' = answer
  BY DEF ScoreCandidate, input
<1>3. Cursors' = Cursors /\ Candidates' = Candidates
  BY <1>2 DEF Cursors, Candidates
<1>4. /\ pivot \in Nat /\ pivot > curDoc /\ pivot \in Candidates /\ pivot \notin Docids(heap)
      /\ iterators # <<>> /\ at[iterators[1]] = pivot
      /\ \A d \in Candidates : Open(d) => d \in Nat /\ d >= pivot
  BY <1>1, CandidateFacts
<1>5. curDoc \in Int /\ curDoc' = pivot
  BY <1>1 DEF IInv, CursorsOK
<1>6. /\ theta \in Nat /\ minScore <= theta /\ minScore \in Nat
      /\ Score(lists, pivot) \in Nat /\ \A d \in Candidates : Score(lists, d) \in Nat
  BY ThetaFacts, ScoreType DEF IInv, InputOK
<1>7. /\ total \in Nat /\ total <= Score(lists, pivot)
      /\ Open(pivot) => total = Score(lists, pivot)
      /\ Dominated(p) => ~Open(pivot)
      /\ ~Dominated(p) => total > theta
  BY <1>1, ScoredFacts
<1> HIDE DEF pivot, total
<1>8. InputOK' /\ AnswerOK'
  BY <1>2, <1>3 DEF IInv, InputOK, AnswerOK
<1>9. CursorsOK'
  BY <1>2, <1>3, <1>4, <1>5 DEF IInv, CursorsOK, StaysSorted
<1>10. Considers
  BY <1>2, <1>4, <1>5 DEF Considers
<1>11. \A x \in heap : x.docid <= curDoc /\ x.docid \in Nat /\ x.docid <= curDoc'
  <2>1. \A x \in heap : x.docid \in Candidates /\ x.docid <= curDoc
    BY DEF IInv, HeapOK, IsHeap
  <2>2. Candidates \subseteq Nat
    BY DEF IInv, InputOK, AreLists, IsList, Candidates, Eligible, Matching
  <2>3. \A x \in heap : x.docid \in Nat
    BY <2>1, <2>2
  <2>. QED
    BY <1>4, <1>5, <2>1, <2>3
<1>12. CASE Dominated(p)
  <2>1. heap' = heap /\ theta' = theta
    BY <1>1, <1>12
  <2>2. HeapOK'
    BY <1>2, <1>3, <1>11, <2>1 DEF IInv, HeapOK
  <2>3. ASSUME NEW d \in Candidates, Open(d) PROVE d > curDoc'
    <3>1. d # pivot
      BY <1>7, <1>12, <2>3
    <3>. QED
      BY <1>4, <1>5, <2>3, <3>1
  <2>4. Ahead'
    BY <1>2, <1>3, <2>1, <2>3 DEF IInv, Ahead, Open
  <2>. QED
    BY <1>6, <1>8, <1>9, <1>10, <2>1, <2>2, <2>4 DEF IInv
<1>13. CASE ~Dominated(p)
  <2>1. total > theta /\ Score(lists, pivot) > theta /\ total = Score(lists, pivot)
    <3>1. Score(lists, pivot) > theta
      BY <1>6, <1>7, <1>13
    <3>. QED
      BY <1>4, <1>7, <1>13, <3>1 DEF Open
  <2>2. h.docid = pivot /\ h.score = total /\ h \in [docid : Candidates, score : Nat]
    BY <1>4, <1>7 DEF Hit
  <2>3. heap' \in Added(heap, topK, h) /\ theta' = Threshold(heap', topK, minScore)
    BY <1>1, <1>13 DEF pivot, total
  <2> HIDE DEF h
  <2>4. /\ IsHeap(heap, Candidates, topK) /\ theta = Threshold(heap, topK, minScore)
        /\ topK \in Nat \ {0}
    BY DEF IInv, HeapOK, InputOK
  <2>5. /\ IsHeap(heap', Candidates, topK) /\ heap' \subseteq heap \cup {h} /\ theta <= theta'
        /\ \A x \in (heap \cup {h}) \ heap' : x.score <= theta'
        /\ theta' \in Nat
    <3>1. h.docid \notin Docids(heap)
      BY <1>4, <2>2
    <3>2. /\ IsHeap(heap', Candidates, topK) /\ heap' \subseteq heap \cup {h}
          /\ Threshold(heap, topK, minScore) <= Threshold(heap', topK, minScore)
          /\ \A x \in (heap \cup {h}) \ heap' : x.score <= Threshold(heap', topK, minScore)
      BY <1>6, <2>2, <2>3, <2>4, <3>1, AddedFacts
    <3>3. theta' \in Nat
      BY <1>6, <2>3, <2>4, <3>2, ThresholdFacts
    <3>. QED
      BY <2>3, <2>4, <3>2, <3>3
  <2>6. ASSUME NEW g \in heap'
        PROVE  /\ g.score <= Score(lists, g.docid)
               /\ Score(lists, g.docid) > minScore => g.score = Score(lists, g.docid)
               /\ g.docid <= curDoc'
    <3>1. CASE g \in heap
      BY <1>11, <3>1 DEF IInv, HeapOK
    <3>2. CASE g = h
      BY <1>4, <1>5, <1>6, <2>1, <2>2, <3>2
    <3>. QED
      BY <2>5, <3>1, <3>2
  <2>7. HeapOK'
    BY <1>2, <1>3, <2>3, <2>5, <2>6 DEF HeapOK
  <2>8. ASSUME NEW d \in Candidates, Score(lists, d) > theta', d \notin Docids(heap')
        PROVE  Open(d) /\ d > curDoc'
    <3>1. Score(lists, d) > theta /\ Score(lists, d) > minScore
      BY <1>6, <2>5, <2>8
    <3>2. d \notin Docids(heap)
      <4> SUFFICES ASSUME NEW x \in heap, x.docid = d PROVE FALSE
        BY DEF Docids
      <4>1. x.score = Score(lists, d)
        BY <3>1 DEF IInv, HeapOK
      <4>2. x \notin heap'
        BY <2>8 DEF Docids
      <4>3. x.score <= theta'
        BY <2>5, <4>2
      <4>. QED
        BY <1>6, <2>5, <2>8, <4>1, <4>3
    <3>3. Open(d)
      BY <3>1, <3>2 DEF Open
    <3>4. d # pivot
      <4> SUFFICES ASSUME d = pivot PROVE FALSE
        OBVIOUS
      <4>1. h \notin heap'
        BY <2>2, <2>8 DEF Docids
      <4>2. h.score <= theta'
        BY <2>5, <4>1
      <4>. QED
        BY <1>6, <2>1, <2>2, <2>5, <2>8, <4>2
    <3>. QED
      BY <1>4, <1>5, <3>3, <3>4
  <2>9. Ahead'
    BY <1>2, <1>3, <2>8 DEF IInv, Ahead, Open
  <2>. QED
    BY <1>8, <1>9, <1>10, <2>5, <2>7, <2>9 DEF IInv
<1>. QED
  BY <1>12, <1>13

\* The answer.
LEMMA FinishAnswers ==
  ASSUME IInv, Finish
  PROVE  IInv' /\ IsAnswer(answer', Scores, topK, minScore)
<1>1. Pivots = {} /\ answered' = TRUE /\ ~answered
  BY DEF Finish
<1>2. /\ lists' = lists /\ filter' = filter /\ accepted' = accepted /\ topK' = topK
      /\ minScore' = minScore /\ at' = at /\ iterators' = iterators /\ curDoc' = curDoc
      /\ theta' = theta /\ heap' = heap
  BY DEF Finish, input
<1>3. PICK hits \in Decreasing(heap) : answer' = Remapped(filter, hits)
  BY DEF Finish
<1> DEFINE scores == [d \in Candidates |-> Score(lists, d)]
<1>4. \A d \in DOMAIN scores : scores[d] \in Nat
  BY ScoreType DEF IInv, InputOK
<1>5. IsHeap(heap, DOMAIN scores, topK) /\ theta = Threshold(heap, topK, minScore)
  BY DEF IInv, HeapOK
<1>6. \A g \in heap : g.docid \in Candidates
  BY DEF IInv, HeapOK, IsHeap
<1>7. \A g \in heap : /\ g.score <= scores[g.docid]
                      /\ scores[g.docid] > minScore => g.score = scores[g.docid]
  BY <1>6 DEF IInv, HeapOK
<1>8. \A d \in DOMAIN scores \ Docids(heap) : scores[d] <= Threshold(heap, topK, minScore)
  <2> SUFFICES ASSUME NEW d \in Candidates, d \notin Docids(heap), ~(Score(lists, d) <= theta)
               PROVE  FALSE
    BY <1>5
  <2>1. Score(lists, d) > theta
    BY <1>4, ThetaFacts DEF IInv
  <2>. QED
    BY <1>1, <2>1, NoPivot DEF Open
<1>9. topK \in Nat \ {0} /\ minScore \in Nat /\ IsFilter(filter, accepted, Matching(lists))
  BY DEF IInv, InputOK
<1>10. IsAnswer(hits, scores, topK, minScore)
  <2> HIDE DEF scores
  <2>. QED
    BY <1>4, <1>5, <1>7, <1>8, <1>9, HeapAnswers
<1>11. hits \in Seq([docid : Candidates, score : Nat])
  <2>1. IsFiniteSet(heap) /\ heap \subseteq [docid : Candidates, score : Nat]
    BY DEF IInv, HeapOK, IsHeap
  <2>2. hits \in Seq(heap)
    BY <2>1, DecreasingFacts
  <2> DEFINE all == [docid : Candidates, score : Nat]
  <2>3. heap \subseteq all
    BY <2>1
  <2> HIDE DEF all
  <2>4. hits \in Seq(all)
    BY <2>2, <2>3
  <2>. QED
    BY <2>4 DEF all
<1>12. /\ IsAnswer(answer', ScoresOf(lists, filter, accepted), topK, minScore)
       /\ \A i \in DOMAIN answer' : answer'[i].docid \in accepted
  BY <1>3, <1>9, <1>10, <1>11, RemappedAnswers DEF Candidates
<1>13. Cursors' = Cursors /\ Candidates' = Candidates
  BY <1>2 DEF Cursors, Candidates
<1>14. InputOK' /\ CursorsOK' /\ HeapOK'
  BY <1>2, <1>13 DEF IInv, InputOK, CursorsOK, StaysSorted, HeapOK
<1>15. Ahead'
  BY <1>2, <1>13 DEF IInv, Ahead, Open
<1>16. AnswerOK'
  BY <1>1, <1>2, <1>12 DEF AnswerOK
<1>. QED
  BY <1>12, <1>14, <1>15, <1>16 DEF IInv, Scores

-----------------------------------------------------------------------------
(***************************************************************************)
(* Theorems                                                                *)
(***************************************************************************)

\* The first cursor is at a document that has not been a candidate: this happens at
\* most once before that cursor moves.
Fresh == IF iterators # <<>> /\ curDoc < at[iterators[1]] THEN 1 ELSE 0

Work == iterations + 2 * Left + Fresh <= 2 * SumOver(Lengths(lists), Cursors) + 1

\* What there is to read is a natural number.
LEMMA LeftFacts ==
  ASSUME IInv
  PROVE  /\ Left \in Nat /\ SumOver(Lengths(lists), Cursors) \in Nat
         /\ Left <= SumOver(Lengths(lists), Cursors) /\ Fresh \in 0 .. 1
<1> DEFINE S == ToSet(iterators)
<1>1. S \subseteq Cursors /\ IsFiniteSet(S) /\ IsFiniteSet(Cursors)
  BY FiniteMembers, BoundsFacts DEF IInv, CursorsOK, AreDistinct
<1>2. \A c \in Cursors : /\ ToRead(lists, at)[c] \in Nat /\ Lengths(lists)[c] \in Nat
                         /\ ToRead(lists, at)[c] <= Lengths(lists)[c]
  BY ToReadFacts DEF IInv, InputOK, CursorsOK, Cursors
<1> HIDE DEF S
<1>3. SumOver(ToRead(lists, at), S) \in Nat /\ SumOver(Lengths(lists), Cursors) \in Nat
      /\ SumOver(ToRead(lists, at), Cursors) \in Nat
  BY <1>1, <1>2, SumType
<1>4. SumOver(ToRead(lists, at), S) <= SumOver(ToRead(lists, at), Cursors)
  BY <1>1, <1>2, SumPart
<1>5. SumOver(ToRead(lists, at), Cursors) <= SumOver(Lengths(lists), Cursors)
  BY <1>1, <1>2, SumMonotone
<1>6. Left = SumOver(ToRead(lists, at), S)
  BY DEF Left, S
<1>. QED
  BY <1>3, <1>4, <1>5, <1>6 DEF Fresh

\* A search starts with the invariant.
LEMMA InitInvariant ==
  ASSUME Init
  PROVE  IInv /\ Work /\ iterations = 0
<1>1. InputOK
  BY SearchAssumption DEF Init, InputOK
<1>2. IsFiniteSet(Cursors)
  BY <1>1, BoundsFacts
<1>3. iterators \in SetToSeqs(Cursors) /\ Sorted(iterators, at) /\ curDoc = -1 /\ theta = minScore
      /\ heap = {} /\ answered = FALSE /\ answer = <<>> /\ iterations = 0
      /\ at = [c \in Cursors |-> Min(DOMAIN lists[c])]
  BY DEF Init
<1>4. AreDistinct(iterators, Cursors) /\ ToSet(iterators) = Cursors
  BY <1>2, <1>3, SequenceOfAll
<1>5. \A c \in Cursors : /\ at[c] \in DOMAIN lists[c] /\ at[c] \in Nat
                         /\ \A d \in DOMAIN lists[c] : at[c] <= d
  <2> SUFFICES ASSUME NEW c \in Cursors
               PROVE  /\ at[c] \in DOMAIN lists[c] /\ at[c] \in Nat
                      /\ \A d \in DOMAIN lists[c] : at[c] <= d
    OBVIOUS
  <2>1. /\ IsFiniteSet(DOMAIN lists[c]) /\ DOMAIN lists[c] # {} /\ DOMAIN lists[c] \subseteq Nat
        /\ DOMAIN lists[c] \subseteq Int
    BY <1>1 DEF InputOK, AreLists, IsList, Cursors
  <2>2. at[c] = Min(DOMAIN lists[c])
    BY <1>3
  <2>. QED
    BY <2>1, <2>2, SmallestMember
<1>6. CursorsOK
  BY <1>3, <1>4, <1>5 DEF CursorsOK, StaysSorted
<1>7. HeapOK
  <2>1. IsFiniteSet({}) /\ Cardinality({}) = 0
    BY FS_EmptySet
  <2>2. IsHeap(heap, Candidates, topK)
    BY <1>1, <1>3, <2>1 DEF IsHeap, InputOK
  <2>3. theta = Threshold(heap, topK, minScore)
    BY <1>1, <1>3, <2>1 DEF Threshold, InputOK
  <2>. QED
    BY <1>3, <2>2, <2>3 DEF HeapOK
<1>8. Ahead
  <2>1. \A d \in Candidates : d \in Nat
    BY <1>1 DEF InputOK, AreLists, IsList, Candidates, Eligible, Matching
  <2>2. \A d \in Candidates : d > curDoc
    BY <1>3, <2>1
  <2>. QED
    BY <1>4, <1>5, <2>2 DEF Ahead, Holders, Cursors
<1>9. AnswerOK
  <2>1. DOMAIN answer = {}
    BY <1>3
  <2>. QED
    BY <1>3, <2>1 DEF AnswerOK
<1>10. IInv
  BY <1>1, <1>6, <1>7, <1>8, <1>9 DEF IInv
<1>11. Work
  BY <1>3, <1>10, LeftFacts DEF Work
<1>. QED
  BY <1>3, <1>10, <1>11

\* Steps that leave the variables alone keep the invariant.
LEMMA StutterKeeps ==
  ASSUME IInv, UNCHANGED vars
  PROVE  IInv'
<1>1. /\ lists' = lists /\ filter' = filter /\ accepted' = accepted /\ topK' = topK
      /\ minScore' = minScore /\ at' = at /\ iterators' = iterators /\ curDoc' = curDoc
      /\ theta' = theta /\ heap' = heap /\ answered' = answered /\ answer' = answer
  BY DEF vars, input
<1>2. Cursors' = Cursors /\ Candidates' = Candidates
  BY <1>1 DEF Cursors, Candidates
<1>3. InputOK' /\ CursorsOK' /\ HeapOK' /\ AnswerOK'
  BY <1>1, <1>2 DEF IInv, InputOK, CursorsOK, StaysSorted, HeapOK, AnswerOK
<1>4. Ahead'
  BY <1>1, <1>2 DEF IInv, Ahead, Open
<1>. QED
  BY <1>3, <1>4 DEF IInv

\* What a step does: an iteration, the answer, or nothing.
LEMMA StepFacts ==
  ASSUME IInv, [Next]_vars
  PROVE  /\ IInv'
         /\ \/ /\ Advances \/ Considers
               /\ theta <= theta' /\ iterations' = iterations + 1
               /\ UNCHANGED <<input, answered, answer>>
            \/ /\ ~answered /\ answered' = TRUE /\ IsAnswer(answer', Scores, topK, minScore)
               /\ UNCHANGED <<input, at, iterators, curDoc, theta, iterations>>
            \/ UNCHANGED vars
<1>1. theta \in Nat
  BY ThetaFacts DEF IInv
<1>2. CASE AdvanceFirst
  BY <1>1, <1>2, AdvanceFirstKeeps DEF AdvanceFirst
<1>3. CASE PruneBlocks
  BY <1>1, <1>3, PruneKeeps DEF PruneBlocks
<1>4. CASE Reject
  BY <1>1, <1>4, RejectKeeps DEF Reject
<1>5. CASE ScoreCandidate
  BY <1>1, <1>5, ScoreKeeps DEF ScoreCandidate
<1>6. CASE Finish
  <2>1. IInv' /\ IsAnswer(answer', Scores, topK, minScore)
    BY <1>6, FinishAnswers
  <2>2. ~answered /\ answered' = TRUE /\ UNCHANGED <<input, at, iterators, curDoc, theta, iterations>>
    BY <1>6 DEF Finish
  <2>. QED
    BY <2>1, <2>2
<1>7. CASE Done
  BY <1>7, StutterKeeps DEF Done
<1>8. CASE UNCHANGED vars
  BY <1>8, StutterKeeps
<1>. QED
  BY <1>2, <1>3, <1>4, <1>5, <1>6, <1>7, <1>8 DEF Next

\* The invariant is more than the types and the safety of pruning.
LEMMA InvariantImplies ==
  ASSUME IInv
  PROVE  TypeOK /\ StaysSorted /\ NothingLost
<1>1. TypeOK
  <2>1. theta \in Nat
    BY ThetaFacts DEF IInv
  <2>2. heap \subseteq [docid : Candidates, score : Nat] /\ Cardinality(heap) <= topK
    BY DEF IInv, HeapOK, IsHeap
  <2>3. ToSet(iterators) \subseteq Cursors /\ IsInjective(iterators)
    BY FiniteMembers DEF IInv, CursorsOK, AreDistinct, IsInjective
  <2>. QED
    BY <2>1, <2>2, <2>3 DEF TypeOK, IInv, CursorsOK, AnswerOK
<1>2. NothingLost
  BY DEF NothingLost, IInv, Ahead, Open
<1>. QED
  BY <1>1, <1>2 DEF IInv, CursorsOK

\* Pruning is safe, the cursors stay sorted, and the loop is bounded by what there is
\* to read.
THEOREM SearchIsSafe == Spec => [](TypeOK /\ StaysSorted /\ NothingLost /\ BoundedWork)
<1> DEFINE I == IInv /\ Work /\ iterations \in Nat
<1>1. Init => I
  BY InitInvariant
<1>2. IInv => Left \in Nat /\ Fresh \in 0 .. 1
  BY LeftFacts
<1>3. (IInv => Left \in Nat /\ Fresh \in 0 .. 1)'
  BY <1>2, PTL
<1>4. I /\ [Next]_vars => I'
  <2> SUFFICES ASSUME I, [Next]_vars PROVE I'
    OBVIOUS
  <2>1. IInv' /\ Left \in Nat /\ Left' \in Nat /\ Fresh \in 0 .. 1 /\ Fresh' \in 0 .. 1
        /\ SumOver(Lengths(lists), Cursors) \in Nat
    BY <1>2, <1>3, StepFacts, LeftFacts
  <2>2. lists' = lists
    BY StepFacts DEF vars, input
  <2>3. SumOver(Lengths(lists), Cursors)' = SumOver(Lengths(lists), Cursors)
    BY <2>2 DEF Cursors
  <2>4. CASE Advances /\ iterations' = iterations + 1
    BY <2>1, <2>3, <2>4 DEF Work, Advances
  <2>5. CASE Considers /\ iterations' = iterations + 1
    <3>1. Left' = Left
      BY <2>2, <2>5 DEF Considers, Left
    <3>2. curDoc' \in Int
      BY <2>1 DEF IInv, CursorsOK
    <3>3. Fresh = 1 /\ Fresh' = 0
      BY <2>5, <3>2 DEF Considers, Fresh
    <3>. QED
      BY <2>1, <2>3, <2>5, <3>1, <3>3 DEF Work
  <2>6. CASE UNCHANGED <<at, iterators, curDoc, iterations>>
    <3>1. Left' = Left /\ Fresh' = Fresh
      BY <2>2, <2>6 DEF Left, Fresh
    <3>. QED
      BY <2>1, <2>3, <2>6, <3>1 DEF Work
  <2>. QED
    BY <2>4, <2>5, <2>6, StepFacts DEF vars
<1>5. I => TypeOK /\ StaysSorted /\ NothingLost /\ BoundedWork
  BY InvariantImplies, LeftFacts DEF Work, BoundedWork
<1>. QED
  BY <1>1, <1>4, <1>5, PTL DEF Spec

\* The threshold never falls, and candidates come in the order of their ids.
THEOREM SearchMovesOn ==
  Spec => [][theta' >= theta /\ curDoc' >= curDoc]_vars
<1>1. Init => IInv
  BY InitInvariant
<1>2. IInv /\ [Next]_vars => IInv'
  BY StepFacts
<1>3. IInv => theta \in Nat /\ curDoc \in Int
  BY ThetaFacts DEF IInv, CursorsOK
<1>4. (IInv => theta \in Nat /\ curDoc \in Int)'
  BY <1>3, PTL
<1>5. IInv /\ [Next]_vars => [theta' >= theta /\ curDoc' >= curDoc]_vars
  <2> SUFFICES ASSUME IInv, [Next]_vars PROVE [theta' >= theta /\ curDoc' >= curDoc]_vars
    OBVIOUS
  <2>1. theta \in Nat /\ theta' \in Nat /\ curDoc \in Int /\ curDoc' \in Int
    BY <1>3, <1>4, StepFacts
  <2>2. CASE Advances /\ theta <= theta'
    BY <2>1, <2>2 DEF Advances
  <2>3. CASE Considers /\ theta <= theta'
    BY <2>1, <2>3 DEF Considers
  <2>4. CASE UNCHANGED <<theta, curDoc>>
    BY <2>1, <2>4
  <2>. QED
    BY <2>2, <2>3, <2>4, StepFacts
<1>. QED
  BY <1>1, <1>2, <1>5, PTL DEF Spec

Contract == INSTANCE SearchContract WITH scores <- Scores

\* WAND answers once, with the best documents of the filter.
THEOREM SearchAnswers == Spec => Contract!Spec
<1>1. Init => IInv /\ Contract!Init
  BY InitInvariant DEF Init, Contract!Init
<1>2. IInv /\ [Next]_vars => IInv' /\ [Contract!Answer]_Contract!vars
  <2> SUFFICES ASSUME IInv, [Next]_vars PROVE IInv' /\ [Contract!Answer]_Contract!vars
    OBVIOUS
  <2>1. IInv' /\ UNCHANGED input
    BY StepFacts DEF vars
  <2>2. Scores' = Scores /\ topK' = topK /\ minScore' = minScore
    BY <2>1 DEF input, Scores
  <2>3. \/ UNCHANGED <<answered, answer>>
        \/ ~answered /\ answered' = TRUE /\ IsAnswer(answer', Scores, topK, minScore)
    BY StepFacts DEF vars
  <2>4. answered \in BOOLEAN
    BY DEF IInv, AnswerOK
  <2>5. IsAnswer(answer', Scores, topK, minScore)
          => Contract!IsAnswer(answer', Scores, topK, minScore)
    BY DEF IsAnswer, Contract!IsAnswer, ToSet, Contract!ToSet, Docids, Contract!Docids,
           IsInjective, Contract!IsInjective
  <2>. QED
    BY <2>1, <2>2, <2>3, <2>4, <2>5 DEF Contract!Answer, Contract!vars
<1>. QED
  BY <1>1, <1>2, PTL DEF Spec, Contract!Spec
=============================================================================
