----------------------------- MODULE BowProofs -----------------------------
(***************************************************************************)
(* Proofs about BowBuilder, for every collection, frequency and bound: its *)
(* types; that a reader never takes a part of the lengths for the whole;   *)
(* that a build leaves the lengths of the texts it was given; and that the *)
(* term ids depend on the collection only, so that a word looked up in the *)
(* vocabulary and the index is found as often as the text has it.          *)
(***************************************************************************)
EXTENDS BowBuilder, SequenceTheorems, FiniteSetTheorems, TLAPS

\* s is a sequence, of anything.
IsSequence(s) == \E S : s \in Seq(S)

\* Members of S, none twice.
AreDistinct(some, S) == some \in Seq(S) /\ \A i, j \in DOMAIN some : some[i] = some[j] => i = j

-----------------------------------------------------------------------------
(***************************************************************************)
(* Folds over a sequence, one element after the other                      *)
(***************************************************************************)

\* What holds of 0 and is handed on holds up to n.
LEMMA StepByStep ==
  ASSUME NEW n \in Nat, NEW Q, 0 \in Q, \A i \in 1 .. n : i - 1 \in Q => i \in Q
  PROVE  \A i \in 0 .. n : i \in Q
<1> DEFINE B == {i \in 0 .. n : i \notin Q}
<1> SUFFICES ASSUME B # {} PROVE FALSE
  OBVIOUS
<1>1. \E i \in B : \A j \in B : ~(<<j, i>> \in OpToRel(<, Nat))
  <2>1. B \subseteq Nat
    OBVIOUS
  <2> HIDE DEF B
  <2>. QED
    BY <2>1, NatLessThanWellFounded, WFMin, Zenon
<1>2. PICK i \in B : \A j \in B : ~(j < i)
  <2>1. \A i, j \in Nat : j < i => <<j, i>> \in OpToRel(<, Nat)
    BY DEF OpToRel
  <2>2. B \subseteq Nat
    OBVIOUS
  <2> HIDE DEF B
  <2>. QED
    BY <1>1, <2>1, <2>2, Zenon
<1>3. i \in 1 .. n /\ i - 1 \in 0 .. n /\ i - 1 < i
  BY <1>2
<1>4. i - 1 \notin B
  BY <1>2, <1>3
<1>. QED
  BY <1>2, <1>3, <1>4

\* The largest of some numbers up to n is one of them.
LEMMA LargestOf ==
  ASSUME NEW n \in Nat, NEW s \in SUBSET (1 .. n), s # {}
  PROVE  Max(s) \in s /\ \A x \in s : x <= Max(s)
<1> DEFINE Q == {m \in 0 .. n : (\E x \in s : x <= m) =>
                                  \E x \in s : x <= m /\ \A y \in s : y <= m => y <= x}
<1>1. 0 \in Q
  OBVIOUS
<1>2. ASSUME NEW m \in 1 .. n, m - 1 \in Q
      PROVE  m \in Q
  <2>1. CASE m \in s
    BY <2>1
  <2>2. CASE m \notin s
    <3>1. \A x \in s : x <= m <=> x <= m - 1
      BY <2>2
    <3>. QED
      BY <1>2, <3>1
  <2>. QED
    BY <2>1, <2>2
<1>3. \A m \in 0 .. n : m \in Q
  <2> HIDE DEF Q
  <2>. QED
    BY <1>1, <1>2, StepByStep
<1>4. \E x \in s : \A y \in s : x >= y
  <2>1. n \in Q
    BY <1>3
  <2>2. \A x \in s : x <= n
    OBVIOUS
  <2>. QED
    BY <2>1, <2>2
<1>. QED
  BY <1>4 DEF Max

\* The largest of the numbers up to n is n.
LEMMA LargestUpTo ==
  ASSUME NEW n \in Nat, n > 0
  PROVE  Max(1 .. n) = n /\ (1 .. n) \ {n} = 1 .. n - 1
<1>1. 1 .. n # {} /\ n \in 1 .. n
  OBVIOUS
<1>2. Max(1 .. n) \in 1 .. n /\ n <= Max(1 .. n)
  BY <1>1, LargestOf
<1>. QED
  BY <1>2

\* it folds the first n elements: it takes the last of any of them, after the others.
FoldsLast(it, n, base, step) ==
  \A s \in SUBSET (1 .. n) :
    it[s] = IF s = {} THEN base ELSE step[<<Max(s), it[s \ {Max(s)}]>>]

\* g[i] is what the first i elements give.
IsChain(g, n, base, step) == g[0] = base /\ \A i \in 1 .. n : g[i] = step[<<i, g[i - 1]>>]

\* it is built on the values of V by the recursion of a fold.
BuiltOn(it, n, V, base, step) ==
  \A s \in SUBSET (1 .. n) :
    /\ s = {} => it[s] = base
    /\ s # {} /\ it[s \ {Max(s)}] \in V => it[s] = step[<<Max(s), it[s \ {Max(s)}]>>]

\* Whatever is built so ends in r.
EndsIn(r, n, V, base, step) == \A it : BuiltOn(it, n, V, base, step) => it[1 .. n] = r

\* A fold of m - 1 elements goes on with the next.
LEMMA FoldsNext ==
  ASSUME NEW m \in Nat, m > 0, NEW V, NEW base \in V, NEW step,
         \A v \in V : step[<<m, v>>] \in V,
         NEW h \in [SUBSET (1 .. m - 1) -> V], FoldsLast(h, m - 1, base, step)
  PROVE  \E k \in [SUBSET (1 .. m) -> V] : FoldsLast(k, m, base, step)
<1> DEFINE k == [s \in SUBSET (1 .. m) |-> IF m \in s THEN step[<<m, h[s \ {m}]>>] ELSE h[s]]
<1>1. \A s \in SUBSET (1 .. m) : s \ {m} \in SUBSET (1 .. m - 1)
  OBVIOUS
<1>2. \A s \in SUBSET (1 .. m) : m \notin s => s \in SUBSET (1 .. m - 1)
  OBVIOUS
<1>3. k \in [SUBSET (1 .. m) -> V]
  BY <1>1, <1>2
<1>4. ASSUME NEW s \in SUBSET (1 .. m), m \in s
      PROVE  k[s] = step[<<Max(s), k[s \ {Max(s)}]>>]
  <2>1. Max(s) = m
    <3>1. Max(s) \in 1 .. m /\ m <= Max(s)
      BY <1>4, LargestOf
    <3>. QED
      BY <3>1
  <2>2. s \ {m} \in SUBSET (1 .. m) /\ m \notin s \ {m}
    OBVIOUS
  <2>3. k[s \ {m}] = h[s \ {m}] /\ k[s] = step[<<m, h[s \ {m}]>>]
    BY <1>4, <2>2
  <2>. QED
    BY <2>1, <2>3
<1>5. ASSUME NEW s \in SUBSET (1 .. m), m \notin s
      PROVE  k[s] = IF s = {} THEN base ELSE step[<<Max(s), k[s \ {Max(s)}]>>]
  <2>1. s \in SUBSET (1 .. m - 1) /\ s \ {Max(s)} \in SUBSET (1 .. m) /\ m \notin s \ {Max(s)}
    BY <1>2, <1>5
  <2>2. k[s] = h[s] /\ k[s \ {Max(s)}] = h[s \ {Max(s)}]
    BY <1>5, <2>1
  <2>. QED
    BY <2>1, <2>2 DEF FoldsLast
<1> HIDE DEF k
<1>6. FoldsLast(k, m, base, step)
  BY <1>4, <1>5 DEF FoldsLast
<1>. QED
  BY <1>3, <1>6

\* A fold over a sequence takes its elements one after the other.  Whatever solves
\* its recursion on the values of V gives the last of them.
LEMMA FoldIsChain ==
  ASSUME NEW n \in Nat, NEW V, NEW base \in V, NEW step,
         \A i \in 1 .. n, v \in V : step[<<i, v>>] \in V
  PROVE  \E g \in [0 .. n -> V], h \in [SUBSET (1 .. n) -> V] :
           /\ IsChain(g, n, base, step)
           /\ FoldsLast(h, n, base, step)
           /\ EndsIn(g[n], n, V, base, step)
<1> DEFINE Q == {m \in 0 .. n : \E h \in [SUBSET (1 .. m) -> V] : FoldsLast(h, m, base, step)}
<1>1. 0 \in Q
  <2> DEFINE h == [s \in SUBSET (1 .. 0) |-> base]
  <2>1. \A s \in SUBSET (1 .. 0) : s = {}
    OBVIOUS
  <2>2. h \in [SUBSET (1 .. 0) -> V] /\ FoldsLast(h, 0, base, step)
    BY <2>1 DEF FoldsLast
  <2>. QED
    BY <2>2
<1>2. ASSUME NEW m \in 1 .. n, m - 1 \in Q
      PROVE  m \in Q
  <2>1. PICK h \in [SUBSET (1 .. m - 1) -> V] : FoldsLast(h, m - 1, base, step)
    BY <1>2
  <2>2. m \in Nat /\ m > 0 /\ m \in 0 .. n /\ \A v \in V : step[<<m, v>>] \in V
    OBVIOUS
  <2>3. \E k \in [SUBSET (1 .. m) -> V] : FoldsLast(k, m, base, step)
    BY <2>1, <2>2, FoldsNext
  <2>. QED
    BY <2>2, <2>3
<1>3. \A m \in 0 .. n : m \in Q
  <2> HIDE DEF Q
  <2>. QED
    BY <1>1, <1>2, StepByStep
<1>4. PICK h \in [SUBSET (1 .. n) -> V] : FoldsLast(h, n, base, step)
  <2>1. n \in Q
    BY <1>3
  <2>. QED
    BY <2>1
<1> DEFINE g == [i \in 0 .. n |-> h[1 .. i]]
<1>5. \A i \in 0 .. n : 1 .. i \in SUBSET (1 .. n) /\ g[i] = h[1 .. i]
  OBVIOUS
<1>6. g \in [0 .. n -> V]
  BY <1>5
<1>7. \A i \in 1 .. n : /\ Max(1 .. i) = i /\ (1 .. i) \ {i} = 1 .. i - 1
                        /\ 1 .. i # {} /\ i \in 0 .. n /\ i - 1 \in 0 .. n
  <2> TAKE i \in 1 .. n
  <2>1. i \in Nat /\ i > 0
    OBVIOUS
  <2>2. Max(1 .. i) = i /\ (1 .. i) \ {i} = 1 .. i - 1
    BY <2>1, LargestUpTo
  <2>. QED
    BY <2>2
<1>8. h[{}] = base /\ 1 .. 0 = {}
  <2>1. {} \in SUBSET (1 .. n) /\ 1 .. 0 = {}
    OBVIOUS
  <2>. QED
    BY <1>4, <2>1, Zenon DEF FoldsLast
<1> HIDE DEF g
<1>9. \A i \in 1 .. n : g[i] = step[<<i, g[i - 1]>>]
  <2> TAKE i \in 1 .. n
  <2>1. 1 .. i \in SUBSET (1 .. n) /\ 1 .. i # {}
    BY <1>7
  <2>2. h[1 .. i] = step[<<Max(1 .. i), h[(1 .. i) \ {Max(1 .. i)}]>>]
    BY <1>4, <2>1, Zenon DEF FoldsLast
  <2>3. g[i] = h[1 .. i] /\ g[i - 1] = h[1 .. i - 1]
    BY <1>5, <1>7
  <2>. QED
    BY <1>7, <2>2, <2>3
<1>10. g[0] = base
  BY <1>5, <1>8
<1>11. ASSUME NEW it, BuiltOn(it, n, V, base, step)
       PROVE  it[1 .. n] = g[n]
  <2> DEFINE P == {i \in 0 .. n : it[1 .. i] = g[i]}
  <2>1. 0 \in P
    <3>1. {} \in SUBSET (1 .. n) /\ 0 \in 0 .. n
      OBVIOUS
    <3>2. it[{}] = base
      BY <1>11, <3>1, Zenon DEF BuiltOn
    <3>. QED
      BY <1>8, <1>10, <3>1, <3>2
  <2>2. ASSUME NEW i \in 1 .. n, i - 1 \in P
        PROVE  i \in P
    <3>1. it[1 .. i - 1] = g[i - 1] /\ g[i - 1] \in V
      BY <1>6, <1>7, <2>2
    <3>2. it[1 .. i] = step[<<i, it[1 .. i - 1]>>]
      BY <1>5, <1>7, <1>11, <3>1 DEF BuiltOn
    <3>. QED
      BY <1>7, <1>9, <3>1, <3>2
  <2>3. \A i \in 0 .. n : i \in P
    <3> HIDE DEF P
    <3>. QED
      BY <2>1, <2>2, StepByStep
  <2>. QED
    BY <2>3
<1>12. IsChain(g, n, base, step)
  BY <1>9, <1>10 DEF IsChain
<1>13. EndsIn(g[n], n, V, base, step)
  BY <1>11 DEF EndsIn
<1>. QED
  BY <1>4, <1>6, <1>12, <1>13

-----------------------------------------------------------------------------
(***************************************************************************)
(* Sequences                                                               *)
(***************************************************************************)

\* The length of a sequence is a natural number.
LEMMA SequenceLength ==
  ASSUME NEW s, IsSequence(s)
  PROVE  Len(s) \in Nat
BY DEF IsSequence

\* Append gives a sequence with one more element.
LEMMA AppendSequence ==
  ASSUME NEW s, IsSequence(s), NEW e
  PROVE  IsSequence(Append(s, e)) /\ Len(Append(s, e)) = Len(s) + 1
<1>1. PICK S : s \in Seq(S)
  BY DEF IsSequence
<1>2. s \in Seq(S \cup {e})
  BY <1>1
<1>3. Append(s, e) \in Seq(S \cup {e}) /\ Len(Append(s, e)) = Len(s) + 1
  BY <1>2
<1>. QED
  BY <1>3 DEF IsSequence

\* A function on 1 .. n is a sequence of n elements.
LEMMA FunctionSequence ==
  ASSUME NEW n \in Nat, NEW F, DOMAIN F = 1 .. n, F = [i \in 1 .. n |-> F[i]]
  PROVE  IsSequence(F) /\ Len(F) = n
<1> DEFINE S == {F[i] : i \in 1 .. n}
<1>1. F \in [1 .. n -> S]
  OBVIOUS
<1>2. F \in Seq(S) /\ Len(F) = n
  BY <1>1
<1>. QED
  BY <1>2 DEF IsSequence

\* A prefix of a sequence that is long enough has the length asked for.
LEMMA PrefixSequence ==
  ASSUME NEW s, IsSequence(s), NEW n \in 0 .. Len(s)
  PROVE  IsSequence(SubSeq(s, 1, n)) /\ Len(SubSeq(s, 1, n)) = n
<1>1. PICK S : s \in Seq(S)
  BY DEF IsSequence
<1>2. SubSeq(s, 1, n) \in Seq(S) /\ Len(SubSeq(s, 1, n)) = n
  BY <1>1
<1>. QED
  BY <1>2 DEF IsSequence

\* The empty sequence.
LEMMA EmptySequence == IsSequence(<<>>) /\ Len(<<>>) = 0
<1>1. <<>> \in Seq({})
  OBVIOUS
<1>. QED
  BY <1>1 DEF IsSequence

\* doc_lengths always reaches the document just set: what a resumption left
\* out before it is filled with zeros.
LEMMA SetLengthReaches ==
  ASSUME NEW ls, IsSequence(ls), NEW d \in Nat, Len(ls) <= d, NEW length
  PROVE  IsSequence(SetLength(ls, d, length)) /\ Len(SetLength(ls, d, length)) = d + 1
<1>1. Len(ls) \in Nat
  BY SequenceLength
<1>2. SetLength(ls, d, length) =
        [i \in 1 .. d + 1 |-> IF i = d + 1 THEN length ELSE IF i <= Len(ls) THEN ls[i] ELSE 0]
  BY <1>1 DEF SetLength
<1>. QED
  BY <1>2, FunctionSequence

-----------------------------------------------------------------------------
(***************************************************************************)
(* The vocabulary                                                          *)
(***************************************************************************)

\* g[i] is what the first i words of a text make of vocabulary v.
Grows(g, v, text) ==
  g[0] = v /\ \A i \in 1 .. Len(text) : g[i] = GetOrInsert(g[i - 1], text[i])

\* A word added to a vocabulary.
LEMMA GetOrInsertType ==
  ASSUME NEW W, NEW v \in Seq(W), NEW w \in W
  PROVE  GetOrInsert(v, w) \in Seq(W)
BY DEF GetOrInsert

\* A vocabulary grows word by word.
LEMMA GrowChain ==
  ASSUME NEW W, NEW v \in Seq(W), NEW text \in Seq(W)
  PROVE  \E g \in [0 .. Len(text) -> Seq(W)] :
           Grows(g, v, text) /\ GrowVocabulary(v, text) = g[Len(text)]
<1> DEFINE n == Len(text)
           V == Seq(W)
           step == [p \in (1 .. n) \X V |-> GetOrInsert(p[2], text[p[1]])]
<1>1. n \in Nat /\ DOMAIN text = 1 .. n /\ v \in V /\ \A i \in 1 .. n : text[i] \in W
  OBVIOUS
<1>2. \A i \in 1 .. n, u \in V : step[<<i, u>>] = GetOrInsert(u, text[i])
  OBVIOUS
<1>3. \A i \in 1 .. n, u \in V : step[<<i, u>>] \in V
  BY <1>1, <1>2, GetOrInsertType
<1> HIDE DEF V, n, step
<1>4. PICK g \in [0 .. n -> V], h \in [SUBSET (1 .. n) -> V] :
        /\ IsChain(g, n, v, step)
        /\ FoldsLast(h, n, v, step)
        /\ EndsIn(g[n], n, V, v, step)
  BY <1>1, <1>3, FoldIsChain, Zenon
<1>5. \A s \in SUBSET (1 .. n) : s # {} => Max(s) \in 1 .. n
  <2> SUFFICES ASSUME NEW s \in SUBSET (1 .. n), s # {} PROVE Max(s) \in 1 .. n
    OBVIOUS
  <2>1. Max(s) \in s
    BY <1>1, LargestOf
  <2>. QED
    BY <2>1
<1> DEFINE Recurses(it) ==
             it = [s \in SUBSET (1 .. n) |->
                     IF s = {} THEN v ELSE LET x == Max(s) IN GetOrInsert(it[s \ {x}], text[x])]
           iter == CHOOSE it : Recurses(it)
<1>6. Recurses(h)
  <2>1. \A s \in SUBSET (1 .. n) : s # {} => h[s \ {Max(s)}] \in V
    OBVIOUS
  <2>2. \A s \in SUBSET (1 .. n) :
          h[s] = IF s = {} THEN v ELSE GetOrInsert(h[s \ {Max(s)}], text[Max(s)])
    BY <1>2, <1>4, <1>5, <2>1 DEF FoldsLast
  <2>. QED
    BY <2>2
<1>7. Recurses(iter)
  <2> HIDE DEF Recurses
  <2>. QED
    BY <1>6
<1> HIDE DEF iter
<1>8. iter[1 .. n] = g[n]
  <2>1. \A s \in SUBSET (1 .. n) :
          iter[s] = IF s = {} THEN v ELSE GetOrInsert(iter[s \ {Max(s)}], text[Max(s)])
    BY <1>7
  <2>2. \A s \in SUBSET (1 .. n) :
          /\ s = {} => iter[s] = v
          /\ s # {} /\ iter[s \ {Max(s)}] \in V
               => iter[s] = step[<<Max(s), iter[s \ {Max(s)}]>>]
    BY <1>2, <1>5, <2>1
  <2>. QED
    BY <1>4, <2>2 DEF EndsIn, BuiltOn
<1>9. GrowVocabulary(v, text) = iter[1 .. n]
  BY <1>1 DEF GrowVocabulary, FoldLeft, MapThenFoldSet, iter
<1>10. Grows(g, v, text)
  <2>1. ASSUME NEW i \in 1 .. n PROVE g[i] = GetOrInsert(g[i - 1], text[i])
    <3>1. i - 1 \in 0 .. n
      BY <1>1
    <3>2. g[i - 1] \in V /\ g[i] = step[<<i, g[i - 1]>>]
      BY <1>4, <3>1 DEF IsChain
    <3>. QED
      BY <1>2, <3>2
  <2>2. g[0] = v
    BY <1>4 DEF IsChain
  <2>. QED
    BY <2>1, <2>2 DEF Grows, n
<1>. QED
  BY <1>8, <1>9, <1>10 DEF n, V

\* The vocabulary a text gives is the end of any such growth.
LEMMA GrowUnique ==
  ASSUME NEW W, NEW v \in Seq(W), NEW text \in Seq(W), NEW h, Grows(h, v, text)
  PROVE  h[Len(text)] = GrowVocabulary(v, text)
<1> DEFINE n == Len(text)
<1>1. PICK g \in [0 .. n -> Seq(W)] : Grows(g, v, text) /\ GrowVocabulary(v, text) = g[n]
  BY GrowChain
<1> DEFINE Q == {i \in 0 .. n : h[i] = g[i]}
<1>2. n \in Nat
  OBVIOUS
<1> HIDE DEF n
<1>3. 0 \in Q
  BY <1>1, <1>2 DEF Grows
<1>4. ASSUME NEW i \in 1 .. n, i - 1 \in Q PROVE i \in Q
  <2>1. h[i] = GetOrInsert(h[i - 1], text[i]) /\ g[i] = GetOrInsert(g[i - 1], text[i])
    BY <1>1 DEF Grows, n
  <2>. QED
    BY <1>4, <2>1
<1>5. n \in Q
  <2> HIDE DEF Q
  <2>1. \A i \in 0 .. n : i \in Q
    BY <1>2, <1>3, <1>4, StepByStep
  <2>. QED
    BY <1>2, <2>1
<1>. QED
  BY <1>1, <1>5 DEF n

\* A word more in the text.
LEMMA GrowAppend ==
  ASSUME NEW W, NEW v \in Seq(W), NEW text \in Seq(W), NEW w \in W
  PROVE  GrowVocabulary(v, Append(text, w)) = GetOrInsert(GrowVocabulary(v, text), w)
<1> DEFINE n == Len(text)
           longer == Append(text, w)
<1>1. PICK g \in [0 .. n -> Seq(W)] : Grows(g, v, text) /\ GrowVocabulary(v, text) = g[n]
  BY GrowChain
<1>2. /\ n \in Nat /\ longer \in Seq(W) /\ Len(longer) = n + 1 /\ longer[n + 1] = w
      /\ \A i \in 1 .. n : longer[i] = text[i]
  OBVIOUS
<1> DEFINE h == [i \in 0 .. n + 1 |-> IF i <= n THEN g[i] ELSE GetOrInsert(g[n], w)]
<1>3. \A i \in 1 .. n : g[i] = GetOrInsert(g[i - 1], text[i])
  BY <1>1 DEF Grows
<1>4. g[0] = v
  BY <1>1 DEF Grows
<1> HIDE DEF n, longer
<1>5. Grows(h, v, longer)
  <2>1. h[0] = v
    BY <1>2, <1>4
  <2>2. ASSUME NEW i \in 1 .. n + 1 PROVE h[i] = GetOrInsert(h[i - 1], longer[i])
    <3>1. CASE i \in 1 .. n
      <4>1. h[i] = g[i] /\ h[i - 1] = g[i - 1] /\ longer[i] = text[i]
        BY <1>2, <3>1
      <4>. QED
        BY <1>3, <3>1, <4>1
    <3>2. CASE i = n + 1
      <4>1. h[i] = GetOrInsert(g[n], w) /\ h[i - 1] = g[n] /\ longer[i] = w
        BY <1>2, <3>2
      <4>. QED
        BY <4>1
    <3>. QED
      BY <1>2, <3>1, <3>2
  <2> HIDE DEF h
  <2>. QED
    BY <1>2, <2>1, <2>2 DEF Grows
<1>6. h[n + 1] = GetOrInsert(g[n], w)
  BY <1>2
<1> HIDE DEF h
<1>7. h[n + 1] = GrowVocabulary(v, longer)
  BY <1>2, <1>5, GrowUnique
<1>. QED
  BY <1>1, <1>6, <1>7 DEF n, longer

\* The words of two texts, one after the other.
LEMMA GrowConcat ==
  ASSUME NEW W, NEW v \in Seq(W), NEW a \in Seq(W), NEW b \in Seq(W)
  PROVE  GrowVocabulary(v, a \o b) = GrowVocabulary(GrowVocabulary(v, a), b)
<1> DEFINE n == Len(a)
           m == Len(b)
           both == a \o b
<1>1. PICK g \in [0 .. n -> Seq(W)] : Grows(g, v, a) /\ GrowVocabulary(v, a) = g[n]
  BY GrowChain
<1>2. n \in Nat /\ m \in Nat /\ g[n] \in Seq(W)
  BY <1>1
<1>3. PICK k \in [0 .. m -> Seq(W)] : Grows(k, g[n], b) /\ GrowVocabulary(g[n], b) = k[m]
  BY <1>2, GrowChain
<1>4. /\ both \in Seq(W) /\ Len(both) = n + m
      /\ \A i \in 1 .. n : both[i] = a[i]
      /\ \A i \in 1 .. m : both[n + i] = b[i]
  OBVIOUS
<1> DEFINE h == [i \in 0 .. n + m |-> IF i <= n THEN g[i] ELSE k[i - n]]
<1>5. g[0] = v /\ \A i \in 1 .. n : g[i] = GetOrInsert(g[i - 1], a[i])
  BY <1>1 DEF Grows
<1>6. k[0] = g[n] /\ \A i \in 1 .. m : k[i] = GetOrInsert(k[i - 1], b[i])
  BY <1>3 DEF Grows
<1> HIDE DEF n, m, both
<1>7. Grows(h, v, both)
  <2>1. h[0] = v
    BY <1>2, <1>5
  <2>2. ASSUME NEW i \in 1 .. n + m PROVE h[i] = GetOrInsert(h[i - 1], both[i])
    <3>1. CASE i \in 1 .. n
      <4>1. h[i] = g[i] /\ h[i - 1] = g[i - 1] /\ both[i] = a[i]
        BY <1>2, <1>4, <3>1
      <4>. QED
        BY <1>5, <3>1, <4>1
    <3>2. CASE i = n + 1
      <4>1. /\ i - n = 1 /\ h[i] = k[1] /\ h[i - 1] = k[0] /\ both[i] = b[1]
            /\ 1 \in 1 .. m /\ 1 - 1 = 0
        BY <1>2, <1>4, <1>6, <3>2
      <4>. QED
        BY <1>6, <4>1
    <3>3. CASE i > n + 1
      <4>1. /\ i - n \in 1 .. m /\ (i - n) - 1 = (i - 1) - n /\ n + (i - n) = i
            /\ h[i] = k[i - n] /\ h[i - 1] = k[(i - 1) - n]
        BY <1>2, <3>3
      <4>2. both[i] = b[i - n]
        BY <1>4, <4>1
      <4>. QED
        BY <1>6, <4>1, <4>2
    <3>. QED
      BY <1>2, <3>1, <3>2, <3>3
  <2> HIDE DEF h
  <2>. QED
    BY <1>4, <2>1, <2>2 DEF Grows
<1>8. h[n + m] = k[m]
  <2>1. CASE m = 0
    BY <1>2, <1>6, <2>1
  <2>2. CASE m > 0
    BY <1>2, <2>2
  <2>. QED
    BY <1>2, <2>1, <2>2
<1> HIDE DEF h
<1>9. h[n + m] = GrowVocabulary(v, both)
  BY <1>4, <1>7, GrowUnique
<1>. QED
  BY <1>1, <1>3, <1>8, <1>9 DEF both

\* u has the words of v where v has them.
Extends(u, v) == Len(v) <= Len(u) /\ \A i \in 1 .. Len(v) : u[i] = v[i]

\* What adding a word leaves and adds.
LEMMA InsertFacts ==
  ASSUME NEW W, NEW v \in Seq(W), NEW w \in W
  PROVE  /\ Extends(GetOrInsert(v, w), v)
         /\ \A x : Contains(GetOrInsert(v, w), x) <=> Contains(v, x) \/ x = w
         /\ AreDistinct(v, W) => AreDistinct(GetOrInsert(v, w), W)
<1>1. CASE Contains(v, w)
  BY <1>1 DEF GetOrInsert, Contains, Extends
<1>2. CASE ~Contains(v, w)
  <2> DEFINE u == Append(v, w)
             n == Len(v)
  <2>1. GetOrInsert(v, w) = u
    BY <1>2 DEF GetOrInsert
  <2>2. /\ u \in Seq(W) /\ Len(u) = n + 1 /\ n \in Nat /\ u[n + 1] = w
        /\ \A i \in 1 .. n : u[i] = v[i]
    OBVIOUS
  <2>3. \A i \in 1 .. n : v[i] # w
    BY <1>2 DEF Contains
  <2> HIDE DEF u, n
  <2>4. Extends(u, v)
    BY <2>2 DEF Extends, n
  <2>5. \A x : Contains(u, x) <=> Contains(v, x) \/ x = w
    <3>1. ASSUME NEW x, Contains(u, x) PROVE Contains(v, x) \/ x = w
      <4>1. PICK i \in 1 .. n + 1 : u[i] = x
        BY <2>2, <3>1 DEF Contains
      <4>2. CASE i \in 1 .. n
        BY <2>2, <4>1, <4>2 DEF Contains, n
      <4>3. CASE i = n + 1
        BY <2>2, <4>1, <4>3
      <4>. QED
        BY <2>2, <4>2, <4>3
    <3>2. ASSUME NEW x, Contains(v, x) PROVE Contains(u, x)
      <4>1. PICK i \in 1 .. n : v[i] = x
        BY <3>2 DEF Contains, n
      <4>2. i \in 1 .. Len(u) /\ u[i] = x
        BY <2>2, <4>1
      <4>. QED
        BY <4>2 DEF Contains
    <3>3. Contains(u, w)
      <4>1. n + 1 \in 1 .. Len(u)
        BY <2>2
      <4>. QED
        BY <2>2, <4>1 DEF Contains
    <3>. QED
      BY <3>1, <3>2, <3>3
  <2>6. ASSUME AreDistinct(v, W) PROVE AreDistinct(u, W)
    <3>1. \A i, j \in 1 .. n : v[i] = v[j] => i = j
      BY <2>6 DEF AreDistinct, n
    <3>2. ASSUME NEW i \in 1 .. n + 1, NEW j \in 1 .. n + 1, u[i] = u[j] PROVE i = j
      <4>1. CASE i \in 1 .. n /\ j \in 1 .. n
        BY <2>2, <3>1, <3>2, <4>1
      <4>2. CASE i = n + 1 /\ j \in 1 .. n
        BY <2>2, <2>3, <3>2, <4>2
      <4>3. CASE i \in 1 .. n /\ j = n + 1
        BY <2>2, <2>3, <3>2, <4>3
      <4>. QED
        BY <2>2, <4>1, <4>2, <4>3
    <3>3. DOMAIN u = 1 .. n + 1
      BY <2>2
    <3>. QED
      BY <2>2, <3>2, <3>3 DEF AreDistinct
  <2>. QED
    BY <2>1, <2>4, <2>5, <2>6
<1>. QED
  BY <1>1, <1>2

\* The words of the vocabulary keep their ids; the words of the text are added,
\* and no word is there twice.
LEMMA GrowFacts ==
  ASSUME NEW W, NEW v \in Seq(W), NEW text \in Seq(W)
  PROVE  /\ GrowVocabulary(v, text) \in Seq(W)
         /\ Extends(GrowVocabulary(v, text), v)
         /\ \A x : Contains(GrowVocabulary(v, text), x) <=> Contains(v, x) \/ Contains(text, x)
         /\ AreDistinct(v, W) => AreDistinct(GrowVocabulary(v, text), W)
<1> DEFINE n == Len(text)
<1>1. PICK g \in [0 .. n -> Seq(W)] : Grows(g, v, text) /\ GrowVocabulary(v, text) = g[n]
  BY GrowChain
<1> DEFINE Q == {i \in 0 .. n :
                   /\ Extends(g[i], v)
                   /\ \A x : Contains(g[i], x) <=> Contains(v, x) \/ \E j \in 1 .. i : text[j] = x
                   /\ AreDistinct(v, W) => AreDistinct(g[i], W)}
<1>2. n \in Nat /\ \A i \in 1 .. n : text[i] \in W
  OBVIOUS
<1> HIDE DEF n
<1>3. 0 \in Q
  BY <1>1, <1>2 DEF Grows, Extends
<1>4. ASSUME NEW i \in 1 .. n, i - 1 \in Q PROVE i \in Q
  <2> DEFINE u == g[i - 1]
             w == text[i]
  <2>1. g[i] = GetOrInsert(u, w) /\ u \in Seq(W) /\ w \in W
    <3>1. i - 1 \in 0 .. n
      BY <1>2
    <3>. QED
      BY <1>1, <1>2, <3>1 DEF Grows, n
  <2>2. /\ Extends(u, v)
        /\ \A x : Contains(u, x) <=> Contains(v, x) \/ \E j \in 1 .. i - 1 : text[j] = x
        /\ AreDistinct(v, W) => AreDistinct(u, W)
    BY <1>4
  <2> HIDE DEF u, w
  <2>3. /\ Extends(g[i], u)
        /\ \A x : Contains(g[i], x) <=> Contains(u, x) \/ x = w
        /\ AreDistinct(u, W) => AreDistinct(g[i], W)
    BY <2>1, InsertFacts
  <2>4. Extends(g[i], v)
    <3>1. Len(u) \in Nat /\ Len(v) \in Nat /\ Len(g[i]) \in Nat
      BY <1>1, <2>1
    <3>. QED
      BY <2>2, <2>3, <3>1 DEF Extends
  <2>5. \A x : (\E j \in 1 .. i : text[j] = x) <=> (\E j \in 1 .. i - 1 : text[j] = x) \/ x = w
    <3>1. 1 .. i = (1 .. i - 1) \cup {i}
      BY <1>2
    <3>. QED
      BY <3>1 DEF w
  <2>6. \A x : Contains(g[i], x) <=> Contains(v, x) \/ \E j \in 1 .. i : text[j] = x
    BY <2>2, <2>3, <2>5, Zenon
  <2>. QED
    BY <1>2, <2>2, <2>3, <2>4, <2>6
<1>5. n \in Q
  <2> HIDE DEF Q
  <2>1. \A i \in 0 .. n : i \in Q
    BY <1>2, <1>3, <1>4, StepByStep
  <2>. QED
    BY <1>2, <2>1
<1>6. \A x : Contains(text, x) <=> \E j \in 1 .. n : text[j] = x
  BY DEF Contains, n
<1>7. g[n] \in Seq(W)
  BY <1>1, <1>2
<1>8. /\ Extends(g[n], v)
      /\ \A x : Contains(g[n], x) <=> Contains(v, x) \/ \E j \in 1 .. n : text[j] = x
      /\ AreDistinct(v, W) => AreDistinct(g[n], W)
  BY <1>5
<1>. QED
  BY <1>1, <1>6, <1>7, <1>8, Zenon

\* Adding the distinct words of a text in the order in which they first occur gives
\* the same ids as adding its words.
LEMMA GrowByDistinct ==
  ASSUME NEW W, NEW v \in Seq(W), NEW text \in Seq(W)
  PROVE  GrowVocabulary(v, GrowVocabulary(<<>>, text)) = GrowVocabulary(v, text)
<1> DEFINE n == Len(text)
<1>1. <<>> \in Seq(W) /\ n \in Nat /\ \A i \in 1 .. n : text[i] \in W
  OBVIOUS
<1>2. PICK g \in [0 .. n -> Seq(W)] : Grows(g, v, text) /\ GrowVocabulary(v, text) = g[n]
  BY GrowChain
<1>3. PICK h \in [0 .. n -> Seq(W)] : Grows(h, <<>>, text) /\ GrowVocabulary(<<>>, text) = h[n]
  BY <1>1, GrowChain
<1> DEFINE Q == {i \in 0 .. n : GrowVocabulary(v, h[i]) = g[i]}
<1>4. g[0] = v /\ \A i \in 1 .. n : g[i] = GetOrInsert(g[i - 1], text[i])
  BY <1>2 DEF Grows
<1>5. h[0] = <<>> /\ \A i \in 1 .. n : h[i] = GetOrInsert(h[i - 1], text[i])
  BY <1>3 DEF Grows
<1> HIDE DEF n
<1>6. 0 \in Q
  <2> DEFINE k == [i \in 0 .. 0 |-> v]
  <2>1. Grows(k, v, <<>>) /\ k[Len(<<>>)] = v
    BY DEF Grows
  <2> HIDE DEF k
  <2>2. GrowVocabulary(v, <<>>) = v
    BY <1>1, <2>1, GrowUnique
  <2>. QED
    BY <1>1, <1>4, <1>5, <2>2
<1>7. ASSUME NEW i \in 1 .. n, i - 1 \in Q PROVE i \in Q
  <2> DEFINE u == h[i - 1]
             w == text[i]
  <2>1. /\ u \in Seq(W) /\ w \in W /\ g[i - 1] \in Seq(W)
        /\ GrowVocabulary(v, u) = g[i - 1]
        /\ h[i] = GetOrInsert(u, w) /\ g[i] = GetOrInsert(g[i - 1], w)
    <3>1. i - 1 \in 0 .. n
      BY <1>1
    <3>. QED
      BY <1>1, <1>2, <1>3, <1>4, <1>5, <1>7, <3>1
  <2> HIDE DEF u, w
  <2>2. GrowVocabulary(v, h[i]) = g[i]
    <3>1. CASE Contains(u, w)
      <4>1. h[i] = u
        BY <2>1, <3>1 DEF GetOrInsert
      <4>2. Contains(g[i - 1], w)
        BY <2>1, <3>1, GrowFacts
      <4>. QED
        BY <2>1, <4>1, <4>2 DEF GetOrInsert
    <3>2. CASE ~Contains(u, w)
      <4>1. h[i] = Append(u, w)
        BY <2>1, <3>2 DEF GetOrInsert
      <4>. QED
        BY <2>1, <4>1, GrowAppend
    <3>. QED
      BY <3>1, <3>2
  <2>. QED
    BY <1>1, <2>2
<1>8. n \in Q
  <2> HIDE DEF Q
  <2>1. \A i \in 0 .. n : i \in Q
    BY <1>1, <1>6, <1>7, StepByStep
  <2>. QED
    BY <1>1, <2>1
<1>. QED
  BY <1>2, <1>3, <1>8

-----------------------------------------------------------------------------
(***************************************************************************)
(* The texts one after the other                                           *)
(***************************************************************************)

\* g[i] is the first i of some texts, one after the other.
Joins(g, texts) == g[0] = <<>> /\ \A i \in 1 .. Len(texts) : g[i] = g[i - 1] \o texts[i]

\* FlattenSeq joins texts one by one, and any function that does ends like it.
LEMMA FlattenJoins ==
  ASSUME NEW W, NEW texts \in Seq(Seq(W))
  PROVE  /\ FlattenSeq(texts) \in Seq(W)
         /\ \E g \in [0 .. Len(texts) -> Seq(W)] : Joins(g, texts)
         /\ \A g : Joins(g, texts) => g[Len(texts)] = FlattenSeq(texts)
<1> DEFINE n == Len(texts)
           V == Seq(W)
           step == [p \in (1 .. n) \X V |-> p[2] \o texts[p[1]]]
<1>1. n \in Nat /\ <<>> \in V /\ (\A i \in 1 .. n : texts[i] \in V) /\ (n = 0 => texts = <<>>)
  OBVIOUS
<1>2. \A i \in 1 .. n, u \in V : step[<<i, u>>] = u \o texts[i]
  OBVIOUS
<1>3. \A i \in 1 .. n, u \in V : step[<<i, u>>] \in V
  <2>1. \A i \in 1 .. n, u \in V : u \o texts[i] \in V
    BY <1>1
  <2>. QED
    BY <1>2, <2>1, Zenon
<1>4. \A u \in V : <<>> \o u = u
  OBVIOUS
<1> HIDE DEF V, n, step
<1>5. PICK g \in [0 .. n -> V], h \in [SUBSET (1 .. n) -> V] :
        IsChain(g, n, <<>>, step) /\ FoldsLast(h, n, <<>>, step) /\ EndsIn(g[n], n, V, <<>>, step)
  BY <1>1, <1>3, FoldIsChain, Zenon
<1>6. \A i \in 1 .. n : i - 1 \in 0 .. n
  BY <1>1
<1>7. g[0] = <<>> /\ \A i \in 1 .. n : g[i] = g[i - 1] \o texts[i]
  <2>1. \A i \in 1 .. n : g[i - 1] \in V /\ g[i] = step[<<i, g[i - 1]>>]
    BY <1>5, <1>6 DEF IsChain
  <2>. QED
    BY <1>2, <1>5, <2>1 DEF IsChain
<1>8. ASSUME NEW k, Joins(k, texts) PROVE k[n] = g[n]
  <2> DEFINE Q == {i \in 0 .. n : k[i] = g[i]}
  <2>1. 0 \in Q
    BY <1>1, <1>7, <1>8 DEF Joins
  <2>2. ASSUME NEW i \in 1 .. n, i - 1 \in Q PROVE i \in Q
    <3>1. k[i] = k[i - 1] \o texts[i] /\ g[i] = g[i - 1] \o texts[i]
      BY <1>7, <1>8 DEF Joins, n
    <3>2. i \in 0 .. n /\ k[i - 1] = g[i - 1]
      BY <1>1, <2>2
    <3>3. k[i] = g[i]
      BY <3>1, <3>2, Zenon
    <3>. QED
      BY <3>2, <3>3
  <2>3. n \in Q
    <3> HIDE DEF Q
    <3>1. \A i \in 0 .. n : i \in Q
      BY <1>1, <2>1, <2>2, StepByStep
    <3>. QED
      BY <1>1, <3>1
  <2>. QED
    BY <2>3
<1>9. FlattenSeq(texts) = g[n]
  <2>1. CASE n = 0
    BY <1>1, <1>7, <2>1 DEF FlattenSeq, n
  <2>2. CASE n # 0
    <3> DEFINE Flattens(f) ==
                 f = [i \in 1 .. n |-> IF i = 1 THEN texts[i] ELSE f[i - 1] \o texts[i]]
               flatten == CHOOSE f : Flattens(f)
               k == [i \in 1 .. n |-> g[i]]
    <3>1. Flattens(k)
      <4>1. ASSUME NEW i \in 1 .. n
            PROVE  g[i] = IF i = 1 THEN texts[i] ELSE k[i - 1] \o texts[i]
        <5>1. CASE i = 1
          <6>1. i - 1 = 0 /\ texts[1] \in V
            BY <1>1, <5>1
          <6>2. g[i] = g[i - 1] \o texts[i]
            BY <1>7, Zenon
          <6>3. <<>> \o texts[1] = texts[1]
            BY <1>4, <6>1, Zenon
          <6>. QED
            BY <1>7, <5>1, <6>1, <6>2, <6>3, Zenon
        <5>2. CASE i # 1
          <6>1. i - 1 \in 1 .. n
            BY <1>1, <5>2
          <6>. QED
            BY <1>7, <5>2, <6>1
        <5>. QED
          BY <5>1, <5>2
      <4>. QED
        BY <4>1
    <3>2. Flattens(flatten)
      <4> HIDE DEF Flattens, k
      <4>. QED
        BY <3>1
    <3> HIDE DEF flatten
    <3>3. flatten[1] = texts[1] /\ \A i \in 2 .. n : flatten[i] = flatten[i - 1] \o texts[i]
      <4>1. flatten = [i \in 1 .. n |-> IF i = 1 THEN texts[i] ELSE flatten[i - 1] \o texts[i]]
        BY <3>2
      <4>2. \A i \in 1 .. n :
              flatten[i] = IF i = 1 THEN texts[i] ELSE flatten[i - 1] \o texts[i]
        BY <4>1, Zenon
      <4>3. 1 \in 1 .. n /\ \A i \in 2 .. n : i \in 1 .. n /\ i # 1
        BY <1>1, <2>2
      <4>. QED
        BY <4>2, <4>3, Zenon
    <3> DEFINE f == [i \in 0 .. n |-> IF i = 0 THEN <<>> ELSE flatten[i]]
    <3>4. Joins(f, texts)
      <4>1. f[0] = <<>>
        BY <1>1
      <4>2. ASSUME NEW i \in 1 .. n PROVE f[i] = f[i - 1] \o texts[i]
        <5>1. CASE i = 1
          <6>1. f[1] = texts[1] /\ f[0] = <<>> /\ texts[1] \in V /\ i - 1 = 0
            BY <1>1, <3>3, <5>1
          <6>. QED
            BY <1>4, <5>1, <6>1
        <5>2. CASE i # 1
          <6>1. f[i] = flatten[i] /\ f[i - 1] = flatten[i - 1] /\ i \in 2 .. n
            BY <1>1, <5>2
          <6>. QED
            BY <3>3, <6>1
        <5>. QED
          BY <5>1, <5>2
      <4>. QED
        BY <4>1, <4>2 DEF Joins, n
    <3>5. f[n] = g[n] /\ f[n] = flatten[n]
      <4>1. f[n] = flatten[n]
        BY <1>1, <2>2
      <4> HIDE DEF f
      <4>. QED
        BY <1>8, <3>4, <4>1
    <3>6. FlattenSeq(texts) = flatten[n]
      BY <2>2 DEF FlattenSeq, n, flatten
    <3>. QED
      BY <3>5, <3>6
  <2>. QED
    BY <2>1, <2>2
<1>10. g[n] \in V /\ Joins(g, texts)
  BY <1>1, <1>5, <1>7 DEF Joins, n
<1>. QED
  BY <1>8, <1>9, <1>10 DEF n, V

\* One text more.
LEMMA FlattenAppend ==
  ASSUME NEW W, NEW texts \in Seq(Seq(W)), NEW text \in Seq(W)
  PROVE  FlattenSeq(Append(texts, text)) = FlattenSeq(texts) \o text
<1> DEFINE n == Len(texts)
           longer == Append(texts, text)
<1>1. /\ n \in Nat /\ longer \in Seq(Seq(W)) /\ Len(longer) = n + 1 /\ longer[n + 1] = text
      /\ \A i \in 1 .. n : longer[i] = texts[i]
  OBVIOUS
<1>2. PICK g \in [0 .. n + 1 -> Seq(W)] : Joins(g, longer)
  <2> HIDE DEF longer, n
  <2>1. \E g \in [0 .. Len(longer) -> Seq(W)] : Joins(g, longer)
    BY <1>1, FlattenJoins
  <2>. QED
    BY <1>1, <2>1
<1> HIDE DEF longer
<1>3. g[n + 1] = FlattenSeq(longer)
  BY <1>1, <1>2, FlattenJoins
<1>4. g[n + 1] = g[n] \o text
  <2>1. n + 1 \in 1 .. n + 1 /\ (n + 1) - 1 = n
    BY <1>1
  <2>. QED
    BY <1>1, <1>2, <2>1 DEF Joins
<1>5. Joins(g, texts)
  <2>1. \A i \in 1 .. n : i \in 1 .. n + 1
    BY <1>1
  <2>. QED
    BY <1>1, <1>2, <2>1 DEF Joins
<1>6. g[n] = FlattenSeq(texts)
  BY <1>5, FlattenJoins
<1>. QED
  BY <1>3, <1>4, <1>6 DEF longer

-----------------------------------------------------------------------------
(***************************************************************************)
(* Tokenised texts                                                         *)
(***************************************************************************)

\* A token: a word and the number of its occurrences.
Token(W) == [word : W, tf : Nat]

\* The tokens of a text are its distinct words with their numbers of occurrences.
LEMMA TokenizeFacts ==
  ASSUME NEW W, NEW text \in Seq(W)
  PROVE  /\ Tokenize(text) \in Seq(Token(W))
         /\ WordsOf(Tokenize(text)) = GrowVocabulary(<<>>, text)
         /\ Len(Tokenize(text)) = Len(GrowVocabulary(<<>>, text))
         /\ \A i \in 1 .. Len(Tokenize(text)) :
              /\ Tokenize(text)[i].word = GrowVocabulary(<<>>, text)[i]
              /\ Tokenize(text)[i].tf
                   = Cardinality({j \in DOMAIN text : text[j] = Tokenize(text)[i].word})
<1> DEFINE u == GrowVocabulary(<<>>, text)
           n == Len(u)
           tf(i) == Cardinality({j \in DOMAIN text : text[j] = u[i]})
           toks == [i \in 1 .. n |-> [word |-> u[i], tf |-> tf(i)]]
<1>1. u \in Seq(W)
  <2>1. <<>> \in Seq(W)
    OBVIOUS
  <2>. QED
    BY <2>1, GrowFacts
<1>2. n \in Nat /\ DOMAIN u = 1 .. n /\ \A i \in 1 .. n : u[i] \in W
  BY <1>1
<1>3. Tokenize(text) = toks
  BY <1>2 DEF Tokenize, GrowVocabulary
<1>4. \A i \in 1 .. n : tf(i) \in Nat
  <2> SUFFICES ASSUME NEW i \in 1 .. n PROVE tf(i) \in Nat
    OBVIOUS
  <2>1. IsFiniteSet(1 .. Len(text)) /\ DOMAIN text = 1 .. Len(text)
    BY FS_Interval
  <2>2. IsFiniteSet({j \in DOMAIN text : text[j] = u[i]})
    BY <2>1, FS_Subset
  <2>. QED
    BY <2>2, FS_CardinalityType
<1> HIDE DEF u, n, tf
<1>5. /\ toks \in Seq(Token(W)) /\ Len(toks) = n
      /\ \A i \in 1 .. n : toks[i].word = u[i] /\ toks[i].tf = tf(i)
  BY <1>2, <1>4 DEF Token
<1>6. WordsOf(toks) = u
  <2>1. DOMAIN toks = 1 .. n /\ u = [i \in 1 .. n |-> u[i]]
    BY <1>1, <1>2
  <2>. QED
    BY <1>5, <2>1 DEF WordsOf
<1> HIDE DEF toks
<1>7. /\ Tokenize(text) \in Seq(Token(W)) /\ WordsOf(Tokenize(text)) = u
      /\ Len(Tokenize(text)) = n
  BY <1>3, <1>5, <1>6
<1>8. ASSUME NEW i \in 1 .. Len(Tokenize(text))
      PROVE  /\ Tokenize(text)[i].word = u[i]
             /\ Tokenize(text)[i].tf
                  = Cardinality({j \in DOMAIN text : text[j] = Tokenize(text)[i].word})
  <2>1. i \in 1 .. n
    BY <1>7
  <2>2. Tokenize(text)[i].word = u[i] /\ Tokenize(text)[i].tf = tf(i)
    BY <1>3, <1>5, <2>1
  <2>. QED
    BY <2>2, Zenon DEF tf
<1>. QED
  BY <1>7, <1>8, Zenon DEF u, n

\* d[i] is the sum of the frequencies of the first i tokens.
Sums(d, toks) == d[0] = 0 /\ \A i \in 1 .. Len(toks) : d[i] = d[i - 1] + toks[i].tf

\* The length of a document is added up token by token.
LEMMA DocLengthChain ==
  ASSUME NEW W, NEW toks \in Seq(Token(W))
  PROVE  \E d \in [0 .. Len(toks) -> Nat] : Sums(d, toks) /\ DocLength(toks) = d[Len(toks)]
<1> DEFINE n == Len(toks)
           step == [p \in (1 .. n) \X Nat |-> p[2] + toks[p[1]].tf]
<1>1. n \in Nat /\ DOMAIN toks = 1 .. n /\ \A i \in 1 .. n : toks[i].tf \in Nat
  <2>1. n \in Nat /\ DOMAIN toks = 1 .. n /\ \A i \in 1 .. n : toks[i] \in Token(W)
    OBVIOUS
  <2>2. \A t \in Token(W) : t.tf \in Nat
    BY DEF Token
  <2> HIDE DEF n
  <2>. QED
    BY <2>1, <2>2
<1>2. \A i \in 1 .. n, c \in Nat : step[<<i, c>>] = c + toks[i].tf
  OBVIOUS
<1>3. \A i \in 1 .. n, c \in Nat : step[<<i, c>>] \in Nat
  <2>1. \A a, b \in Nat : a + b \in Nat
    OBVIOUS
  <2> HIDE DEF n, step
  <2>. QED
    BY <1>1, <1>2, <2>1, Zenon
<1> HIDE DEF n, step
<1>4. PICK d \in [0 .. n -> Nat], h \in [SUBSET (1 .. n) -> Nat] :
        IsChain(d, n, 0, step) /\ FoldsLast(h, n, 0, step) /\ EndsIn(d[n], n, Nat, 0, step)
  <2>1. 0 \in Nat
    OBVIOUS
  <2>. QED
    BY <1>1, <1>3, <2>1, FoldIsChain, Zenon
<1>5. \A s \in SUBSET (1 .. n) : s # {} => Max(s) \in 1 .. n
  <2> SUFFICES ASSUME NEW s \in SUBSET (1 .. n), s # {} PROVE Max(s) \in 1 .. n
    OBVIOUS
  <2>1. Max(s) \in s
    BY <1>1, LargestOf
  <2>. QED
    BY <2>1
<1> DEFINE Recurses(it) ==
             it = [s \in SUBSET (1 .. n) |->
                     IF s = {} THEN 0 ELSE LET x == Max(s) IN it[s \ {x}] + toks[x].tf]
           iter == CHOOSE it : Recurses(it)
<1>6. Recurses(h)
  <2>1. \A s \in SUBSET (1 .. n) : s # {} => h[s \ {Max(s)}] \in Nat
    OBVIOUS
  <2>2. \A s \in SUBSET (1 .. n) :
          h[s] = IF s = {} THEN 0 ELSE h[s \ {Max(s)}] + toks[Max(s)].tf
    BY <1>2, <1>4, <1>5, <2>1 DEF FoldsLast
  <2>. QED
    BY <2>2
<1>7. Recurses(iter)
  <2> HIDE DEF Recurses
  <2>. QED
    BY <1>6
<1> HIDE DEF iter
<1>8. iter[1 .. n] = d[n]
  <2>1. \A s \in SUBSET (1 .. n) :
          iter[s] = IF s = {} THEN 0 ELSE iter[s \ {Max(s)}] + toks[Max(s)].tf
    BY <1>7
  <2>2. \A s \in SUBSET (1 .. n) :
          /\ s = {} => iter[s] = 0
          /\ s # {} /\ iter[s \ {Max(s)}] \in Nat
               => iter[s] = step[<<Max(s), iter[s \ {Max(s)}]>>]
    BY <1>2, <1>5, <2>1
  <2>. QED
    BY <1>4, <2>2 DEF EndsIn, BuiltOn
<1>9. DocLength(toks) = iter[1 .. n]
  BY <1>1 DEF DocLength, FoldLeft, MapThenFoldSet, iter
<1>10. Sums(d, toks)
  <2>1. ASSUME NEW i \in 1 .. n PROVE d[i] = d[i - 1] + toks[i].tf
    <3>1. i - 1 \in 0 .. n
      BY <1>1
    <3>2. d[i - 1] \in Nat /\ d[i] = step[<<i, d[i - 1]>>]
      BY <1>4, <3>1 DEF IsChain
    <3>. QED
      BY <1>2, <3>2
  <2>2. d[0] = 0
    BY <1>4 DEF IsChain
  <2>. QED
    BY <2>1, <2>2 DEF Sums, n
<1>. QED
  BY <1>8, <1>9, <1>10 DEF n

\* The frequencies of the tokens of a text add up to its length.
LEMMA LengthOfText ==
  ASSUME NEW W, NEW text \in Seq(W)
  PROVE  DocLength(Tokenize(text)) = Len(text)
<1> DEFINE toks == Tokenize(text)
           n == Len(toks)
           u == GrowVocabulary(<<>>, text)
           N == Len(text)
           Of(i) == {j \in 1 .. N : text[j] = u[i]}
           Upto(i) == {j \in 1 .. N : \E l \in 1 .. i : text[j] = u[l]}
<1>1. /\ toks \in Seq(Token(W)) /\ n \in Nat /\ n = Len(u) /\ N \in Nat
      /\ \A i \in 1 .. n : toks[i].tf = Cardinality(Of(i))
  <2>1. DOMAIN text = 1 .. N /\ N \in Nat
    OBVIOUS
  <2>2. /\ toks \in Seq(Token(W)) /\ Len(toks) = Len(u)
        /\ \A i \in 1 .. Len(toks) :
             toks[i].word = u[i]
             /\ toks[i].tf = Cardinality({j \in DOMAIN text : text[j] = toks[i].word})
    BY TokenizeFacts
  <2>3. u \in Seq(W)
    BY GrowFacts, <<>> \in Seq(W)
  <2> HIDE DEF toks, u, Of
  <2>4. \A i \in 1 .. n : toks[i].tf = Cardinality(Of(i))
    <3> SUFFICES ASSUME NEW i \in 1 .. n PROVE toks[i].tf = Cardinality(Of(i))
      OBVIOUS
    <3>1. toks[i].word = u[i]
          /\ toks[i].tf = Cardinality({j \in DOMAIN text : text[j] = toks[i].word})
      BY <2>2
    <3>2. {j \in DOMAIN text : text[j] = toks[i].word} = Of(i)
      BY <2>1, <3>1, Zenon DEF Of
    <3>. QED
      BY <3>1, <3>2
  <2>5. n \in Nat /\ n = Len(u)
    BY <2>2, <2>3
  <2>. QED
    BY <2>1, <2>2, <2>4, <2>5
<1>2. /\ AreDistinct(u, W) /\ \A x : Contains(u, x) <=> Contains(text, x)
  <2>1. <<>> \in Seq(W) /\ AreDistinct(<<>>, W) /\ \A x : ~Contains(<<>>, x)
    BY DEF AreDistinct, Contains
  <2>. QED
    BY <2>1, GrowFacts
<1>3. PICK d \in [0 .. n -> Nat] : Sums(d, toks) /\ DocLength(toks) = d[n]
  BY <1>1, DocLengthChain
<1>4. \A i, k \in 1 .. n : u[i] = u[k] => i = k
  BY <1>1, <1>2 DEF AreDistinct
<1> HIDE DEF toks, n, u, N
<1>5. \A i \in 0 .. n : IsFiniteSet(Of(i)) /\ IsFiniteSet(Upto(i))
  <2>1. IsFiniteSet(1 .. N)
    BY <1>1, FS_Interval
  <2>. QED
    BY <2>1, FS_Subset
<1> DEFINE Q == {i \in 0 .. n : d[i] = Cardinality(Upto(i))}
<1>6. 0 \in Q
  <2>1. Upto(0) = {}
    OBVIOUS
  <2>2. d[0] = 0 /\ 0 \in 0 .. n
    BY <1>1, <1>3 DEF Sums
  <2>3. Cardinality(Upto(0)) = 0
    BY <2>1, FS_EmptySet, Zenon
  <2>. QED
    BY <2>2, <2>3, Zenon
<1>7. ASSUME NEW i \in 1 .. n, i - 1 \in Q PROVE i \in Q
  <2>1. Upto(i) = Upto(i - 1) \cup Of(i)
    <3>1. 1 .. i = (1 .. i - 1) \cup {i}
      BY <1>1
    <3>. QED
      BY <3>1
  <2>2. Upto(i - 1) \cap Of(i) = {}
    <3>1. \A l \in 1 .. i - 1 : l \in 1 .. n /\ l # i
      BY <1>1
    <3>. QED
      BY <1>4, <3>1
  <2>3. i \in 0 .. n /\ i - 1 \in 0 .. n /\ d[i - 1] = Cardinality(Upto(i - 1))
    BY <1>1, <1>7
  <2>4. d[i] = d[i - 1] + Cardinality(Of(i))
    BY <1>1, <1>3 DEF Sums, n
  <2>5. IsFiniteSet(Of(i)) /\ IsFiniteSet(Upto(i - 1))
    BY <1>5, <2>3
  <2> HIDE DEF Upto, Of
  <2>6. /\ Cardinality(Upto(i - 1) \cup Of(i))
             = Cardinality(Upto(i - 1)) + Cardinality(Of(i)) - Cardinality({})
        /\ Cardinality({}) = 0 /\ Cardinality(Of(i)) \in Nat /\ Cardinality(Upto(i - 1)) \in Nat
    <3> DEFINE A == Upto(i - 1)
               B == Of(i)
    <3>1. IsFiniteSet(A) /\ IsFiniteSet(B) /\ A \cap B = {}
      BY <2>2, <2>5
    <3> HIDE DEF A, B
    <3>2. Cardinality(A \cup B) = Cardinality(A) + Cardinality(B) - Cardinality(A \cap B)
      BY <3>1, FS_Union, Zenon
    <3>3. Cardinality({}) = 0
      BY FS_EmptySet
    <3>4. Cardinality(A) \in Nat /\ Cardinality(B) \in Nat
      BY <3>1, FS_CardinalityType, Zenon
    <3>5. Cardinality(A \cup B) = Cardinality(A) + Cardinality(B) - Cardinality({})
      BY <3>1, <3>2, Zenon
    <3>. QED
      BY <3>3, <3>4, <3>5, Zenon DEF A, B
  <2>7. d[i] = Cardinality(Upto(i))
    BY <2>1, <2>3, <2>4, <2>6
  <2>. QED
    BY <2>3, <2>7
<1>8. d[n] = Cardinality(Upto(n))
  <2> HIDE DEF Q
  <2>1. \A i \in 0 .. n : i \in Q
    BY <1>1, <1>6, <1>7, StepByStep
  <2>2. n \in Q
    BY <1>1, <2>1
  <2>. QED
    BY <2>2 DEF Q
<1>9. Upto(n) = 1 .. N
  <2> SUFFICES ASSUME NEW j \in 1 .. N PROVE \E l \in 1 .. n : text[j] = u[l]
    OBVIOUS
  <2>1. Contains(text, text[j])
    BY DEF Contains, N
  <2>. QED
    BY <1>1, <1>2, <2>1 DEF Contains
<1>10. Cardinality(1 .. N) = N
  BY <1>1, FS_Interval
<1>. QED
  BY <1>3, <1>8, <1>9, <1>10 DEF toks, N

-----------------------------------------------------------------------------
(***************************************************************************)
(* As many lengths as documents                                            *)
(***************************************************************************)

\* The phases of build once the index is written.
Publishing == {"build_clean", "dat_write", "dat_flush", "cbor_write", "vocab_write", "returned"}

\* doc_lengths is empty or as long as the documents of the Indexer; build
\* writes it when those are the whole collection; docmeta.cbor counts one or
\* the other.
Aligned ==
  /\ collection \in Collections
  /\ IsSequence(docs) /\ IsSequence(lengths) /\ IsSequence(dat)
  /\ Len(lengths) \in {0, Len(docs)}
  /\ checkpoint # NoFile => IsSequence(checkpoint.content)
  /\ stage \in Publishing => Len(docs) = Len(collection)
  /\ cbor \in {NoFile, Torn} \/ cbor.content \in {0, Len(collection)}

\* It holds initially.
LEMMA AlignedInit == BowInit => Aligned
BY EmptySequence DEF BowInit, Aligned, Publishing

\* Inserting a document keeps the lengths aligned with the Indexer.
LEMMA InsertAligned ==
  ASSUME Aligned, NEW toks, Insert(toks)
  PROVE  /\ IsSequence(docs') /\ IsSequence(lengths')
         /\ Len(lengths') = Len(docs')
<1>1. Len(docs) \in Nat /\ Len(lengths) <= Len(docs)
  BY SequenceLength DEF Aligned
<1>2. IsSequence(docs') /\ Len(docs') = Len(docs) + 1
  BY AppendSequence DEF Insert, Aligned
<1>3. IsSequence(lengths') /\ Len(lengths') = Len(docs) + 1
  BY <1>1, SetLengthReaches DEF Insert, Aligned, Next0
<1>. QED
  BY <1>2, <1>3

\* Every step of the builder keeps it.
LEMMA AlignedStep == Aligned /\ [BowNext]_bowVars => Aligned'
<1> SUFFICES ASSUME Aligned, [BowNext]_bowVars PROVE Aligned'
  OBVIOUS
<1>1. ASSUME NEW f \in Frequencies, OpenBow(f) PROVE Aligned'
  BY <1>1, EmptySequence DEF OpenBow, Aligned, Publishing, asked
<1>2. CASE LoseBuilder
  BY <1>2, EmptySequence DEF LoseBuilder, Aligned, Publishing, files
<1>3. CASE Add
  <2>1. IsSequence(docs') /\ IsSequence(lengths') /\ Len(lengths') = Len(docs')
    BY <1>3, InsertAligned DEF Add
  <2>2. stage' \notin Publishing
    BY <1>3 DEF Add, AfterInsert, Publishing
  <2>. QED
    BY <1>3, <2>1, <2>2 DEF Add, Aligned, files, asked
<1>4. CASE InsertNext
  <2>1. IsSequence(docs') /\ IsSequence(lengths') /\ Len(lengths') = Len(docs')
    BY <1>4, InsertAligned DEF InsertNext
  <2>2. stage' \notin Publishing
    BY <1>4 DEF InsertNext, AfterInsert, Publishing
  <2>. QED
    BY <1>4, <2>1, <2>2 DEF InsertNext, Aligned, files, asked
<1>5. ASSUME NEW n \in 2 .. MaxBatch, BeginBatch(n) PROVE Aligned'
  BY <1>5 DEF BeginBatch, Aligned, Publishing, asked, files, inMemory
<1>6. ASSUME NEW d \in batch, TokenizeOne(d) PROVE Aligned'
  BY <1>6 DEF TokenizeOne, Aligned, Publishing, asked, files, inMemory
<1>7. CASE Collected \/ EndBatch
  BY <1>7 DEF Collected, EndBatch, Aligned, Publishing, asked, files, inMemory
<1>8. CASE Checkpoint
  BY <1>8 DEF Checkpoint, Whole, Aligned, Publishing, asked
<1>9. CASE BuildIndex
  BY <1>9 DEF BuildIndex, Next0, Aligned, Publishing, asked, inMemory
<1>10. CASE RemoveCheckpoint
  BY <1>10 DEF RemoveCheckpoint, Aligned, Publishing, asked, inMemory
<1>11. ASSUME NEW n \in 0 .. Len(lengths), WriteLengths(n) PROVE Aligned'
  <2>1. IsSequence(dat')
    BY <1>11, PrefixSequence DEF WriteLengths, Aligned
  <2>. QED
    BY <1>11, <2>1 DEF WriteLengths, Aligned, Publishing, asked, inMemory
<1>12. CASE FlushLengths
  BY <1>12 DEF FlushLengths, Aligned, Publishing, asked, inMemory
<1>13. CASE WriteInfo
  BY <1>13 DEF WriteInfo, Whole, Aligned, Publishing, asked, inMemory
<1>14. CASE SaveVocabulary
  BY <1>14 DEF SaveVocabulary, Aligned, Publishing, asked, inMemory
<1>15. CASE Returned \/ UNCHANGED bowVars
  BY <1>15 DEF Returned, Aligned, bowVars
<1>. QED
  BY <1>1, <1>2, <1>3, <1>4, <1>5, <1>6, <1>7, <1>8, <1>9, <1>10, <1>11, <1>12, <1>13,
     <1>14, <1>15 DEF BowNext

\* What is loaded has as many lengths as docmeta.cbor says: none, or one for
\* every document of the collection.
THEOREM LengthsAreAllOrNothing == BowSpec => []LengthsAllOrNothing
<1>1. Aligned => LengthsAllOrNothing
  <2> SUFFICES ASSUME Aligned, LoadLengths # NoFile
               PROVE  Len(LoadLengths.content) \in {0, Len(collection)}
    BY DEF LengthsAllOrNothing
  <2>1. /\ cbor \notin {NoFile, Torn} /\ cbor.content <= Len(dat)
        /\ LoadLengths.content = SubSeq(dat, 1, cbor.content)
    BY DEF LoadLengths, Whole
  <2>2. cbor.content \in {0, Len(collection)}
    BY <2>1 DEF Aligned
  <2>3. cbor.content \in 0 .. Len(dat)
    BY <2>1, <2>2, SequenceLength, BowAssumption DEF Aligned
  <2>. QED
    BY <2>1, <2>2, <2>3, PrefixSequence DEF Aligned
<1>. QED
  BY <1>1, AlignedInit, AlignedStep, PTL DEF BowSpec

-----------------------------------------------------------------------------
(***************************************************************************)
(* Types and batches                                                       *)
(***************************************************************************)

\* A batch is what is left of a run of documents that starts at the next one, and
\* workers have tokenised documents of the collection; while they are inserted
\* all of them are there.  Outside a batch nothing is left of it.
Batched ==
  /\ \E m \in Next0 .. Len(collection) : batch = Next0 .. m - 1
  /\ \A d \in DOMAIN tokens : tokens[d] = Tokenize(collection[d + 1])
  /\ stage \in {"inserting", "checkpoint"} => batch \subseteq DOMAIN tokens
  /\ stage \notin {"tokenising", "inserting", "checkpoint"} => batch = {} /\ DOMAIN tokens = {}

\* A checkpoint has documents: it is taken after one was added.
Resumable ==
  /\ checkpoint # NoFile => checkpoint = Whole(checkpoint.content) /\ Len(checkpoint.content) \in 1 .. Len(collection)
  /\ stage = "checkpoint" => docs # <<>>

Typed == BowTypeOK /\ Aligned /\ Batched /\ Resumable

\* The part of BowTypeOK about the files, and the part about the memory of the process.
FilesTyped ==
  /\ collection \in Collections /\ analyzed \in BOOLEAN
  /\ crashes \in 0 .. MaxCrashes /\ frequency \in Nat /\ first \in Nat
  /\ \A f \in {checkpoint, index} :
       \/ f \in {NoFile, Torn}
       \/ f.state = "complete" /\ Len(f.content) <= Len(collection)
  /\ dat \in Seq(Nat)
  /\ cbor \in {NoFile, Torn} \cup {Whole(n) : n \in 0 .. Len(collection)}
  /\ vocabFile \in {NoFile, Torn} \/ vocabFile.content \in Seq(Words)

MemoryTyped ==
  /\ ckptDoc \in Ids \cup {NoDoc}
  /\ Len(docs) <= Len(collection)
  /\ lengths \in Seq(Nat) /\ Len(lengths) <= Len(collection)
  /\ vocab \in Seq(Words)
  /\ batch \subseteq Ids /\ DOMAIN tokens \subseteq Ids

\* Together they are BowTypeOK.
LEMMA TypeParts == BowTypeOK <=> FilesTyped /\ MemoryTyped
BY Zenon DEF BowTypeOK, FilesTyped, MemoryTyped

\* A step that leaves the files, the memory or the batch alone.
LEMMA Frames ==
  /\ FilesTyped /\ UNCHANGED <<asked, files, opened>> => FilesTyped'
  /\ MemoryTyped /\ UNCHANGED <<asked, inMemory, batch, tokens>> => MemoryTyped'
  /\ Batched /\ UNCHANGED <<asked, docs, stage, batch, tokens>> => Batched'
<1>1. ASSUME FilesTyped, UNCHANGED <<asked, files, opened>> PROVE FilesTyped'
  BY <1>1 DEF FilesTyped, asked, files, opened
<1>2. ASSUME MemoryTyped, UNCHANGED <<asked, inMemory, batch, tokens>> PROVE MemoryTyped'
  BY <1>2 DEF MemoryTyped, asked, inMemory, Ids
<1>3. ASSUME Batched, UNCHANGED <<asked, docs, stage, batch, tokens>> PROVE Batched'
  BY <1>3 DEF Batched, asked, Next0
<1>. QED
  BY <1>1, <1>2, <1>3

\* The texts of the collection are sequences of words.
LEMMA SourceTexts ==
  ASSUME BowTypeOK
  PROVE  /\ collection \in Seq(Seq(Words)) /\ Len(collection) \in Nat /\ DOMAIN collection = 1 .. Len(collection)
         /\ \A d \in Ids : d \in Nat /\ d + 1 \in 1 .. Len(collection) /\ collection[d + 1] \in Seq(Words)
<1>1. collection \in Seq(Seq(Words))
  BY BowAssumption DEF BowTypeOK
<1>2. Len(collection) \in Nat /\ \A i \in 1 .. Len(collection) : collection[i] \in Seq(Words)
  BY <1>1
<1>. QED
  BY <1>1, <1>2 DEF Ids

\* Entry d of doc_lengths is set.
LEMMA SetLengthType ==
  ASSUME NEW ls \in Seq(Nat), NEW d \in Nat, Len(ls) <= d, NEW length \in Nat
  PROVE  /\ SetLength(ls, d, length) \in Seq(Nat)
         /\ Len(SetLength(ls, d, length)) = d + 1
         /\ SetLength(ls, d, length)[d + 1] = length
         /\ \A i \in 1 .. Len(ls) : SetLength(ls, d, length)[i] = ls[i]
<1> DEFINE longer == [i \in 1 .. d + 1 |->
                        IF i = d + 1 THEN length ELSE IF i <= Len(ls) THEN ls[i] ELSE 0]
<1>1. SetLength(ls, d, length) = longer
  BY DEF SetLength
<1>2. \A i \in 1 .. d + 1 :
        (IF i = d + 1 THEN length ELSE IF i <= Len(ls) THEN ls[i] ELSE 0) \in Nat
  OBVIOUS
<1>3. longer \in Seq(Nat) /\ Len(longer) = d + 1
  BY <1>2
<1>4. longer[d + 1] = length /\ \A i \in 1 .. Len(ls) : longer[i] = ls[i]
  OBVIOUS
<1> HIDE DEF longer
<1>. QED
  BY <1>1, <1>3, <1>4

\* What inserting document d does, when the tokens are its own.
LEMMA InsertTyped ==
  ASSUME Typed, NEW d \in Ids, d = Next0, Insert(Tokenize(collection[d + 1]))
  PROVE  /\ lengths' \in Seq(Nat) /\ Len(lengths') = d + 1
         /\ lengths'[d + 1] = Len(collection[d + 1])
         /\ \A i \in 1 .. Len(lengths) : lengths'[i] = lengths[i]
         /\ vocab' \in Seq(Words)
         /\ vocab' = IF analyzed THEN GrowVocabulary(vocab, collection[d + 1]) ELSE vocab
         /\ IsSequence(docs') /\ docs' = Append(docs, PostingsOf(Tokenize(collection[d + 1]), vocab'))
         /\ Len(docs') = d + 1
<1> DEFINE text == collection[d + 1]
           toks == Tokenize(text)
<1>1. d \in Nat /\ text \in Seq(Words)
  BY SourceTexts DEF Typed
<1>2. /\ Len(lengths) <= d /\ lengths \in Seq(Nat) /\ vocab \in Seq(Words)
      /\ IsSequence(docs) /\ Len(docs) = d
  BY <1>1 DEF Typed, BowTypeOK, Aligned, Next0
<1>3. DocLength(toks) = Len(text) /\ Len(text) \in Nat
  BY <1>1, LengthOfText
<1>4. WordsOf(toks) = GrowVocabulary(<<>>, text)
  BY <1>1, TokenizeFacts
<1>5. /\ lengths' = SetLength(lengths, d, DocLength(toks))
      /\ vocab' = IF analyzed THEN GrowVocabulary(vocab, WordsOf(toks)) ELSE vocab
      /\ docs' = Append(docs, PostingsOf(toks, vocab'))
  BY DEF Insert
<1> HIDE DEF toks, text
<1>6. GrowVocabulary(vocab, WordsOf(toks)) = GrowVocabulary(vocab, text)
  BY <1>1, <1>2, <1>4, GrowByDistinct
<1>7. GrowVocabulary(vocab, text) \in Seq(Words)
  BY <1>1, <1>2, GrowFacts
<1>8. /\ lengths' \in Seq(Nat) /\ Len(lengths') = d + 1 /\ lengths'[d + 1] = Len(text)
      /\ \A i \in 1 .. Len(lengths) : lengths'[i] = lengths[i]
  <2>1. SetLength(lengths, d, DocLength(toks)) = lengths'
    BY <1>5
  <2>2. DocLength(toks) \in Nat
    BY <1>3
  <2>3. lengths \in Seq(Nat) /\ d \in Nat /\ Len(lengths) <= d
    BY <1>1, <1>2
  <2>4. /\ SetLength(lengths, d, DocLength(toks)) \in Seq(Nat)
        /\ Len(SetLength(lengths, d, DocLength(toks))) = d + 1
        /\ SetLength(lengths, d, DocLength(toks))[d + 1] = DocLength(toks)
        /\ \A i \in 1 .. Len(lengths) :
             SetLength(lengths, d, DocLength(toks))[i] = lengths[i]
    BY <2>2, <2>3, SetLengthType, Zenon
  <2>. QED
    BY <1>3, <2>1, <2>4, Zenon
<1>9. IsSequence(docs') /\ Len(docs') = d + 1
  BY <1>2, <1>5, AppendSequence
<1>10. /\ vocab' = IF analyzed THEN GrowVocabulary(vocab, text) ELSE vocab
       /\ vocab' \in Seq(Words)
  <2>1. CASE analyzed
    BY <1>5, <1>6, <1>7, <2>1, Zenon
  <2>2. CASE ~analyzed
    BY <1>2, <1>5, <2>2, Zenon
  <2>. QED
    BY <2>1, <2>2, Zenon
<1>. QED
  BY <1>5, <1>8, <1>9, <1>10 DEF text, toks

\* The tokens taken by the next insertion of a batch are those of the next document.
LEMMA NextOfBatch ==
  ASSUME Typed, stage = "inserting", batch # {}
  PROVE  /\ Next0 \in Ids /\ Next0 \in batch
         /\ tokens[Next0] = Tokenize(collection[Next0 + 1])
         /\ \E m \in Next0 + 1 .. Len(collection) : batch \ {Next0} = Next0 + 1 .. m - 1
<1>1. Len(collection) \in Nat /\ Next0 \in Nat
  BY SourceTexts, SequenceLength DEF Typed, Aligned, Next0
<1>2. PICK m \in Next0 .. Len(collection) : batch = Next0 .. m - 1
  BY DEF Typed, Batched
<1>3. m > Next0 /\ Next0 \in batch /\ m \in Next0 + 1 .. Len(collection)
  BY <1>1, <1>2
<1>4. batch \ {Next0} = Next0 + 1 .. m - 1
  BY <1>1, <1>2, <1>3
<1>5. Next0 \in DOMAIN tokens
  BY <1>3 DEF Typed, Batched
<1>. QED
  BY <1>1, <1>3, <1>4, <1>5 DEF Typed, Batched, Ids

\* The invariant holds initially.
LEMMA TypedInit == BowInit => Typed
<1> SUFFICES ASSUME BowInit PROVE Typed
  OBVIOUS
<1>1. Aligned
  BY AlignedInit
<1>2. /\ NumWords \in Nat \ {0} /\ Collections \subseteq Seq(Seq(Words)) /\ MaxCrashes \in Nat
  BY BowAssumption
<1>3. collection \in Seq(Seq(Words)) /\ Len(collection) \in Nat
  BY <1>2 DEF BowInit
<1>4. BowTypeOK
  BY <1>2, <1>3 DEF BowInit, BowTypeOK
<1>5. Batched
  BY <1>3 DEF BowInit, Batched, Next0
<1>6. Resumable
  BY DEF BowInit, Resumable
<1>. QED
  BY <1>1, <1>4, <1>5, <1>6 DEF Typed

\* Every step keeps it.
LEMMA TypedStep == Typed /\ [BowNext]_bowVars => Typed'
<1> SUFFICES ASSUME Typed, [BowNext]_bowVars PROVE Typed'
  OBVIOUS
<1> DEFINE Goal == FilesTyped' /\ MemoryTyped' /\ Batched' /\ Resumable'
<1>0. /\ Aligned' /\ Len(collection) \in Nat /\ Next0 \in Nat /\ collection \in Seq(Seq(Words))
      /\ Next0 = Len(docs) /\ Next0' = Len(docs') /\ FilesTyped /\ MemoryTyped
      /\ Batched /\ Resumable
  BY AlignedStep, SourceTexts, SequenceLength, TypeParts DEF Typed, Aligned, Next0
<1> SUFFICES Goal
  BY <1>0, TypeParts, PTL DEF Typed
<1>1. ASSUME NEW f \in Frequencies, OpenBow(f) PROVE Goal
  <2>1. /\ f \in Nat /\ stage = "down" /\ stage' = "idle"
        /\ UNCHANGED <<asked, checkpoint, dat, cbor, vocabFile, batch, tokens>>
        /\ frequency' = f /\ lengths' = <<>> /\ vocab' = <<>> /\ first' = Len(docs')
        /\ index' \in {NoFile, Torn}
    BY <1>1, BowAssumption DEF OpenBow
  <2>2. Len(docs') \in 0 .. Len(collection) /\ ckptDoc' \in Ids \cup {NoDoc}
    <3>1. CASE f > 0 /\ checkpoint # NoFile
      BY <1>0, <1>1, <3>1 DEF OpenBow, Resumable, Ids
    <3>2. CASE ~(f > 0 /\ checkpoint # NoFile)
      BY <1>0, <1>1, <3>2 DEF OpenBow
    <3>. QED
      BY <3>1, <3>2
  <2>3. FilesTyped' /\ MemoryTyped'
    BY <1>0, <2>1, <2>2 DEF FilesTyped, MemoryTyped, Ids, asked
  <2>4. Batched'
    <3>1. batch' = {} /\ DOMAIN tokens' = {}
      BY <1>0, <2>1 DEF Batched
    <3>2. Next0' \in Next0' .. Len(collection) /\ Next0' .. Next0' - 1 = {}
      BY <1>0, <2>2
    <3>. QED
      BY <2>1, <3>1, <3>2 DEF Batched, asked
  <2>5. Resumable'
    BY <1>0, <2>1 DEF Resumable, asked
  <2>. QED
    BY <2>3, <2>4, <2>5
<1>2. CASE LoseBuilder
  <2>1. FilesTyped'
    BY <1>0, <1>2, BowAssumption DEF LoseBuilder, FilesTyped, files
  <2>2. MemoryTyped'
    BY <1>0, <1>2 DEF LoseBuilder, MemoryTyped
  <2>3. Batched'
    BY <1>0, <1>2 DEF LoseBuilder, Batched
  <2>4. Resumable'
    BY <1>0, <1>2 DEF LoseBuilder, Resumable, files
  <2>. QED
    BY <2>1, <2>2, <2>3, <2>4
<1>3. CASE Add
  <2>1. /\ stage = "idle" /\ stage' \in {"checkpoint", "idle"} /\ Next0 \in Ids
        /\ Insert(Tokenize(collection[Next0 + 1]))
        /\ UNCHANGED <<asked, files, opened, ckptDoc, batch, tokens>>
    BY <1>0, <1>3 DEF Add, AfterInsert, Ids
  <2>2. /\ lengths' \in Seq(Nat) /\ Len(lengths') = Next0 + 1 /\ vocab' \in Seq(Words)
        /\ Len(docs') = Next0 + 1
    BY <2>1, InsertTyped
  <2>3. FilesTyped'
    BY <1>0, <2>1, Frames
  <2>4. MemoryTyped'
    BY <1>0, <2>1, <2>2 DEF MemoryTyped, Ids, asked
  <2>5. Batched'
    <3>1. batch' = {} /\ DOMAIN tokens' = {}
      BY <1>0, <2>1 DEF Batched
    <3>2. Next0' \in Next0' .. Len(collection) /\ Next0' .. Next0' - 1 = {}
      BY <1>0, <2>1, <2>2 DEF Ids
    <3>. QED
      BY <2>1, <3>1, <3>2 DEF Batched, asked
  <2>6. Resumable'
    BY <1>0, <2>1, <2>2 DEF Resumable, asked, files
  <2>. QED
    BY <2>3, <2>4, <2>5, <2>6
<1>4. CASE InsertNext
  <2>1. /\ stage = "inserting" /\ stage' \in {"checkpoint", "inserting"} /\ Next0 \in Ids
        /\ batch' = batch \ {Next0}
        /\ Insert(Tokenize(collection[Next0 + 1]))
        /\ UNCHANGED <<asked, files, opened, ckptDoc, tokens>>
    BY <1>0, <1>4, NextOfBatch DEF InsertNext, AfterInsert
  <2>2. /\ lengths' \in Seq(Nat) /\ Len(lengths') = Next0 + 1 /\ vocab' \in Seq(Words)
        /\ Len(docs') = Next0 + 1
    BY <2>1, InsertTyped
  <2>3. FilesTyped'
    BY <1>0, <2>1, Frames
  <2>4. MemoryTyped'
    <3>1. collection' = collection /\ Next0 + 1 <= Len(collection)
      BY <1>0, <2>1 DEF Ids, asked
    <3>2. ckptDoc' \in Ids' \cup {NoDoc} /\ batch' \subseteq Ids' /\ DOMAIN tokens' \subseteq Ids'
      BY <1>0, <2>1, <3>1 DEF MemoryTyped, Ids
    <3>. QED
      BY <2>2, <3>1, <3>2 DEF MemoryTyped
  <2>5. Batched'
    <3>1. \E m \in Next0 + 1 .. Len(collection) : batch' = Next0 + 1 .. m - 1
      BY <1>4, <2>1, NextOfBatch DEF InsertNext
    <3>2. batch' \subseteq DOMAIN tokens'
      BY <1>0, <2>1 DEF Batched
    <3>3. \A d \in DOMAIN tokens' : tokens'[d] = Tokenize(collection'[d + 1])
      BY <1>0, <2>1 DEF Batched, asked
    <3>4. \E m \in Next0' .. Len(collection') : batch' = Next0' .. m - 1
      BY <1>0, <2>1, <2>2, <3>1 DEF asked
    <3>. QED
      BY <2>1, <3>2, <3>3, <3>4 DEF Batched
  <2>6. Resumable'
    BY <1>0, <2>1, <2>2 DEF Resumable, asked, files
  <2>. QED
    BY <2>3, <2>4, <2>5, <2>6
<1>5. ASSUME NEW n \in 2 .. MaxBatch, BeginBatch(n) PROVE Goal
  <2>1. /\ n \in Nat /\ Next0 + n <= Len(collection) /\ batch' = Next0 .. Next0 + n - 1
        /\ stage = "idle" /\ stage' = "tokenising"
        /\ UNCHANGED <<asked, files, opened, inMemory, tokens>>
    BY <1>5, BowAssumption DEF BeginBatch
  <2>2. FilesTyped'
    BY <1>0, <2>1, Frames
  <2>3. MemoryTyped'
    BY <1>0, <2>1 DEF MemoryTyped, Ids, asked, inMemory
  <2>4. Batched'
    <3>1. Next0 + n \in Next0 .. Len(collection) /\ Next0' = Next0 /\ collection' = collection
      BY <1>0, <2>1 DEF asked, inMemory
    <3>2. \E m \in Next0' .. Len(collection') : batch' = Next0' .. m - 1
      <4>1. Next0 + n \in Next0' .. Len(collection')
        BY <3>1, Zenon
      <4>2. batch' = Next0' .. (Next0 + n) - 1
        <5>1. Next0 + n - 1 = (Next0 + n) - 1
          BY <1>0, <2>1
        <5>. QED
          BY <2>1, <3>1, <5>1, Zenon
      <4>. QED
        BY <4>1, <4>2, Zenon
    <3>3. \A d \in DOMAIN tokens' : tokens'[d] = Tokenize(collection'[d + 1])
      BY <1>0, <2>1, <3>1 DEF Batched
    <3>. QED
      BY <2>1, <3>2, <3>3 DEF Batched
  <2>5. Resumable'
    BY <1>0, <2>1 DEF Resumable, asked, files, inMemory
  <2>. QED
    BY <2>2, <2>3, <2>4, <2>5
<1>6. ASSUME NEW d \in batch, TokenizeOne(d) PROVE Goal
  <2>1. /\ tokens' = [e \in DOMAIN tokens \cup {d} |-> Tokenize(collection[e + 1])]
        /\ stage = "tokenising" /\ UNCHANGED <<asked, files, opened, inMemory, stage, batch>>
    BY <1>6 DEF TokenizeOne
  <2>2. FilesTyped'
    BY <1>0, <2>1, Frames
  <2>3. MemoryTyped'
    BY <1>0, <2>1 DEF MemoryTyped, Ids, asked, inMemory
  <2>4. Batched'
    BY <1>0, <2>1 DEF Batched, Next0, asked, inMemory
  <2>5. Resumable'
    BY <1>0, <2>1 DEF Resumable, asked, files, inMemory
  <2>. QED
    BY <2>2, <2>3, <2>4, <2>5
<1>7. CASE Collected \/ EndBatch
  <2>1. UNCHANGED <<asked, files, opened, inMemory, batch>> /\ stage' # "checkpoint"
    BY <1>7 DEF Collected, EndBatch
  <2>2. FilesTyped'
    BY <1>0, <2>1, Frames
  <2>3. MemoryTyped' /\ Batched'
    <3>1. CASE Collected
      BY <1>0, <3>1 DEF Collected, MemoryTyped, Batched, Ids, Next0, asked, inMemory
    <3>2. CASE EndBatch
      <4>1. DOMAIN tokens' = {} /\ batch = {} /\ batch' = {}
        BY <3>2 DEF EndBatch
      <4>2. MemoryTyped'
        BY <1>0, <2>1, <4>1 DEF MemoryTyped, Ids, asked, inMemory
      <4>3. Batched'
        BY <1>0, <2>1, <4>1 DEF Batched, Next0, asked, inMemory
      <4>. QED
        BY <4>2, <4>3
    <3>. QED
      BY <1>7, <3>1, <3>2
  <2>5. Resumable'
    BY <1>0, <2>1 DEF Resumable, asked, files
  <2>. QED
    BY <2>2, <2>3, <2>5
<1>8. CASE Checkpoint
  <2>1. docs # <<>> /\ Len(docs) \in 1 .. Len(collection)
    <3>1. PICK S : docs \in Seq(S)
      BY DEF Typed, Aligned, IsSequence
    <3>2. docs # <<>> /\ Len(docs) <= Len(collection)
      BY <1>0, <1>8 DEF Checkpoint, MemoryTyped, Resumable
    <3>. QED
      BY <1>0, <3>1, <3>2
  <2>2. /\ checkpoint' = Whole(docs) /\ ckptDoc' = Next0 - 1 /\ stage' \in {"idle", "inserting"}
        /\ UNCHANGED <<asked, index, dat, cbor, vocabFile, opened, docs, lengths, vocab, batch, tokens>>
    BY <1>8 DEF Checkpoint
  <2>3. FilesTyped'
    BY <1>0, <2>1, <2>2 DEF FilesTyped, Whole, asked, opened
  <2>4. MemoryTyped'
    BY <1>0, <2>1, <2>2 DEF MemoryTyped, Ids, asked
  <2>5. Batched'
    BY <1>0, <1>8 DEF Checkpoint, Batched, Next0, asked
  <2>6. Resumable'
    BY <1>0, <2>1, <2>2 DEF Resumable, Whole, asked
  <2>. QED
    BY <2>3, <2>4, <2>5, <2>6
<1>9. ASSUME UNCHANGED <<asked, opened, inMemory, batch, tokens>>,
             stage \notin {"tokenising", "inserting", "checkpoint"},
             stage' \notin {"tokenising", "inserting", "checkpoint"},
             checkpoint' \in {checkpoint, NoFile}, FilesTyped'
      PROVE  Goal
  <2>1. MemoryTyped'
    BY <1>0, <1>9, Frames
  <2>2. Batched'
    BY <1>0, <1>9 DEF Batched, Next0, asked, inMemory
  <2>3. Resumable'
    BY <1>0, <1>9 DEF Resumable, asked
  <2>. QED
    BY <1>9, <2>1, <2>2, <2>3
<1>10. CASE BuildIndex \/ RemoveCheckpoint
  <2>1. FilesTyped'
    BY <1>0, <1>10 DEF BuildIndex, RemoveCheckpoint, FilesTyped, Whole, asked, opened
  <2>. QED
    BY <1>9, <1>10, <2>1 DEF BuildIndex, RemoveCheckpoint
<1>11. ASSUME NEW n \in 0 .. Len(lengths), WriteLengths(n) PROVE Goal
  <2>1. dat' \in Seq(Nat)
    <3>1. dat' = SubSeq(lengths, 1, n) /\ lengths \in Seq(Nat) /\ n \in 0 .. Len(lengths)
      BY <1>0, <1>11 DEF WriteLengths, MemoryTyped
    <3>. QED
      BY <3>1
  <2>2. FilesTyped'
    BY <1>0, <1>11, <2>1 DEF WriteLengths, FilesTyped, asked, opened
  <2>. QED
    BY <1>9, <1>11, <2>2 DEF WriteLengths
<1>12. CASE FlushLengths
  <2>1. dat' \in Seq(Nat) /\ cbor' = Torn /\ UNCHANGED <<asked, checkpoint, index, vocabFile, opened>>
    BY <1>0, <1>12 DEF FlushLengths, MemoryTyped
  <2>2. FilesTyped'
    BY <1>0, <2>1 DEF FilesTyped, asked, opened
  <2>. QED
    BY <1>9, <1>12, <2>2 DEF FlushLengths
<1>13. CASE WriteInfo
  <2>1. Len(lengths) \in 0 .. Len(collection)
    BY <1>0 DEF MemoryTyped
  <2>2. FilesTyped'
    BY <1>0, <1>13, <2>1 DEF WriteInfo, FilesTyped, asked, opened
  <2>. QED
    BY <1>9, <1>13, <2>2 DEF WriteInfo
<1>14. CASE SaveVocabulary
  <2>1. vocabFile'.content \in Seq(Words) /\ UNCHANGED <<asked, checkpoint, index, dat, cbor, opened>>
    BY <1>0, <1>14 DEF SaveVocabulary, MemoryTyped, Whole
  <2>2. FilesTyped'
    BY <1>0, <2>1 DEF FilesTyped, asked, opened
  <2>. QED
    BY <1>9, <1>14, <2>2 DEF SaveVocabulary
<1>15. CASE Returned \/ UNCHANGED bowVars
  <2>1. UNCHANGED <<asked, files, opened, inMemory, stage, batch, tokens>>
    BY <1>15 DEF Returned, bowVars, asked, files, opened, inMemory
  <2>2. Resumable'
    BY <1>0, <2>1 DEF Resumable, asked, files, inMemory
  <2>3. UNCHANGED docs
    BY <2>1 DEF inMemory
  <2>. QED
    BY <1>0, <2>1, <2>2, <2>3, Frames
<1> HIDE DEF Goal
<1>. QED
  BY <1>1, <1>2, <1>3, <1>4, <1>5, <1>6, <1>7, <1>8, <1>10, <1>11, <1>12, <1>13, <1>14, <1>15
     DEF BowNext

-----------------------------------------------------------------------------
(***************************************************************************)
(* Lengths                                                                 *)
(***************************************************************************)

\* The lengths in memory are those of the documents this process was given; what
\* build has written of docmeta.dat and docmeta.cbor agrees with them.
Measured ==
  /\ first <= Len(docs)
  /\ Len(docs) > first => Len(lengths) = Len(docs)
  /\ Len(docs) = first => lengths = <<>>
  /\ \A i \in first + 1 .. Len(lengths) : lengths[i] = Len(collection[i])
  /\ stage \in {"cbor_write", "vocab_write", "returned"} => dat = lengths
  /\ stage \in {"vocab_write", "returned"} => cbor = Whole(Len(lengths))

\* Inserting a document measures it.
LEMMA InsertMeasured ==
  ASSUME Typed, Measured, Next0 \in Ids, Insert(Tokenize(collection[Next0 + 1])),
         UNCHANGED <<collection, first>>, stage' \in {"idle", "inserting", "checkpoint"}
  PROVE  Measured'
<1>1. /\ Len(lengths') = Next0 + 1 /\ Len(docs') = Next0 + 1
      /\ lengths'[Next0 + 1] = Len(collection[Next0 + 1])
      /\ \A i \in 1 .. Len(lengths) : lengths'[i] = lengths[i]
  BY InsertTyped
<1>2. /\ Next0 \in Nat /\ first \in Nat /\ first <= Next0 /\ Next0 = Len(docs)
      /\ Next0 > first => Len(lengths) = Next0
      /\ \A i \in first + 1 .. Len(lengths) : lengths[i] = Len(collection[i])
  BY SourceTexts DEF Typed, BowTypeOK, Measured, Next0
<1>3. ASSUME NEW i \in first + 1 .. Len(lengths') PROVE lengths'[i] = Len(collection'[i])
  <2>1. CASE i = Next0 + 1
    BY <1>1, <2>1
  <2>2. CASE i # Next0 + 1
    <3>1. i \in first + 1 .. Next0 /\ i \in 1 .. Next0 /\ Next0 > first
      BY <1>1, <1>2, <2>2
    <3>. QED
      BY <1>1, <1>2, <3>1
  <2>. QED
    BY <2>1, <2>2
<1>. QED
  BY <1>1, <1>2, <1>3 DEF Measured

\* Every step of a builder of typed fields keeps it.
LEMMA MeasuredStep == Typed /\ Measured /\ [BowNext]_bowVars => Measured'
<1> SUFFICES ASSUME Typed, Measured, [BowNext]_bowVars PROVE Measured'
  OBVIOUS
<1>1. ASSUME NEW f \in Frequencies, OpenBow(f) PROVE Measured'
  <2>1. /\ stage' = "idle" /\ lengths' = <<>> /\ first' = Len(docs')
        /\ Len(docs') \in Nat
    <3>1. IsSequence(docs')
      BY <1>1, EmptySequence DEF OpenBow, Typed, Aligned
    <3>. QED
      BY <1>1, <3>1, SequenceLength DEF OpenBow
  <2>2. first' + 1 .. Len(lengths') = {}
    BY <2>1
  <2>. QED
    BY <2>1, <2>2 DEF Measured
<1>2. CASE LoseBuilder
  BY <1>2 DEF LoseBuilder, Measured
<1>3. CASE Add
  <2>1. Next0 \in Ids
    BY <1>3, SourceTexts, SequenceLength DEF Add, Typed, Aligned, Ids, Next0
  <2>. QED
    BY <1>3, <2>1, InsertMeasured DEF Add, AfterInsert, asked, opened
<1>4. CASE InsertNext
  <2>1. Next0 \in Ids /\ tokens[Next0] = Tokenize(collection[Next0 + 1])
    BY <1>4, NextOfBatch DEF InsertNext
  <2>. QED
    BY <1>4, <2>1, InsertMeasured DEF InsertNext, AfterInsert, asked, opened
<1>5. ASSUME UNCHANGED <<collection, first, docs, lengths>>,
             stage' \notin {"cbor_write", "vocab_write", "returned"}
      PROVE  Measured'
  BY <1>5 DEF Measured
<1>6. ASSUME NEW n \in 2 .. MaxBatch, BeginBatch(n) PROVE Measured'
  BY <1>5, <1>6 DEF BeginBatch, asked, opened, inMemory
<1>7. ASSUME NEW d \in batch, TokenizeOne(d) PROVE Measured'
  BY <1>5, <1>7 DEF TokenizeOne, asked, opened, inMemory
<1>8. CASE Collected \/ EndBatch \/ Checkpoint \/ BuildIndex \/ RemoveCheckpoint
  BY <1>5, <1>8
     DEF Collected, EndBatch, Checkpoint, BuildIndex, RemoveCheckpoint, asked, opened, inMemory
<1>9. ASSUME NEW n \in 0 .. Len(lengths), WriteLengths(n) PROVE Measured'
  BY <1>5, <1>9 DEF WriteLengths, asked, opened, inMemory
<1>10. CASE FlushLengths
  BY <1>10 DEF FlushLengths, Measured, asked, opened, inMemory
<1>11. CASE WriteInfo
  BY <1>11 DEF WriteInfo, Measured, asked, opened, inMemory
<1>12. CASE SaveVocabulary
  BY <1>12 DEF SaveVocabulary, Measured, asked, opened, inMemory
<1>13. CASE Returned \/ UNCHANGED bowVars
  BY <1>13 DEF Returned, Measured, bowVars
<1>. QED
  BY <1>1, <1>2, <1>3, <1>4, <1>6, <1>7, <1>8, <1>9, <1>10, <1>11, <1>12, <1>13 DEF BowNext

\* The lengths loaded are those in memory when build returned.
LEMMA LoadedLengths ==
  ASSUME Typed, Measured, stage = "returned"
  PROVE  LoadLengths = Whole(lengths)
<1>1. lengths \in Seq(Nat) /\ Len(lengths) \in Nat /\ dat = lengths /\ cbor = Whole(Len(lengths))
  BY DEF Typed, BowTypeOK, Measured
<1>2. cbor.content = Len(lengths) /\ cbor \notin {NoFile, Torn}
  BY <1>1 DEF Whole, NoFile, Torn
<1>3. SubSeq(lengths, 1, Len(lengths)) = lengths
  BY <1>1
<1>4. cbor.content <= Len(dat)
  BY <1>1, <1>2
<1>5. SubSeq(dat, 1, cbor.content) = lengths
  BY <1>1, <1>2, <1>3, Zenon
<1>. QED
  BY <1>2, <1>4, <1>5, Zenon DEF LoadLengths

\* The types of the builder and its files.
THEOREM TypesAreCorrect == BowSpec => []BowTypeOK
<1>1. Typed => BowTypeOK
  BY DEF Typed
<1>. QED
  BY <1>1, TypedInit, TypedStep, PTL DEF BowSpec

\* A build leaves the lengths of the documents it was given.
THEOREM LengthsAreThose == BowSpec => []LengthsOfBuild
<1>1. BowInit => Measured
  BY DEF BowInit, Measured
<1>2. Typed /\ Measured => LengthsOfBuild
  <2> SUFFICES ASSUME Typed, Measured, stage = "returned"
               PROVE  /\ first = 0 =>
                           LoadLengths = Whole([i \in DOMAIN collection |-> Len(collection[i])])
                      /\ first < Len(collection) =>
                           /\ LoadLengths # NoFile /\ Len(LoadLengths.content) = Len(collection)
                           /\ \A i \in first + 1 .. Len(collection) :
                                LoadLengths.content[i] = Len(collection[i])
    BY DEF LengthsOfBuild
  <2>1. LoadLengths = Whole(lengths)
    BY LoadedLengths
  <2>2. /\ Len(docs) = Len(collection) /\ Len(collection) \in Nat /\ DOMAIN collection = 1 .. Len(collection)
        /\ lengths \in Seq(Nat) /\ first \in Nat
    BY SourceTexts DEF Typed, BowTypeOK, Aligned, Publishing
  <2>3. ASSUME first = 0
        PROVE  lengths = [i \in DOMAIN collection |-> Len(collection[i])]
    <3>1. Len(lengths) = Len(collection)
      BY <2>2, <2>3 DEF Measured
    <3>2. \A i \in 1 .. Len(collection) : lengths[i] = Len(collection[i])
      BY <2>2, <2>3, <3>1 DEF Measured
    <3>3. lengths = [i \in 1 .. Len(collection) |-> lengths[i]]
      BY <2>2, <3>1
    <3>. QED
      BY <2>2, <3>2, <3>3
  <2>4. ASSUME first < Len(collection)
        PROVE  /\ Len(lengths) = Len(collection)
               /\ \A i \in first + 1 .. Len(collection) : lengths[i] = Len(collection[i])
    BY <2>2, <2>4 DEF Measured
  <2>5. Whole(lengths) # NoFile /\ Whole(lengths).content = lengths
    BY DEF Whole, NoFile
  <2>. QED
    BY <2>1, <2>3, <2>4, <2>5
<1>. QED
  BY <1>1, <1>2, TypedInit, TypedStep, MeasuredStep, PTL DEF BowSpec

-----------------------------------------------------------------------------
(***************************************************************************)
(* Term ids                                                                *)
(***************************************************************************)

\* In a vocabulary without repetition the id of a word is its place, ...
LEMMA IdOfWord ==
  ASSUME NEW W, NEW v, AreDistinct(v, W), NEW w, Contains(v, w)
  PROVE  IdOf(v, w) \in 0 .. Len(v) - 1 /\ v[IdOf(v, w) + 1] = w
<1>1. v \in Seq(W) /\ Len(v) \in Nat /\ DOMAIN v = 1 .. Len(v)
  BY DEF AreDistinct
<1>2. \E i \in DOMAIN v : v[i] = w
  BY <1>1 DEF Contains
<1> DEFINE i == CHOOSE i \in DOMAIN v : v[i] = w
<1>3. i \in DOMAIN v /\ v[i] = w
  BY <1>2
<1> HIDE DEF i
<1>4. i - 1 \in 0 .. Len(v) - 1 /\ (i - 1) + 1 = i
  BY <1>1, <1>3
<1>5. IdOf(v, w) = i - 1
  BY Zenon DEF IdOf, i
<1>. QED
  BY <1>3, <1>4, <1>5

\* ... and words added later do not change it.
LEMMA IdKept ==
  ASSUME NEW W, NEW u, NEW v \in Seq(W), AreDistinct(u, W), Extends(u, v), NEW w, Contains(v, w)
  PROVE  IdOf(u, w) = IdOf(v, w)
<1>1. u \in Seq(W) /\ Len(u) \in Nat /\ DOMAIN u = 1 .. Len(u) /\ DOMAIN v = 1 .. Len(v)
      /\ Len(v) \in Nat
  BY DEF AreDistinct
<1>2. /\ \A i \in 1 .. Len(v) : i \in 1 .. Len(u) /\ u[i] = v[i]
      /\ \A i, j \in 1 .. Len(u) : u[i] = u[j] => i = j
  BY <1>1 DEF AreDistinct, Extends
<1>3. AreDistinct(v, W)
  BY <1>1, <1>2 DEF AreDistinct
<1>4. PICK k \in 1 .. Len(v) : v[k] = w
  BY DEF Contains
<1>5. Contains(u, w)
  BY <1>2, <1>4 DEF Contains
<1>6. /\ IdOf(u, w) \in 0 .. Len(u) - 1 /\ u[IdOf(u, w) + 1] = w
      /\ IdOf(v, w) \in 0 .. Len(v) - 1 /\ v[IdOf(v, w) + 1] = w
  BY <1>3, <1>5, IdOfWord
<1>7. IdOf(u, w) + 1 \in 1 .. Len(u) /\ IdOf(v, w) + 1 \in 1 .. Len(v)
  BY <1>1, <1>6
<1>8. IdOf(u, w) + 1 = IdOf(v, w) + 1
  BY <1>2, <1>6, <1>7
<1>. QED
  BY <1>1, <1>6, <1>8

\* The postings of a document whose terms are numbered by v.
Numbered(toks, v) ==
  {[term |-> IdOf(v, toks[i].word), val |-> toks[i].tf] : i \in DOMAIN toks}

\* An analyzer numbers them by its vocabulary.
LEMMA PostingsNumbered ==
  ASSUME analyzed, NEW toks, NEW v
  PROVE  PostingsOf(toks, v) = Numbered(toks, v)
BY DEF PostingsOf, Numbered

\* They are the same for a vocabulary that has grown.
LEMMA NumberedKept ==
  ASSUME NEW W, NEW u, NEW v \in Seq(W), AreDistinct(u, W), Extends(u, v),
         NEW toks, \A i \in DOMAIN toks : Contains(v, toks[i].word)
  PROVE  Numbered(toks, u) = Numbered(toks, v)
<1>1. \A i \in DOMAIN toks : IdOf(u, toks[i].word) = IdOf(v, toks[i].word)
  BY IdKept
<1>. QED
  BY <1>1, Zenon DEF Numbered

\* The words of the tokens of a text are the words of the text.
LEMMA TokenWords ==
  ASSUME NEW W, NEW text \in Seq(W)
  PROVE  /\ DOMAIN Tokenize(text) = 1 .. Len(Tokenize(text))
         /\ \A i \in DOMAIN Tokenize(text) : Contains(text, Tokenize(text)[i].word)
         /\ \A w : Contains(text, w) => \E i \in DOMAIN Tokenize(text) : Tokenize(text)[i].word = w
         /\ \A i, j \in DOMAIN Tokenize(text) :
              Tokenize(text)[i].word = Tokenize(text)[j].word => i = j
<1> DEFINE u == GrowVocabulary(<<>>, text)
           toks == Tokenize(text)
           n == Len(u)
<1>1. /\ toks \in Seq(Token(W)) /\ Len(toks) = n
      /\ \A i \in 1 .. n : toks[i].word = u[i]
  BY TokenizeFacts
<1>2. DOMAIN toks = 1 .. n
  BY <1>1
<1>3. /\ u \in Seq(W) /\ AreDistinct(u, W) /\ \A x : Contains(u, x) <=> Contains(text, x)
  <2>1. <<>> \in Seq(W) /\ AreDistinct(<<>>, W) /\ \A x : ~Contains(<<>>, x)
    BY DEF AreDistinct, Contains
  <2>. QED
    BY <2>1, GrowFacts
<1>4. DOMAIN u = 1 .. n
  BY <1>3
<1> HIDE DEF u, toks, n
<1>5. \A i \in 1 .. n : Contains(text, u[i])
  BY <1>3 DEF Contains, n
<1>6. \A w : Contains(text, w) => \E i \in 1 .. n : u[i] = w
  BY <1>3 DEF Contains, n
<1>7. \A i, j \in 1 .. n : u[i] = u[j] => i = j
  BY <1>3, <1>4 DEF AreDistinct
<1>8. DOMAIN toks = 1 .. Len(toks)
  BY <1>1, <1>2
<1>9. \A i \in DOMAIN toks : Contains(text, toks[i].word)
  BY <1>1, <1>2, <1>5
<1>10. \A w : Contains(text, w) => \E i \in DOMAIN toks : toks[i].word = w
  BY <1>1, <1>2, <1>6
<1>11. \A i, j \in DOMAIN toks : toks[i].word = toks[j].word => i = j
  BY <1>1, <1>2, <1>7
<1>. QED
  BY <1>8, <1>9, <1>10, <1>11, Zenon DEF toks

\* A reader who looks a word up finds how often the text has it.
LEMMA FrequencyFound ==
  ASSUME NEW W, NEW text \in Seq(W), NEW v, AreDistinct(v, W),
         \A x : Contains(text, x) => Contains(v, x),
         NEW d, index.content[d + 1] = Numbered(Tokenize(text), v), NEW w
  PROVE  Cardinality({j \in DOMAIN text : text[j] = w})
           = IF Contains(v, w) THEN Frequency(IdOf(v, w), d) ELSE 0
<1> DEFINE toks == Tokenize(text)
           found == {p \in Numbered(toks, v) : p.term = IdOf(v, w)}
           times == Cardinality({j \in DOMAIN text : text[j] = w})
<1>1. /\ DOMAIN toks = 1 .. Len(toks)
      /\ \A i \in DOMAIN toks : Contains(text, toks[i].word)
      /\ \A x : Contains(text, x) => \E i \in DOMAIN toks : toks[i].word = x
      /\ \A i, j \in DOMAIN toks : toks[i].word = toks[j].word => i = j
  BY TokenWords
<1>2. \A i \in DOMAIN toks :
        toks[i].tf = Cardinality({j \in DOMAIN text : text[j] = toks[i].word})
  <2>1. \A i \in 1 .. Len(toks) :
          toks[i].tf = Cardinality({j \in DOMAIN text : text[j] = toks[i].word})
    BY TokenizeFacts
  <2> HIDE DEF toks
  <2>. QED
    BY <1>1, <2>1
<1>3. \A i \in DOMAIN toks : Contains(v, toks[i].word)
  BY <1>1
<1>4. Frequency(IdOf(v, w), d) = IF found = {} THEN 0 ELSE (CHOOSE p \in found : TRUE).val
  <2>1. index.content[d + 1] = Numbered(toks, v)
    OBVIOUS
  <2> HIDE DEF toks
  <2>. QED
    BY <2>1 DEF Frequency
<1> HIDE DEF toks
<1>5. ASSUME NEW i \in DOMAIN toks, Contains(v, w), IdOf(v, toks[i].word) = IdOf(v, w)
      PROVE  toks[i].word = w
  <2>1. v[IdOf(v, toks[i].word) + 1] = toks[i].word /\ v[IdOf(v, w) + 1] = w
    BY <1>3, <1>5, IdOfWord
  <2>. QED
    BY <1>5, <2>1
<1>6. CASE Contains(text, w)
  <2>1. PICK i \in DOMAIN toks : toks[i].word = w
    BY <1>1, <1>6
  <2>2. times = toks[i].tf
    BY <1>2, <2>1, Zenon
  <2>3. Contains(v, w)
    BY <1>6
  <2> DEFINE posting == [term |-> IdOf(v, toks[i].word), val |-> toks[i].tf]
  <2>4. posting \in found
    BY <2>1 DEF Numbered
  <2>5. ASSUME NEW p \in found PROVE p = posting
    <3>1. PICK k \in DOMAIN toks : p = [term |-> IdOf(v, toks[k].word), val |-> toks[k].tf]
      BY DEF Numbered
    <3>2. IdOf(v, toks[k].word) = IdOf(v, w)
      BY <3>1
    <3>3. k = i
      BY <1>1, <1>5, <2>1, <2>3, <3>2
    <3>. QED
      BY <3>1, <3>3
  <2>6. (CHOOSE p \in found : TRUE) \in found
    BY <2>4
  <2>7. (CHOOSE p \in found : TRUE) = posting
    BY <2>5, <2>6
  <2>8. posting.val = toks[i].tf
    OBVIOUS
  <2> HIDE DEF posting, found, times
  <2>. QED
    BY <1>4, <2>2, <2>3, <2>4, <2>7, <2>8 DEF times
<1>7. CASE ~Contains(text, w)
  <2>1. {j \in DOMAIN text : text[j] = w} = {}
    BY <1>7 DEF Contains
  <2>2. times = 0
    BY <2>1, FS_EmptySet
  <2>3. ASSUME Contains(v, w) PROVE found = {}
    <3> SUFFICES ASSUME NEW k \in DOMAIN toks, IdOf(v, toks[k].word) = IdOf(v, w) PROVE FALSE
      BY DEF Numbered
    <3>1. toks[k].word = w
      BY <1>5, <2>3
    <3>. QED
      BY <1>1, <1>7, <3>1
  <2> HIDE DEF found, times
  <2>. QED
    BY <1>4, <2>2, <2>3 DEF times
<1>. QED
  BY <1>6, <1>7

-----------------------------------------------------------------------------
(***************************************************************************)
(* The vocabulary and the index                                            *)
(***************************************************************************)

\* A process that was given every document so far has numbered their words in the
\* order of the collection, and their postings have the ids of that vocabulary.
Named ==
  analyzed /\ first = 0 /\ stage # "down" =>
    /\ vocab = GrowVocabulary(<<>>, FlattenSeq(SubSeq(collection, 1, Next0)))
    /\ AreDistinct(vocab, Words)
    /\ \A d \in 1 .. Len(docs) :
         /\ \A x : Contains(collection[d], x) => Contains(vocab, x)
         /\ docs[d] = Numbered(Tokenize(collection[d]), vocab)

\* build has written the postings in memory and, in the end, the vocabulary.
Published ==
  /\ stage \in Publishing => index = Whole(docs)
  /\ stage = "returned" /\ analyzed => vocabFile = Whole(vocab)

\* Without documents there are no words.
LEMMA NoWords ==
  ASSUME NEW W
  PROVE  GrowVocabulary(<<>>, FlattenSeq(<<>>)) = <<>> /\ AreDistinct(<<>>, W)
<1>1. <<>> \in Seq(Seq(W)) /\ <<>> \in Seq(W) /\ Len(<<>>) = 0
  OBVIOUS
<1>2. FlattenSeq(<<>>) = <<>>
  <2>1. PICK g \in [0 .. 0 -> Seq(W)] : Joins(g, <<>>)
    BY <1>1, FlattenJoins
  <2>2. g[0] = FlattenSeq(<<>>)
    BY <1>1, <2>1, FlattenJoins
  <2>. QED
    BY <2>1, <2>2 DEF Joins
<1>3. GrowVocabulary(<<>>, <<>>) = <<>>
  <2> DEFINE e == <<>>
  <2>1. e \in Seq(W) /\ Len(e) = 0
    BY <1>1
  <2> HIDE DEF e
  <2>2. PICK g \in [0 .. Len(e) -> Seq(W)] : Grows(g, e, e) /\ GrowVocabulary(e, e) = g[Len(e)]
    BY <2>1, GrowChain
  <2>3. GrowVocabulary(e, e) = e
    BY <2>1, <2>2 DEF Grows
  <2>. QED
    BY <2>3 DEF e
<1>4. AreDistinct(<<>>, W)
  BY <1>1 DEF AreDistinct
<1>. QED
  BY <1>2, <1>3, <1>4

\* One document more makes the vocabulary grow by its words.
LEMMA NextWords ==
  ASSUME NEW W, NEW texts \in Seq(Seq(W)), NEW n \in 0 .. Len(texts) - 1
  PROVE  GrowVocabulary(<<>>, FlattenSeq(SubSeq(texts, 1, n + 1)))
           = GrowVocabulary(GrowVocabulary(<<>>, FlattenSeq(SubSeq(texts, 1, n))), texts[n + 1])
<1> DEFINE some == SubSeq(texts, 1, n)
           text == texts[n + 1]
<1>1. some \in Seq(Seq(W)) /\ text \in Seq(W) /\ <<>> \in Seq(W)
  OBVIOUS
<1>2. SubSeq(texts, 1, n + 1) = Append(some, text)
  OBVIOUS
<1> HIDE DEF some, text
<1>3. FlattenSeq(Append(some, text)) = FlattenSeq(some) \o text
  BY <1>1, FlattenAppend
<1>4. FlattenSeq(some) \in Seq(W)
  BY <1>1, FlattenJoins
<1>5. GrowVocabulary(<<>>, FlattenSeq(some) \o text)
        = GrowVocabulary(GrowVocabulary(<<>>, FlattenSeq(some)), text)
  <2> DEFINE e == <<>>
             a == FlattenSeq(some)
  <2>1. e \in Seq(W) /\ a \in Seq(W)
    BY <1>1, <1>4
  <2> HIDE DEF e, a
  <2>2. GrowVocabulary(e, a \o text) = GrowVocabulary(GrowVocabulary(e, a), text)
    BY <1>1, <2>1, GrowConcat
  <2>. QED
    BY <2>2 DEF e, a
<1>. QED
  BY <1>2, <1>3, <1>5 DEF some, text

\* Inserting the next document.
LEMMA InsertNamed ==
  ASSUME Typed, Named, Next0 \in Ids, Insert(Tokenize(collection[Next0 + 1])),
         UNCHANGED <<collection, analyzed, first>>, stage # "down"
  PROVE  Named'
<1> SUFFICES ASSUME analyzed, first = 0
             PROVE  /\ vocab' = GrowVocabulary(<<>>, FlattenSeq(SubSeq(collection, 1, Next0')))
                    /\ AreDistinct(vocab', Words)
                    /\ \A d \in 1 .. Len(docs') :
                         /\ \A x : Contains(collection[d], x) => Contains(vocab', x)
                         /\ docs'[d] = Numbered(Tokenize(collection[d]), vocab')
  BY DEF Named
<1> DEFINE n == Next0
           text == collection[n + 1]
           toks == Tokenize(text)
<1>1. /\ n \in Nat /\ n \in 0 .. Len(collection) - 1 /\ text \in Seq(Words) /\ vocab \in Seq(Words)
      /\ collection \in Seq(Seq(Words))
      /\ \A d \in 1 .. n : collection[d] \in Seq(Words)
  <2>1. /\ n \in Nat /\ text \in Seq(Words) /\ collection \in Seq(Seq(Words)) /\ vocab \in Seq(Words)
        /\ n \in 0 .. Len(collection) - 1 /\ Len(collection) \in Nat
    BY SourceTexts DEF Typed, BowTypeOK, Ids
  <2>2. \A d \in 1 .. n : collection[d] \in Seq(Words)
    BY <2>1
  <2>. QED
    BY <2>1, <2>2
<1>2. /\ vocab = GrowVocabulary(<<>>, FlattenSeq(SubSeq(collection, 1, n)))
      /\ AreDistinct(vocab, Words)
      /\ \A d \in 1 .. n :
           /\ \A x : Contains(collection[d], x) => Contains(vocab, x)
           /\ docs[d] = Numbered(Tokenize(collection[d]), vocab)
  BY DEF Named, Next0
<1>3. /\ vocab' = GrowVocabulary(vocab, text)
      /\ IsSequence(docs) /\ docs' = Append(docs, PostingsOf(toks, vocab'))
      /\ Len(docs) = n /\ Len(docs') = n + 1 /\ Next0' = n + 1
  BY InsertTyped DEF Typed, Aligned, Next0
<1> HIDE DEF n, text, toks
<1>4. vocab' = GrowVocabulary(<<>>, FlattenSeq(SubSeq(collection, 1, Next0')))
  <2>1. GrowVocabulary(<<>>, FlattenSeq(SubSeq(collection, 1, n + 1))) = GrowVocabulary(vocab, text)
    BY <1>1, <1>2, NextWords DEF text
  <2>. QED
    BY <1>3, <2>1
<1>5. /\ AreDistinct(vocab', Words) /\ Extends(vocab', vocab)
      /\ \A x : Contains(vocab', x) <=> Contains(vocab, x) \/ Contains(text, x)
  BY <1>1, <1>2, <1>3, GrowFacts
<1>6. ASSUME NEW d \in 1 .. n + 1
      PROVE  /\ \A x : Contains(collection[d], x) => Contains(vocab', x)
             /\ docs'[d] = Numbered(Tokenize(collection[d]), vocab')
  <2>1. CASE d = n + 1
    <3>1. docs'[d] = PostingsOf(toks, vocab')
      BY <1>1, <1>3, <2>1 DEF IsSequence
    <3>2. PostingsOf(toks, vocab') = Numbered(toks, vocab')
      BY PostingsNumbered
    <3>3. collection[d] = text /\ Tokenize(collection[d]) = toks
      BY <2>1 DEF text, toks
    <3>. QED
      BY <1>5, <3>1, <3>2, <3>3
  <2>2. CASE d # n + 1
    <3>1. d \in 1 .. n
      BY <1>1, <2>2
    <3>2. docs'[d] = docs[d]
      BY <1>1, <1>3, <3>1 DEF IsSequence
    <3>3. \A i \in DOMAIN Tokenize(collection[d]) : Contains(vocab, Tokenize(collection[d])[i].word)
      <4>1. \A i \in DOMAIN Tokenize(collection[d]) : Contains(collection[d], Tokenize(collection[d])[i].word)
        BY <1>1, <3>1, TokenWords
      <4>. QED
        BY <1>2, <3>1, <4>1
    <3>4. Numbered(Tokenize(collection[d]), vocab') = Numbered(Tokenize(collection[d]), vocab)
      BY <1>1, <1>5, <3>3, NumberedKept
    <3>. QED
      BY <1>2, <1>5, <3>1, <3>2, <3>4
  <2>. QED
    BY <2>1, <2>2
<1>. QED
  BY <1>3, <1>4, <1>5, <1>6

\* Every step of a builder of typed fields keeps the numbering.
LEMMA NamedStep == Typed /\ Named /\ [BowNext]_bowVars => Named'
<1> SUFFICES ASSUME Typed, Named, [BowNext]_bowVars PROVE Named'
  OBVIOUS
<1>1. ASSUME NEW f \in Frequencies, OpenBow(f) PROVE Named'
  <2> SUFFICES ASSUME first' = 0
               PROVE  /\ vocab' = GrowVocabulary(<<>>, FlattenSeq(SubSeq(collection', 1, Next0')))
                      /\ AreDistinct(vocab', Words)
                      /\ Len(docs') = 0
    BY SMT DEF Named
  <2>1. vocab' = <<>> /\ Len(docs') = 0 /\ Next0' = 0 /\ collection' = collection
    BY <1>1 DEF OpenBow, Next0, asked
  <2>2. SubSeq(collection, 1, 0) = <<>>
    BY SourceTexts DEF Typed
  <2>. QED
    BY <2>1, <2>2, NoWords
<1>2. CASE LoseBuilder
  BY <1>2 DEF LoseBuilder, Named
<1>3. CASE Add
  <2>1. Next0 \in Ids
    BY <1>3, SourceTexts, SequenceLength DEF Add, Typed, Aligned, Ids, Next0
  <2>. QED
    BY <1>3, <2>1, InsertNamed DEF Add, asked, opened
<1>4. CASE InsertNext
  <2>1. Next0 \in Ids /\ tokens[Next0] = Tokenize(collection[Next0 + 1])
    BY <1>4, NextOfBatch DEF InsertNext
  <2>. QED
    BY <1>4, <2>1, InsertNamed DEF InsertNext, asked, opened
<1>5. ASSUME UNCHANGED <<collection, analyzed, first, docs, vocab>>, stage # "down" PROVE Named'
  BY <1>5 DEF Named, Next0
<1>6. ASSUME NEW n \in 2 .. MaxBatch, BeginBatch(n) PROVE Named'
  BY <1>5, <1>6 DEF BeginBatch, asked, opened, inMemory
<1>7. ASSUME NEW d \in batch, TokenizeOne(d) PROVE Named'
  BY <1>5, <1>7 DEF TokenizeOne, asked, opened, inMemory
<1>8. CASE Collected \/ EndBatch \/ Checkpoint \/ BuildIndex \/ RemoveCheckpoint
  BY <1>5, <1>8
     DEF Collected, EndBatch, Checkpoint, BuildIndex, RemoveCheckpoint, asked, opened, inMemory
<1>9. ASSUME NEW n \in 0 .. Len(lengths), WriteLengths(n) PROVE Named'
  BY <1>5, <1>9 DEF WriteLengths, asked, opened, inMemory
<1>10. CASE FlushLengths \/ WriteInfo \/ SaveVocabulary
  BY <1>5, <1>10 DEF FlushLengths, WriteInfo, SaveVocabulary, asked, opened, inMemory
<1>11. CASE Returned \/ UNCHANGED bowVars
  BY <1>11 DEF Returned, Named, Next0, bowVars
<1>. QED
  BY <1>1, <1>2, <1>3, <1>4, <1>6, <1>7, <1>8, <1>9, <1>10, <1>11 DEF BowNext

\* Every step keeps what build has written.
LEMMA PublishedStep == Published /\ [BowNext]_bowVars => Published'
<1> SUFFICES ASSUME Published, [BowNext]_bowVars PROVE Published'
  OBVIOUS
<1>1. ASSUME stage' \notin Publishing PROVE Published'
  BY <1>1 DEF Published, Publishing
<1>2. ASSUME NEW f \in Frequencies, OpenBow(f) PROVE Published'
  BY <1>1, <1>2 DEF OpenBow, Publishing
<1>3. CASE LoseBuilder \/ Add \/ Collected \/ InsertNext \/ EndBatch \/ Checkpoint
  BY <1>1, <1>3 DEF LoseBuilder, Add, Collected, InsertNext, EndBatch, Checkpoint, AfterInsert, Publishing
<1>4. ASSUME NEW n \in 2 .. MaxBatch, BeginBatch(n) PROVE Published'
  BY <1>1, <1>4 DEF BeginBatch, Publishing
<1>5. ASSUME NEW d \in batch, TokenizeOne(d) PROVE Published'
  BY <1>1, <1>5 DEF TokenizeOne, Publishing
<1>6. CASE BuildIndex
  BY <1>6 DEF BuildIndex, Published, Publishing, inMemory
<1>7. CASE RemoveCheckpoint \/ FlushLengths \/ WriteInfo \/ SaveVocabulary
  BY <1>7 DEF RemoveCheckpoint, FlushLengths, WriteInfo, SaveVocabulary, Published, Publishing,
              inMemory, asked
<1>8. ASSUME NEW n \in 0 .. Len(lengths), WriteLengths(n) PROVE Published'
  BY <1>8 DEF WriteLengths, Published, Publishing, inMemory
<1>9. CASE Returned \/ UNCHANGED bowVars
  BY <1>9 DEF Returned, Published, bowVars
<1>. QED
  BY <1>2, <1>3, <1>4, <1>5, <1>6, <1>7, <1>8, <1>9 DEF BowNext

\* The ids are those of the order of the collection, however the documents were
\* added, and a reader who looks a word up finds how often each text has it.
THEOREM VocabularyIsThat == BowSpec => []VocabularyOfBuild
<1>1. BowInit => Named /\ Published
  BY DEF BowInit, Named, Published, Publishing
<1>2. Typed /\ Named /\ Published => VocabularyOfBuild
  <2> SUFFICES ASSUME Typed, Named, Published PROVE VocabularyOfBuild
    OBVIOUS
  <2>1. analyzed /\ stage # "down" /\ first = 0 =>
          vocab = FoldLeft(GetOrInsert, <<>>, FlattenSeq(SubSeq(collection, 1, Next0)))
    BY DEF Named, GrowVocabulary
  <2>2. ASSUME stage = "returned", first = 0, analyzed,
               NEW d \in 0 .. Len(collection) - 1, NEW w \in Words
        PROVE  Occurrences(w, d) =
                 IF Contains(vocabFile.content, w) THEN Frequency(IdOf(vocabFile.content, w), d) ELSE 0
    <3>1. /\ d + 1 \in 1 .. Len(docs) /\ collection[d + 1] \in Seq(Words)
      BY <2>2, SourceTexts DEF Typed, Aligned, Publishing, Ids
    <3>2. vocabFile.content = vocab /\ index.content = docs
      BY <2>2 DEF Published, Publishing, Whole
    <3>3. /\ AreDistinct(vocab, Words)
          /\ \A x : Contains(collection[d + 1], x) => Contains(vocab, x)
          /\ docs[d + 1] = Numbered(Tokenize(collection[d + 1]), vocab)
      BY <2>2, <3>1 DEF Named
    <3>4. Cardinality({j \in DOMAIN collection[d + 1] : collection[d + 1][j] = w})
            = IF Contains(vocab, w) THEN Frequency(IdOf(vocab, w), d) ELSE 0
      <4> DEFINE text == collection[d + 1]
      <4>1. /\ text \in Seq(Words) /\ AreDistinct(vocab, Words)
            /\ \A x : Contains(text, x) => Contains(vocab, x)
            /\ index.content[d + 1] = Numbered(Tokenize(text), vocab)
        BY <3>1, <3>2, <3>3
      <4> HIDE DEF text
      <4>2. Cardinality({j \in DOMAIN text : text[j] = w})
              = IF Contains(vocab, w) THEN Frequency(IdOf(vocab, w), d) ELSE 0
        BY <4>1, FrequencyFound, Zenon
      <4>. QED
        BY <4>2 DEF text
    <3>. QED
      BY <3>2, <3>4 DEF Occurrences
  <2>. QED
    BY <2>1, <2>2 DEF VocabularyOfBuild
<1>. QED
  BY <1>1, <1>2, TypedInit, TypedStep, NamedStep, PublishedStep, PTL DEF BowSpec
=============================================================================
