------------------------------ MODULE Bisection ------------------------------
(***************************************************************************)
(* The order of documents a reordering finds: the documents are halved     *)
(* again and again, and pairs swapped across the halves while the terms    *)
(* they share gather on a side.  Halves are worked on by several threads,  *)
(* each with counters of its own that it uses for one node after another.  *)
(***************************************************************************)
EXTENDS Integers, Sequences, SequencesExt, FiniteSets, TLC

CONSTANTS
  Threads,
  Collections,      \* the documents of each term, for the indexes reordered
  NumDocs, LeafSize, MaxIters, MinDf, MaxDf,
  Cost              \* of a term in so many documents of one half and of the other

Docs == 0 .. NumDocs - 1

VARIABLES
  lists,            \* term -> its documents
  filtered,         \* the terms counted so far, without those too rare or too common
  degree,           \* how many of their postings are of a document
  csr,              \* [offsets, terms]: the terms of each document, one after the other
  order,            \* the documents in the order found so far
  tasks,            \* the ranges of it still to bisect
  running,          \* the node of each thread
  scratch           \* how many documents of each half of that node have each term

vars == <<lists, filtered, degree, csr, order, tasks, running, scratch>>

Terms == DOMAIN lists
Idle == [range |-> <<0, 0>>]
Zeros == [t \in Terms |-> 0]

-----------------------------------------------------------------------------

Kept(list) == IF Len(list) < MinDf \/ Len(list) > MaxDf THEN <<>> ELSE list

\* Terms are counted in parallel, in any order.
CountTerm(t) ==
  /\ t \notin DOMAIN filtered
  /\ LET docids == Kept(lists[t])
     IN /\ filtered' = (t :> docids) @@ filtered
        /\ degree' = [d \in Docs |-> degree[d] + Cardinality({i \in DOMAIN docids : docids[i] = d})]
  /\ UNCHANGED <<lists, csr, order, tasks, running, scratch>>

\* Where the terms of each document begin, and those of one more end.
Offsets ==
  [d \in 0 .. NumDocs |-> FoldLeft(LAMBDA sum, i : sum + degree[i - 1], 0, [i \in 1 .. d |-> i])]

\* Each posting goes to the next place of its document.
Scattered ==
  FoldLeft(LAMBDA to, posting :
             [terms |-> [to.terms EXCEPT ![to.cursor[posting[1]] + 1] = posting[2]],
              cursor |-> [to.cursor EXCEPT ![posting[1]] = @ + 1]],
           [terms |-> [i \in 1 .. Offsets[NumDocs] |-> 0], cursor |-> [d \in Docs |-> Offsets[d]]],
           FlattenSeq([t \in Terms |-> [i \in DOMAIN filtered[t] |-> <<filtered[t][i], t>>]])).terms

Scatter ==
  /\ DOMAIN filtered = Terms /\ csr = <<>>
  /\ csr' = [offsets |-> Offsets, terms |-> Scattered]
  /\ tasks' = {<<1, NumDocs>>}
  /\ UNCHANGED <<lists, filtered, degree, order, running, scratch>>

terms_of(d) == SubSeq(csr.terms, csr.offsets[d] + 1, csr.offsets[d + 1])

-----------------------------------------------------------------------------

split_cost(d1, d2) == IF d1 = 0 \/ d2 = 0 THEN 0 ELSE Cost[<<d1, d2>>]

\* How much cheaper or dearer the terms of a document get on the other side.
Gain(d, here, there) ==
  FoldLeft(LAMBDA g, t :
             g + split_cost(here[t] - 1, there[t] + 1) - split_cost(here[t], there[t]),
           0, terms_of(d))

\* The documents of a half with their gain and place, the largest gain first.
Gains(half, here, there) ==
  SortSeq([i \in DOMAIN half |-> <<Gain(half[i], here, there), half[i], i>>],
          LAMBDA a, b : a[1] > b[1] \/ (a[1] = b[1] /\ a[2] < b[2]))

Plus(counts, d, n) ==
  [t \in Terms |-> counts[t] + n * Cardinality({i \in DOMAIN terms_of(d) : terms_of(d)[i] = t})]

\* Mutant of Swapped: the counts of the half a document goes to are left alone.
SwappedOneSide(node, l, r) ==
  [node EXCEPT !.halves = <<[node.halves[1] EXCEPT ![l[3]] = r[2]],
                            [node.halves[2] EXCEPT ![r[3]] = l[2]]>>,
               !.left = Plus(node.left, l[2], -1),
               !.right = Plus(node.right, r[2], -1),
               !.swapped = TRUE]

\* Two documents change sides, and the counts with them.
Swapped(node, l, r) ==
  [node EXCEPT !.halves = <<[node.halves[1] EXCEPT ![l[3]] = r[2]],
                            [node.halves[2] EXCEPT ![r[3]] = l[2]]>>,
               !.left = Plus(Plus(node.left, l[2], -1), r[2], 1),
               !.right = Plus(Plus(node.right, l[2], 1), r[2], -1),
               !.swapped = TRUE]

\* Pairs of the largest gains are swapped up to the first that gains nothing.
Pass(halves, left, right) ==
  LET lefts == Gains(halves[1], left, right)
      rights == Gains(halves[2], right, left)
      Useful(k) == lefts[k][1] + rights[k][1] > 0
      pairs == SelectSeq([k \in 1 .. Len(lefts) |-> k], LAMBDA k : \A j \in 1 .. k : Useful(j))
  IN FoldLeft(LAMBDA node, k : Swapped(node, lefts[k], rights[k]),
              [halves |-> halves, left |-> left, right |-> right, swapped |-> FALSE], pairs)

Halves(seq) ==
  LET mid == Len(seq) \div 2 IN <<SubSeq(seq, 1, mid), SubSeq(seq, mid + 1, Len(seq))>>

Slice(range) == SubSeq(order, range[1], range[2])

\* The counts of a half are added to those of the thread.
Counted(counts, half) == FoldLeft(LAMBDA c, d : Plus(c, d, 1), counts, half)

\* The terms met in a node.
Touched(halves) == {t \in Terms : \E h \in {1, 2} : \E i \in DOMAIN halves[h] :
                                    t \in ToSet(terms_of(halves[h][i]))}

-----------------------------------------------------------------------------

Init ==
  /\ lists \in Collections
  /\ filtered = <<>> /\ degree = [d \in Docs |-> 0] /\ csr = <<>>
  /\ order = [i \in 1 .. NumDocs |-> i - 1]
  /\ tasks = {} /\ running = [th \in Threads |-> Idle]
  /\ scratch = [th \in Threads |-> [left |-> Zeros, right |-> Zeros, touched |-> {}]]

\* A few documents are left as they are.
Leaf(range) ==
  /\ range[2] - range[1] + 1 <= LeafSize
  /\ tasks' = tasks \ {range}
  /\ UNCHANGED <<lists, filtered, degree, csr, order, running, scratch>>

\* A thread counts the terms of both halves of a node.
Take(th, range) ==
  /\ running[th] = Idle /\ range[2] - range[1] + 1 > LeafSize
  /\ LET halves == Halves(Slice(range))
     IN scratch' = [scratch EXCEPT ![th] =
          [left |-> Counted(@.left, halves[1]), right |-> Counted(@.right, halves[2]),
           touched |-> {t \in Touched(halves) : @.left[t] = 0 /\ @.right[t] = 0}]]
  /\ running' = [running EXCEPT ![th] = [range |-> range, pass |-> 0, more |-> TRUE]]
  /\ tasks' = tasks \ {range}
  /\ UNCHANGED <<lists, filtered, degree, csr, order>>

\* One pass of swaps over the two halves.
SwapPass(th) ==
  /\ running[th] # Idle /\ running[th].more /\ running[th].pass < MaxIters
  /\ LET range == running[th].range
         node == Pass(Halves(Slice(range)), scratch[th].left, scratch[th].right)
         swapped == node.halves[1] \o node.halves[2]
     IN /\ order' = [i \in DOMAIN order |->
                       IF i \in range[1] .. range[2] THEN swapped[i - range[1] + 1] ELSE order[i]]
        /\ scratch' = [scratch EXCEPT ![th].left = node.left, ![th].right = node.right]
        /\ running' = [running EXCEPT ![th] =
                         [range |-> range, pass |-> running[th].pass + 1, more |-> node.swapped]]
  /\ UNCHANGED <<lists, filtered, degree, csr, tasks>>

\* The counters of the terms of the node go back to zero, and the halves are
\* bisected by whichever threads are free.
Split(th) ==
  /\ running[th] # Idle /\ (running[th].pass = MaxIters \/ ~running[th].more)
  /\ LET range == running[th].range
         mid == range[1] + (range[2] - range[1] + 1) \div 2
         Cleared(counts) == [t \in Terms |-> IF t \in scratch[th].touched THEN 0 ELSE counts[t]]
     IN /\ tasks' = tasks \cup {<<range[1], mid - 1>>, <<mid, range[2]>>}
        /\ scratch' = [scratch EXCEPT ![th].left = Cleared(@), ![th].right = Cleared(@)]
  /\ running' = [running EXCEPT ![th] = Idle]
  /\ UNCHANGED <<lists, filtered, degree, csr, order>>

Next ==
  \/ \E t \in Terms : CountTerm(t)
  \/ Scatter
  \/ \E range \in tasks : Leaf(range)
  \/ \E th \in Threads, range \in tasks : Take(th, range)
  \/ \E th \in Threads : SwapPass(th) \/ Split(th)

Spec == Init /\ [][Next]_vars

-----------------------------------------------------------------------------

\* The documents of a sequence that have each of the terms kept.
CountIn(seq) ==
  [t \in Terms |-> Cardinality({i \in DOMAIN seq : seq[i] \in ToSet(Kept(lists[t]))})]

\* The counters of a thread are those of its node, and zero between two nodes.
ScratchExact ==
  \A th \in Threads :
    LET halves == IF running[th] = Idle THEN <<<<>>, <<>>>> ELSE Halves(Slice(running[th].range))
    IN scratch[th].left = CountIn(halves[1]) /\ scratch[th].right = CountIn(halves[2])

\* The terms of a document are those kept that it has, in their order.
AdjacencyExact ==
  csr # <<>> =>
    \A d \in Docs :
      terms_of(d) = SelectSeq([t \in Terms |-> t], LAMBDA t : d \in ToSet(Kept(lists[t])))

\* What one thread makes of a node, and of the whole.
Passes(seq) ==
  LET after[n \in 0 .. MaxIters] ==
        IF n = 0 THEN [halves |-> Halves(seq), swapped |-> TRUE]
        ELSE LET node == after[n - 1]
             IN IF node.swapped
                THEN Pass(node.halves, CountIn(node.halves[1]), CountIn(node.halves[2]))
                ELSE node
  IN after[MaxIters].halves

Sequential ==
  LET sorted[seq \in Seq(Docs)] ==
        IF Len(seq) <= LeafSize THEN seq
        ELSE sorted[Passes(seq)[1]] \o sorted[Passes(seq)[2]]
  IN sorted[[i \in 1 .. NumDocs |-> i - 1]]

\* Whatever the threads and the nodes they take, the order found is the same one,
\* and a permutation of the documents.
OrderDeterministic ==
  /\ ToSet(order) = Docs
  /\ csr # <<>> /\ tasks = {} /\ (\A th \in Threads : running[th] = Idle)
       => order = Sequential
=============================================================================
