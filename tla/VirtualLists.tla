---------------------------- MODULE VirtualLists ----------------------------
(***************************************************************************)
(* The posting list each query operator stands for (src/src/search/ops.rs):*)
(* weighted sum, conjunction, phrase and window of the lists below it.     *)
(***************************************************************************)
EXTENDS PostingList

(***************************************************************************)
(* How often terms occur next to each other, in order, or together within  *)
(* a width, given the sorted positions of each of them.                    *)
(***************************************************************************)
\* The list with the fewest positions, the first one of them.
Rarest(lists) ==
  CHOOSE i \in DOMAIN lists :
    \A j \in DOMAIN lists :
      Len(lists[i]) < Len(lists[j]) \/ (Len(lists[i]) = Len(lists[j]) /\ i <= j)

SomeEmpty(lists) == lists = <<>> \/ \E i \in DOMAIN lists : lists[i] = <<>>

(***************************************************************************)
(* phrase_count.  The rarest list proposes the starts; in each other list  *)
(* a pointer goes forward to the place the term has to be at.  A term that *)
(* is not there ends the turn, the pointers stay where they are.           *)
(***************************************************************************)
AdvancePointer(list, from, target) ==
  Min({q \in from .. Len(list) : list[q] >= target} \cup {Len(list) + 1})

ProbeStart(lists, pivot, state, p) ==
  LET start == p - (pivot - 1)
      others == SelectSeq([i \in DOMAIN lists |-> i], LAMBDA i : i # pivot)
      probe(turn, i) ==
        IF ~turn.fits THEN turn
        ELSE LET q == AdvancePointer(lists[i], turn.pointers[i], start + i - 1)
             IN [pointers |-> [turn.pointers EXCEPT ![i] = q],
                 fits |-> q <= Len(lists[i]) /\ lists[i][q] = start + i - 1]
      done == FoldLeft(probe, [pointers |-> state.pointers, fits |-> TRUE], others)
  IN IF start < 0 THEN state
     ELSE [pointers |-> done.pointers, count |-> state.count + (IF done.fits THEN 1 ELSE 0)]

PhraseCount(lists) ==
  LET pivot == Rarest(lists)
      none == [pointers |-> [i \in DOMAIN lists |-> 1], count |-> 0]
  IN IF SomeEmpty(lists) THEN 0
     ELSE IF Len(lists) = 1 THEN Len(lists[1])
     ELSE FoldLeft(LAMBDA state, p : ProbeStart(lists, pivot, state, p), none, lists[pivot]).count

(***************************************************************************)
(* window_count.  An occurrence of the rarest term counts when a window    *)
(* that contains it has a position of each other term; the terms take the  *)
(* first position that is not taken, one after the other.                  *)
(***************************************************************************)
WindowHolds(lists, seed, p, start, diameter) ==
  LET take(turn, i) ==
        LET free == {q \in {lists[i][n] : n \in DOMAIN lists[i]} :
                       start <= q /\ q < start + diameter /\ q \notin turn.chosen}
        IN IF i = seed \/ ~turn.fits THEN turn
           ELSE IF free = {} THEN [turn EXCEPT !.fits = FALSE]
           ELSE [turn EXCEPT !.chosen = @ \cup {Min(free)}]
  IN FoldLeft(take, [chosen |-> {p}, fits |-> TRUE], [i \in DOMAIN lists |-> i]).fits

WindowCount(lists, width) ==
  LET seed == Rarest(lists)
      diameter == Max({width, Len(lists)})
      seeds == {lists[seed][n] : n \in DOMAIN lists[seed]}
  IN IF SomeEmpty(lists) THEN 0
     ELSE IF Len(lists) = 1 THEN Len(lists[seed])
     ELSE Cardinality({p \in seeds :
            \E start \in p - diameter + 1 .. p : WindowHolds(lists, seed, p, start, diameter)})

AddUp(S, value(_)) == MapThenSumSet(value, S)

(***************************************************************************)
(* What an operator q stands for.                                          *)
(***************************************************************************)
CountAt(q, runs) ==
  IF q.kind = "phrase" THEN PhraseCount(runs) ELSE WindowCount(runs, q.width)

StandsFor(q) ==
  LET kids == DOMAIN q.lists
      holders(d) == {i \in kids : d \in DocsOf(q.lists[i])}
      value(i, d) == PostingAt(q.lists[i], d).value
      everywhere == {d \in 0 .. NoLimit : holders(d) = kids}
      count(d) == CountAt(q, [i \in kids |-> PostingAt(q.lists[i], d).run])
      somewhere == {d \in 0 .. NoLimit : holders(d) # {}}
      matching == {d \in everywhere : count(d) > 0}
  IN CASE q.kind = "sum" ->
            Listing(somewhere, LAMBDA d :
              Posting(d, AddUp(holders(d), LAMBDA i : q.weights[i] * value(i, d)), <<>>))
       [] q.kind = "and" ->
            Listing(everywhere, LAMBDA d : Posting(d, AddUp(kids, LAMBDA i : value(i, d)), <<>>))
       [] q.kind = "one" -> Listing(everywhere, LAMBDA d : Posting(d, 1, <<>>))
       [] OTHER -> Listing(matching, LAMBDA d : Posting(d, count(d), <<>>))
=============================================================================
