---------------------------- MODULE SplitCursor ----------------------------
(***************************************************************************)
(* SplitIndexTermIterator (src/src/transforms/split.rs): the merge of the  *)
(* cursors of the splits of a term through a heap, ordered by what is known *)
(* of the next document of each.  One step is one turn of its loops.       *)
(***************************************************************************)
EXTENDS PostingList

VARIABLES source,   \* lists: the splits merged; ceiling, floor: what is counted
                    \* of an impact; postings: the merged list
          cursor, seen, reply

vars == <<source, cursor, seen, reply>>

-----------------------------------------------------------------------------
(***************************************************************************)
(* How the split transform divides a posting list by impact, and what a    *)
(* posting of a split contributes to each of the cursors a search is given. *)
(***************************************************************************)
\* Above every impact.
Infinity == 1000

Sorted(values) == SortSeq(values, <)

(***************************************************************************)
(* compute_splits: the thresholds that cut the impacts of a term, of the   *)
(* sorted values and of the quantiles in tenths.                           *)
(***************************************************************************)
Thresholds(values, quantiles) ==
  LET sorted == Sorted(values)
      at(ix) == IF ix <= Len(sorted) THEN sorted[ix] ELSE Infinity
      lowest == IF sorted = <<>> THEN 0 ELSE sorted[1]
      raise(acc, q) ==
        Append(acc, Max({at((q * Len(sorted)) \div 10 + 1), acc[Len(acc)]}))
  IN Append(FoldLeft(raise, <<lowest>>, quantiles), Infinity)

\* The largest impact in [low, high); 0 for an empty split.
SplitMax(values, low, high) ==
  Max({0} \cup {values[i] : i \in {j \in DOMAIN values : low <= values[j] /\ values[j] < high}})

SplitMaxima(values, thresholds) ==
  [q \in 1 .. Len(thresholds) - 1 |-> SplitMax(values, thresholds[q], thresholds[q + 1])]

\* SplitIndexView::iterator: the postings of a list that fall into split q.
SplitPostings(list, thresholds, q) ==
  SelectSeq(list, LAMBDA p : thresholds[q] <= p.value /\ p.value < thresholds[q + 1])

SplitLists(list, quantiles) ==
  LET thresholds == Thresholds([i \in DOMAIN list |-> list[i].value], quantiles)
  IN [q \in 1 .. Len(quantiles) + 1 |-> SplitPostings(list, thresholds, q)]

\* The view has the splits of each term of the source, one term after the other.
ViewList(index, quantiles, term) ==
  LET splits == Len(quantiles) + 1
  IN SplitLists(index[(term \div splits) + 1], quantiles)[(term % splits) + 1]

ViewTerms(index, quantiles) == 0 .. Len(index) * (Len(quantiles) + 1) - 1

(***************************************************************************)
(* block_iterators: the cursor i merges the splits from i on.  It counts   *)
(* of an impact what is above the largest of the splits before and up to   *)
(* the largest of its own.                                                 *)
(***************************************************************************)
Ceiling(lists, i) == Max({0} \cup {MaxValue(lists[j]) : j \in 1 .. i})

Contribution(lists, i, v) == Min({v, Ceiling(lists, i)}) - Ceiling(lists, i - 1)

\* block_iterator: one cursor over all splits that counts the whole impact.
WholeCeiling(lists) == Ceiling(lists, Len(lists))

\* value_range of the split index, of the ranges of its splits.
ValueRange(lists) ==
  LET lows == {0 : q \in DOMAIN lists}
      high == WholeCeiling(lists)
  IN [low |-> Min(lows \cup {high}), high |-> high]

-----------------------------------------------------------------------------

\* current counts min(value, max_value) + delta_value of a posting.
Counted(p, ceiling, floor) == Posting(p.doc, Min({p.value, ceiling}) - floor, <<>>)

Merged(lists, ceiling, floor) ==
  LET docs == UNION {DocsOf(lists[i]) : i \in DOMAIN lists}
      holder(d) == CHOOSE i \in DOMAIN lists : d \in DocsOf(lists[i])
  IN Listing(docs, LAMBDA d : Counted(PostingAt(lists[holder(d)], d), ceiling, floor))

Postings == source.postings

Term == [most |-> source.ceiling - source.floor,
         last |-> MaxDocId(Postings),
         length |-> FoldLeft(LAMBDA n, list : n + Len(list), 0, source.lists)]

(***************************************************************************)
(* What a merged cursor is given: lists in the order of documents that     *)
(* share none, for each impact of a term falls into one split.             *)
(***************************************************************************)
IsSource(s) ==
  /\ s.lists \in Seq(Seq([doc : Nat, value : Nat, run : Seq(Nat)]))
  /\ \A k \in DOMAIN s.lists :
       \A i, j \in DOMAIN s.lists[k] : i < j => s.lists[k][i].doc < s.lists[k][j].doc
  /\ \A k, l \in DOMAIN s.lists :
       \A i \in DOMAIN s.lists[k], j \in DOMAIN s.lists[l] :
         s.lists[k][i].doc = s.lists[l][j].doc => k = l
  /\ s.ceiling \in Nat /\ s.floor \in Nat
  /\ s.postings = Merged(s.lists, s.ceiling, s.floor)

(***************************************************************************)
(* An entry of the heap: the cursor, its posting once that is read, and    *)
(* the least document it may be at.                                        *)
(***************************************************************************)
NotRead == Posting(-1, 0, <<>>)
Entry(i, posting, doc) == [index |-> i, posting |-> posting, doc |-> doc]

New == [doing |-> "idle", asking |-> 0,
        children |-> [i \in DOMAIN source.lists |-> Child(source.lists[i])],
        heap |-> {}, initialized |-> FALSE, target |-> 0, last |-> -1]

Init == cursor = New /\ seen = Unseen /\ reply = Start

\* The entries one of which is at the top: documents tie.
Tops == {e \in cursor.heap : \A f \in cursor.heap : e.doc <= f.doc}

BeginMove(d) ==
  /\ cursor.doing = "idle"
  /\ cursor' = [cursor EXCEPT !.doing = IF cursor.initialized THEN "moving" ELSE "opening",
                              !.asking = d,
                              !.target = Max({d, cursor.target, cursor.last + 1})]
  /\ UNCHANGED <<source, seen, reply>>

\* The first move: every cursor that has something left enters the heap.
OpenAll ==
  /\ cursor.doing = "opening"
  /\ LET moved == [i \in DOMAIN cursor.children |-> ChildMove(cursor.children[i], cursor.target)]
         left == {i \in DOMAIN moved : ~ChildEnded(moved[i])}
     IN \E bound \in [left -> UNION {ChildBounds(moved[i]) : i \in left}] :
          /\ \A i \in left : bound[i] \in ChildBounds(moved[i])
          /\ cursor' = [cursor EXCEPT
               !.doing = "moving", !.initialized = TRUE, !.children = moved,
               !.heap = {Entry(i, NotRead, Max({bound[i], cursor.target})) : i \in left}]
  /\ UNCHANGED <<source, seen, reply>>

\* A cursor that is behind the target moves, whichever it is, and is not read.
MoveTop ==
  /\ cursor.doing = "moving"
  /\ \E top \in Tops :
       /\ top.doc < cursor.target
       /\ LET moved == ChildMove(cursor.children[top.index], cursor.target)
              rest == cursor.heap \ {top}
          IN IF ChildEnded(moved)
             THEN cursor' = [cursor EXCEPT !.children[top.index] = moved, !.heap = rest]
             ELSE \E bound \in ChildBounds(moved) :
                    cursor' = [cursor EXCEPT
                      !.children[top.index] = moved,
                      !.heap = rest \cup {Entry(top.index, NotRead, Max({bound, cursor.target}))}]
  /\ UNCHANGED <<source, seen, reply>>

\* Mutant of EndMove: only the cursor at the top is looked at.
EndMoveEarly ==
  /\ cursor.doing = "moving"
  /\ \E top \in Tops : top.doc >= cursor.target \/ top.posting = NotRead
  /\ cursor' = [cursor EXCEPT !.doing = "idle"]
  /\ seen' = SeenMove(Postings, seen, cursor.asking)
  /\ reply' = Bound(Min({e.doc : e \in cursor.heap}), TermBlock(Term))
  /\ UNCHANGED source

EndMove ==
  /\ cursor.doing = "moving"
  /\ \A top \in Tops : top.doc >= cursor.target
  /\ cursor' = [cursor EXCEPT !.doing = "idle"]
  /\ seen' = SeenMove(Postings, seen, cursor.asking)
  /\ reply' = IF cursor.heap = {} THEN Ended
              ELSE Bound(Min({e.doc : e \in cursor.heap}), TermBlock(Term))
  /\ UNCHANGED source

(***************************************************************************)
(* current: read cursors until the one at the top is read.                 *)
(***************************************************************************)
BeginRead ==
  /\ cursor.doing = "idle" /\ reply \notin {Start, Ended}
  /\ cursor' = [cursor EXCEPT !.doing = "reading"]
  /\ UNCHANGED <<source, seen, reply>>

ReadTop ==
  /\ cursor.doing = "reading"
  /\ \E top \in Tops :
       /\ top.posting = NotRead
       /\ LET child == cursor.children[top.index]
              p == ChildPosting(child)
          IN cursor' = [cursor EXCEPT
               !.children[top.index] = ChildRead(child),
               !.heap = (@ \ {top}) \cup {Entry(top.index, Counted(p, source.ceiling, source.floor), p.doc)}]
  /\ UNCHANGED <<source, seen, reply>>

EndRead ==
  /\ cursor.doing = "reading"
  /\ \E top \in Tops :
       /\ top.posting # NotRead
       /\ cursor' = [cursor EXCEPT !.doing = "idle", !.last = top.posting.doc]
       /\ seen' = SeenRead(Postings, seen, top.posting.doc)
       /\ reply' = Found(top.posting, TermBlock(Term))
  /\ UNCHANGED source

Next ==
  \/ \E d \in 0 .. NoLimit : BeginMove(d)
  \/ OpenAll \/ MoveTop \/ EndMove \/ BeginRead \/ ReadTop \/ EndRead

Spec == Init /\ [][Next]_vars

(***************************************************************************)
(* "every entry has min_doc_id >= target, so no entry holds a stale        *)
(* posting": what the comment on the heap claims between two calls.         *)
(***************************************************************************)
HeapIsCurrent ==
  cursor.doing \in {"idle", "reading"} =>
    \A e \in cursor.heap :
      /\ e.doc >= cursor.target
      /\ e.posting # NotRead => e.posting.doc = e.doc
=============================================================================
