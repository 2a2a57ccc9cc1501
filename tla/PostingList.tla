---------------------------- MODULE PostingList ----------------------------
(***************************************************************************)
(* Posting lists, and what the caller of a cursor over one has seen.       *)
(*                                                                         *)
(* A posting is a record with a document, a value (an impact, a term       *)
(* frequency or a score) and a run of positions; a list is a sequence of   *)
(* postings in the order of documents, cut into blocks.                    *)
(***************************************************************************)
EXTENDS Integers, FiniteSetsExt, SequencesExt

CONSTANT NoLimit         \* a document id after all others

ASSUME LimitAssumption == NoLimit \in Nat

Posting(doc, value, run) == [doc |-> doc, value |-> value, run |-> run]

\* The members of a set of numbers in their order.
InOrder(S) ==
  [i \in 1 .. Cardinality(S) |-> CHOOSE d \in S : Cardinality({e \in S : e < d}) = i - 1]

\* The first posting of list at or after document d; 0 when there is none.
FirstFrom(list, d) ==
  LET later == {i \in DOMAIN list : list[i].doc >= d}
  IN IF later = {} THEN 0 ELSE Min(later)

MaxDocId(list) == Max({0} \cup {list[i].doc : i \in DOMAIN list})
MaxValue(list) == Max({0} \cup {list[i].value : i \in DOMAIN list})
MinDocId(list) == Min({NoLimit} \cup {list[i].doc : i \in DOMAIN list})

\* The blocks of a list: size postings each, the last one may be shorter.
Cut(list, size) ==
  [b \in 1 .. (Len(list) + size - 1) \div size |->
     SubSeq(list, (b - 1) * size + 1, Min({b * size, Len(list)}))]

(***************************************************************************)
(* What the caller of a cursor has seen: the posting it read last, the     *)
(* documents its last move and all its moves asked for.                    *)
(***************************************************************************)
Unseen == [at |-> 0, least |-> 0, asked |-> 0, moved |-> FALSE]

Past(list, seen) == IF seen.at = 0 THEN 0 ELSE list[seen.at].doc + 1

SeenMove(list, seen, d) ==
  LET least == Max({d, Past(list, seen)})
  IN [at |-> seen.at, least |-> least, asked |-> Max({seen.asked, least}),
      moved |-> TRUE]

\* The posting of document d has been read.
SeenRead(list, seen, d) ==
  [seen EXCEPT !.at = IF \E i \in DOMAIN list : list[i].doc = d
                      THEN CHOOSE i \in DOMAIN list : list[i].doc = d
                      ELSE seen.at]

(***************************************************************************)
(* The answers of a cursor.  A block is what the cursor says of the        *)
(* postings around the one it is at.                                       *)
(***************************************************************************)
Start == [is |-> "start"]
Ended == [is |-> "end"]
Panicked == [is |-> "panic"]
Bound(d, block) == [is |-> "bound", doc |-> d, block |-> block]
Found(p, block) == [is |-> "posting", doc |-> p.doc, value |-> p.value, block |-> block]
Places(run) == [is |-> "positions", run |-> run]

Block(first, last, most) == [first |-> first, last |-> last, most |-> most]
-----------------------------------------------------------------------------
(***************************************************************************)
(* The cursors a composite cursor reads: each is known by the contract     *)
(* PostingCursor only.  at is the posting read last and least what the     *)
(* moves asked for.                                                        *)
(***************************************************************************)
Child(list) == [list |-> list, at |-> 0, least |-> 0]

ChildPast(child) == IF child.at = 0 THEN 0 ELSE child.list[child.at].doc + 1

\* next_min_doc_id: of the postings the contract allows when a caller goes back
\* it gives the last one.
ChildMove(child, d) == [child EXCEPT !.least = Max({d, ChildPast(child), @})]

ChildNext(child) ==
  IF child.at # 0 /\ child.list[child.at].doc >= child.least
  THEN child.at ELSE FirstFrom(child.list, child.least)

ChildEnded(child) == ChildNext(child) = 0

\* What a move may answer: what was asked for, or the first document of a block
\* that starts before the posting, as near as that posting itself.
ChildBounds(child) ==
  {child.least, child.list[1].doc, child.list[ChildNext(child)].doc}

\* current
ChildRead(child) == [child EXCEPT !.at = ChildNext(child)]
ChildPosting(child) == child.list[ChildNext(child)]

(***************************************************************************)
(* The list made of the documents of a set, by what a document is given.   *)
(***************************************************************************)
Listing(docs, PostingOf(_)) ==
  LET ordered == InOrder(docs) IN [i \in DOMAIN ordered |-> PostingOf(ordered[i])]

DocsOf(list) == {list[i].doc : i \in DOMAIN list}
PostingAt(list, d) == list[FirstFrom(list, d)]

\* The bounds of a cursor without blocks: those of its term.
TermBlock(term) == Block(0, term.last, term.most)
=============================================================================
