-------------------------- MODULE OperatorCursors --------------------------
(***************************************************************************)
(* The cursors of the query operators (src/src/search/ops.rs): weighted    *)
(* sum, conjunction, phrase and window.  A move finds the next document    *)
(* and its value at once; reading returns it.  Leapfrogging is one step    *)
(* for each child looked at.                                               *)
(***************************************************************************)
EXTENDS VirtualLists

VARIABLES source,   \* kind, lists and, for a sum, weights, for a window its width;
                    \* postings: the list it stands for
          cursor, seen, reply

vars == <<source, cursor, seen, reply>>

lists == source.lists
Kids == DOMAIN lists
Alone == Posting(-1, 0, <<>>)

Postings == source.postings

(***************************************************************************)
(* new: the bounds of the operator, of those of its children.              *)
(***************************************************************************)
Maxima(BoundOf(_)) == {BoundOf(lists[i]) : i \in Kids}

SumTerm ==
  LET last == Max({0} \cup {MaxDocId(lists[i]) : i \in Kids})
  IN [most |-> AddUp(Kids, LAMBDA i : source.weights[i] * MaxValue(lists[i])),
      last |-> last,
      length |-> Min({AddUp(Kids, LAMBDA i : Len(lists[i])), last + 1})]

AndTerm ==
  [most |-> IF source.kind = "one" THEN 1 ELSE AddUp(Kids, LAMBDA i : MaxValue(lists[i])),
   last |-> Min({MaxDocId(lists[i]) : i \in Kids}),
   length |-> Min({Len(lists[i]) : i \in Kids})]

PositionalTerm ==
  [most |-> Min({MaxValue(lists[i]) : i \in Kids}),
   last |-> Min({MaxDocId(lists[i]) : i \in Kids}),
   length |-> Min({Len(lists[i]) : i \in Kids})]

Term ==
  CASE source.kind = "sum" -> SumTerm
    [] source.kind \in {"and", "one"} -> AndTerm
    [] OTHER -> PositionalTerm

(***************************************************************************)
(* front is the document a child is at, -1 when it has not been moved; a   *)
(* child of a sum that is exhausted is dropped (gone).                     *)
(***************************************************************************)
New == [doing |-> "idle", asking |-> 0, target |-> 0, child |-> 1,
        children |-> [i \in Kids |-> Child(lists[i])],
        front |-> [i \in Kids |-> -1], gone |-> {},
        cached |-> Alone, exhausted |-> FALSE]

Init == cursor = New /\ seen = Unseen /\ reply = Start

Target(d) == Max({d, cursor.cached.doc + 1})

\* A child is moved and read: its document is its front.
Advanced(i, target) == ChildRead(ChildMove(cursor.children[i], target))

(***************************************************************************)
(* SumCursor: every child behind the target moves; the first front is the  *)
(* document, the children at it add up.                                    *)
(***************************************************************************)
SumNextMinDocId(d) ==
  LET target == Target(d)
      behind == {i \in Kids \ cursor.gone : cursor.front[i] < target}
      ended == {i \in behind : ChildEnded(ChildMove(cursor.children[i], target))}
      children == [i \in Kids |-> IF i \in behind \ ended THEN Advanced(i, target)
                                  ELSE cursor.children[i]]
      front == [i \in Kids |-> IF i \in behind \ ended THEN ChildPosting(children[i]).doc
                               ELSE cursor.front[i]]
      left == Kids \ (cursor.gone \cup ended)
      doc == Min({front[i] : i \in left})
      value == AddUp({i \in left : front[i] = doc},
                     LAMBDA i : source.weights[i] * ChildPosting(children[i]).value)
  IN /\ source.kind = "sum"
     /\ cursor' = [cursor EXCEPT !.children = children, !.front = front,
                                 !.gone = Kids \ left,
                                 !.cached = IF left = {} THEN Alone ELSE Posting(doc, value, <<>>)]
     /\ seen' = SeenMove(Postings, seen, d)
     /\ reply' = IF left = {} THEN Ended ELSE Bound(doc, TermBlock(Term))
     /\ UNCHANGED source

(***************************************************************************)
(* AndCursor and PositionalCursor: leapfrog_align.                         *)
(***************************************************************************)
BeginAlign(d) ==
  /\ source.kind # "sum" /\ cursor.doing = "idle"
  /\ IF cursor.exhausted
     THEN /\ seen' = SeenMove(Postings, seen, d)
          /\ reply' = Ended
          /\ UNCHANGED cursor
     ELSE /\ cursor' = [cursor EXCEPT !.doing = "aligning", !.asking = d,
                                      !.target = Target(d), !.child = 1]
          /\ UNCHANGED <<seen, reply>>
  /\ UNCHANGED source

\* A child that is past the target sets a new one, and all are looked at again.
AlignChild ==
  LET i == cursor.child
      moved == ChildMove(cursor.children[i], cursor.target)
      behind == cursor.front[i] < cursor.target
      child == IF behind THEN ChildRead(moved) ELSE cursor.children[i]
      front == IF behind THEN ChildPosting(child).doc ELSE cursor.front[i]
  IN /\ cursor.doing = "aligning" /\ i \in Kids
     /\ IF behind /\ ChildEnded(moved)
        THEN /\ cursor' = [cursor EXCEPT !.doing = "idle", !.exhausted = TRUE]
             /\ seen' = SeenMove(Postings, seen, cursor.asking)
             /\ reply' = Ended
        ELSE /\ cursor' = [cursor EXCEPT !.children[i] = child, !.front[i] = front,
                             !.target = Max({front, cursor.target}),
                             !.child = IF front > cursor.target THEN 1 ELSE i + 1]
             /\ UNCHANGED <<seen, reply>>
     /\ UNCHANGED source

Emit(value) ==
  LET p == Posting(cursor.target, value, <<>>)
  IN /\ cursor' = [cursor EXCEPT !.doing = "idle", !.cached = p]
     /\ seen' = SeenMove(Postings, seen, cursor.asking)
     /\ reply' = Bound(p.doc, TermBlock(Term))

Aligned == cursor.doing = "aligning" /\ cursor.child > Len(lists)

EmitConjunction ==
  /\ Aligned /\ source.kind \in {"and", "one"}
  /\ Emit(IF source.kind = "one" THEN 1
          ELSE AddUp(Kids, LAMBDA i : ChildPosting(cursor.children[i]).value))
  /\ UNCHANGED source

\* A document where the terms do not match is passed over.
EmitMatch ==
  /\ Aligned /\ source.kind \in {"phrase", "window"}
  /\ LET count == CountAt(source, [i \in Kids |-> ChildPosting(cursor.children[i]).run])
     IN IF count > 0 THEN Emit(count)
        ELSE /\ cursor' = [cursor EXCEPT !.target = cursor.target + 1, !.child = 1]
             /\ UNCHANGED <<seen, reply>>
  /\ UNCHANGED source

Current ==
  /\ cursor.doing = "idle" /\ reply \notin {Start, Ended}
  /\ seen' = SeenRead(Postings, seen, cursor.cached.doc)
  /\ reply' = Found(cursor.cached, TermBlock(Term))
  /\ UNCHANGED <<source, cursor>>

(***************************************************************************)
(* The searches read a cursor after each move.                             *)
(***************************************************************************)
Next ==
  \/ \E d \in 0 .. NoLimit : reply.is # "bound" /\ (SumNextMinDocId(d) \/ BeginAlign(d))
  \/ AlignChild \/ EmitConjunction \/ EmitMatch \/ Current

Spec == Init /\ [][Next]_vars
=============================================================================
