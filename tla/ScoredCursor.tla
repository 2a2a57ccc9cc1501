---------------------------- MODULE ScoredCursor ----------------------------
(***************************************************************************)
(* ScoringBlockIterator (src/src/scoring/mod.rs): the cursor that scores   *)
(* the postings of any other one, and its bounds.                          *)
(***************************************************************************)
EXTENDS PostingList, Scorer

VARIABLES source,   \* list, the blocks it is cut into, their shortest documents;
                    \* postings: the scored list
          cursor, seen, reply

vars == <<source, cursor, seen, reply>>

ScoredList(list) ==
  [i \in DOMAIN list |-> [list[i] EXCEPT !.value = Score(@, list[i].doc)]]

Postings == source.postings

\* The bound of the term: the largest value, in the shortest document.
Term ==
  [most |-> MaxScoreWithDl(MaxValue(source.list), source.termMinDl),
   last |-> MaxDocId(source.list), length |-> Len(source.list)]

Unscored == Posting(-1, 0, <<>>)

New == [inner |-> Child(source.list), current |-> Unscored, cached |-> Block(0, 0, 0)]

Init == cursor = New /\ seen = Unseen /\ reply = Start

\* The block of the inner cursor once it has moved.
InnerBlock(inner) ==
  CHOOSE k \in DOMAIN source.blocks : ChildPosting(inner).doc \in DocsOf(source.blocks[k])

\* refresh_block_cache
ScoredBlock(k) ==
  Block(MinDocId(source.blocks[k]), MaxDocId(source.blocks[k]),
        MaxScoreWithDl(MaxValue(source.blocks[k]), source.minDl[k]))

NextMinDocId(d) ==
  LET inner == ChildMove(cursor.inner, d)
  IN /\ seen' = SeenMove(Postings, seen, d)
     /\ IF ChildEnded(inner)
        THEN /\ cursor' = [cursor EXCEPT !.inner = inner, !.current = Unscored]
             /\ reply' = Ended
        ELSE /\ cursor' = [inner |-> inner, current |-> Unscored,
                           cached |-> ScoredBlock(InnerBlock(inner))]
             /\ \E bound \in ChildBounds(inner) : reply' = Bound(bound, cursor'.cached)
     /\ UNCHANGED source

\* Scored once, and kept until the next move.
Current ==
  /\ reply \notin {Start, Ended}
  /\ LET inner == ChildRead(cursor.inner)
         raw == ChildPosting(cursor.inner)
     IN cursor' = IF cursor.current # Unscored THEN cursor
                  ELSE [cursor EXCEPT !.inner = inner,
                          !.current = Posting(raw.doc, Score(raw.value, raw.doc), <<>>)]
  /\ seen' = SeenRead(Postings, seen, cursor'.current.doc)
  /\ reply' = Found(cursor'.current, cursor'.cached)
  /\ UNCHANGED source

Next == (\E d \in 0 .. NoLimit : NextMinDocId(d)) \/ Current

Spec == Init /\ [][Next]_vars
=============================================================================
