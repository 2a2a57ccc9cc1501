--------------------------- MODULE ScoringCursor ---------------------------
(***************************************************************************)
(* CompressedScoringCursor (src/src/compress/mod.rs): the cursor of a      *)
(* compressed index that scores a chunk of postings at a time, from the    *)
(* one it is at, and keeps the scores as long as it stays in the block.    *)
(***************************************************************************)
EXTENDS CompressedCursor, Scorer

\* What the cursor stands for: the postings with their scores.
ScoredPostings == source.postings

(***************************************************************************)
(* chunk holds the scores of the postings of the block from chunkStart on. *)
(***************************************************************************)
ScoringNew ==
  [iterator |-> New, at |-> 0, chunk |-> <<>>, chunkStart |-> 0]

ScoringInit == cursor = ScoringNew /\ seen = Unseen /\ reply = Start

\* The bounds of a block, scored for the shortest document in it.
ScoredBounds(k) ==
  Block(First(k), MaxDocId(blocks[k]),
        MaxScoreWithDl(MaxValue(blocks[k]), source.minDl[k]))

FillChunk(c, start) ==
  LET it == c.iterator
      end == Min({start + ScoreChunkSize - 1, Len(it.docids)})
  IN [c EXCEPT !.chunk = ScoreChunk(First(it.block), SubSeq(it.docids, start, end),
                                    SubSeq(it.impacts, start, end)),
               !.chunkStart = start]

(***************************************************************************)
(* A move into a block that starts elsewhere makes the chunk stale.        *)
(***************************************************************************)
ScoringNextMinDocId(d) ==
  LET it == cursor.iterator
      least == Least(it, d)
      moved == MoveIterator([it EXCEPT !.least = least], least)
  IN /\ seen' = SeenMove(ScoredPostings, seen, d)
     /\ IF Over(moved)
        THEN cursor' = [cursor EXCEPT !.iterator = moved] /\ reply' = Ended
        ELSE LET cached == ScoredBounds(moved.block)
                 same == ~Over(it) /\ cached.first = it.cached.first
             IN /\ cursor' = [cursor EXCEPT !.iterator = [moved EXCEPT !.cached = cached],
                                            !.chunk = IF same THEN @ ELSE <<>>]
                /\ reply' = Bound(cached.first, cached)
     /\ UNCHANGED source

Covered(c, pos) ==
  c.chunk # <<>> /\ pos \in c.chunkStart .. c.chunkStart + Len(c.chunk) - 1

ScoringResolved(c) ==
  IF ~Stale(c.iterator) THEN c
  ELSE LET it == Resolved(c.iterator)
           at == [c EXCEPT !.iterator = it, !.at = it.index - 1]
       IN IF Covered(c, at.at) THEN at ELSE FillChunk(at, at.at)

ScoringCurrent ==
  /\ reply # Ended /\ ~Over(cursor.iterator)
  /\ IF Stale(cursor.iterator) /\ Position(cursor.iterator) = 0
     THEN reply' = Panicked /\ UNCHANGED <<cursor, seen>>
     ELSE /\ cursor' = ScoringResolved(cursor)
          /\ seen' = SeenRead(ScoredPostings, seen, cursor'.iterator.current)
          /\ reply' = Found(Posting(cursor'.iterator.current,
                                    cursor'.chunk[cursor'.at - cursor'.chunkStart + 1], <<>>),
                            cursor'.iterator.cached)
  /\ UNCHANGED source

ScoringNext == (\E d \in 0 .. NoLimit : ScoringNextMinDocId(d)) \/ ScoringCurrent

ScoringSpec == ScoringInit /\ [][ScoringNext]_vars

\* new: the bound of the term, for the shortest document of its postings.
ScoringTerm ==
  [most |-> MaxScoreWithDl(MaxValue(Postings), source.termMinDl),
   last |-> MaxDocId(Postings), length |-> Len(Postings)]
=============================================================================
