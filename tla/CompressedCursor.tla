-------------------------- MODULE CompressedCursor --------------------------
(***************************************************************************)
(* The iterators of the compressed index (src/src/compress/mod.rs): a      *)
(* block is decoded as a whole into offsets from its first document and    *)
(* values, and the bounds of the block are copied at each move.            *)
(***************************************************************************)
EXTENDS PostingList

VARIABLES source,   \* blocks: the postings of each block; minDl: its shortest document
          cursor, seen, reply

vars == <<source, cursor, seen, reply>>

blocks == source.blocks
Postings == FlattenSeq(blocks)
Over(c) == c.block > Len(blocks)

First(k) == MinDocId(blocks[k])

\* The streams of positions: the first position of a posting, then differences.
Deltas(run) ==
  [i \in DOMAIN run |-> IF i = 1 THEN run[i] ELSE run[i] - run[i - 1]]

PositionsOf(k) == FlattenSeq([i \in DOMAIN blocks[k] |-> Deltas(blocks[k][i].run)])

(***************************************************************************)
(* block, index, docids, impacts and positions are those of                *)
(* CompressedIndexIterator; cached is the copy of the bounds of the block. *)
(***************************************************************************)
New == [block |-> 1, index |-> 1, loaded |-> FALSE, docids |-> <<>>, impacts |-> <<>>,
        runs |-> <<>>, positionsLoaded |-> FALSE,
        least |-> 0, current |-> -1, value |-> 0, cached |-> Block(0, 0, 0)]

Init == cursor = New /\ seen = Unseen /\ reply = Start

\* Mutant of NextBlock: the positions of the block before are kept.
NextBlockKeepingRuns(c) ==
  [c EXCEPT !.block = c.block + 1, !.index = 1, !.loaded = FALSE,
            !.docids = <<>>, !.impacts = <<>>]

NextBlock(c) ==
  [c EXCEPT !.block = c.block + 1, !.index = 1, !.loaded = FALSE,
            !.docids = <<>>, !.impacts = <<>>, !.positionsLoaded = FALSE]

MoveIterator(c, least) ==
  LET skip[k \in c.block .. Len(blocks) + 1] ==
        IF k > Len(blocks) THEN k
        ELSE IF MaxDocId(blocks[k]) >= least THEN k ELSE skip[k + 1]
      k == skip[c.block]
  IN IF k = c.block THEN c ELSE [NextBlock(c) EXCEPT !.block = k]

DecodeBlock(c) ==
  LET block == blocks[c.block]
  IN [c EXCEPT !.docids = [i \in DOMAIN block |-> block[i].doc - First(c.block)],
               !.impacts = [i \in DOMAIN block |-> block[i].value],
               !.index = 1, !.loaded = TRUE]

EnsureBlockLoaded(c) == IF c.loaded \/ Over(c) THEN c ELSE DecodeBlock(c)

(***************************************************************************)
(* The first offset at or after least from a position on: the probes       *)
(* bracket it, partition_point counts the smaller ones in between.         *)
(***************************************************************************)
GallopGeq(c, least) ==
  LET docids == c.docids
      start == c.index
      probe[bound \in 1 .. 2 * Len(docids)] ==
        LET next == start + bound
        IN IF next <= Len(docids) /\ docids[next] < least
           THEN probe[2 * bound]
           ELSE <<IF bound = 1 THEN start ELSE start + bound \div 2,
                  Min({next, Len(docids) + 1})>>
      between == probe[1][1] + 1 .. probe[1][2] - 1
      found == probe[1][1] + 1 + Cardinality({i \in between : docids[i] < least})
  IN IF start > Len(docids) THEN 0
     ELSE IF docids[start] >= least THEN start
     ELSE IF found <= Len(docids) THEN found ELSE 0

(***************************************************************************)
(* next_min_doc_id picks the block and copies its bounds.  It answers the  *)
(* first document of the block.                                            *)
(***************************************************************************)
Least(c, d) == Max({d, c.current + 1})

BlockBounds(k) == Block(First(k), MaxDocId(blocks[k]), MaxValue(blocks[k]))

Moved(c, d) ==
  LET moved == MoveIterator([c EXCEPT !.least = Least(c, d)], Least(c, d))
  IN IF Over(moved) THEN moved ELSE [moved EXCEPT !.cached = BlockBounds(moved.block)]

NextMinDocId(d) ==
  /\ cursor' = Moved(cursor, d)
  /\ seen' = SeenMove(Postings, seen, d)
  /\ reply' = IF Over(cursor') THEN Ended ELSE Bound(cursor'.cached.first, cursor'.cached)
  /\ UNCHANGED source

Stale(c) == c.current = -1 \/ c.current < c.least

\* Where the posting asked for is in the block, once that is decoded.
Position(c) ==
  LET offset == IF c.least > First(c.block) THEN c.least - First(c.block) ELSE 0
  IN GallopGeq(EnsureBlockLoaded(c), offset)

Resolved(c) ==
  IF ~Stale(c) THEN c
  ELSE LET pos == Position(c)
           decoded == EnsureBlockLoaded(c)
       IN [decoded EXCEPT !.index = pos + 1,
                          !.current = First(c.block) + decoded.docids[pos],
                          !.value = decoded.impacts[pos]]

Readable == reply # Ended /\ ~Over(cursor)

Current ==
  /\ Readable
  /\ IF Stale(cursor) /\ Position(cursor) = 0
     THEN reply' = Panicked /\ UNCHANGED <<cursor, seen>>
     ELSE /\ cursor' = Resolved(cursor)
          /\ seen' = SeenRead(Postings, seen, cursor'.current)
          /\ reply' = Found(Posting(cursor'.current, cursor'.value, <<>>), cursor'.cached)
  /\ UNCHANGED source

(***************************************************************************)
(* ensure_positions_loaded: the runs of the block, cut out of its stream   *)
(* by the decoded values, and the differences summed up.                   *)
(***************************************************************************)
EnsurePositionsLoaded(c) ==
  LET before(i) == FoldLeft(+, 0, SubSeq(c.impacts, 1, i - 1))
      cut(i) == SubSeq(PositionsOf(c.block), before(i) + 1, before(i) + c.impacts[i])
  IN IF c.positionsLoaded THEN c
     ELSE [c EXCEPT !.positionsLoaded = TRUE,
                    !.runs = [i \in DOMAIN c.impacts |->
                                [j \in 1 .. c.impacts[i] |->
                                   FoldLeft(+, 0, SubSeq(cut(i), 1, j))]]]

WithRuns(c) == EnsurePositionsLoaded(EnsureBlockLoaded(Resolved(c)))
Run(c) == Places(c.runs[c.index - 1])

Positions ==
  /\ Readable
  /\ ~(Stale(cursor) /\ Position(cursor) = 0)
  /\ cursor' = WithRuns(cursor)
  /\ seen' = SeenRead(Postings, seen, cursor'.current)
  /\ reply' = Run(cursor')
  /\ UNCHANGED source

\* positions_iterator: the runs of all postings, one move and one read each.
NextPositions ==
  /\ LET moved == Moved(cursor, 0)
     IN IF Over(moved)
        THEN cursor' = moved /\ reply' = Ended /\ UNCHANGED seen
        ELSE /\ cursor' = WithRuns(moved)
             /\ seen' = [seen EXCEPT !.at = seen.at + 1]
             /\ reply' = Run(cursor')
  /\ UNCHANGED source

\* Iterator::next of CompressedIndexIterator.
RawNext ==
  /\ LET c == IF cursor.loaded /\ cursor.index > Len(cursor.docids)
              THEN NextBlock(cursor) ELSE cursor
         loaded == EnsureBlockLoaded(c)
     IN IF Over(c)
        THEN cursor' = c /\ reply' = Ended /\ UNCHANGED seen
        ELSE /\ cursor' = [loaded EXCEPT !.index = loaded.index + 1]
             /\ seen' = [seen EXCEPT !.at = seen.at + 1]
             /\ reply' = Found(Posting(First(c.block) + loaded.docids[loaded.index],
                                       loaded.impacts[loaded.index], <<>>),
                               BlockBounds(c.block))
  /\ UNCHANGED source

Next ==
  \/ source.caller = "search" /\ (\/ \E d \in 0 .. NoLimit : NextMinDocId(d)
                                  \/ Current
                                  \/ Positions)
  \/ source.caller = "stream" /\ RawNext
  \/ source.caller = "positions" /\ NextPositions

Spec == Init /\ [][Next]_vars

Term == [most |-> MaxValue(Postings), last |-> MaxDocId(Postings), length |-> Len(Postings)]
=============================================================================
