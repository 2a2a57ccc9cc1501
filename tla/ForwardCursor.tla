--------------------------- MODULE ForwardCursor ---------------------------
(***************************************************************************)
(* The iterators of the forward index (src/src/builder.rs): a cursor whose *)
(* moves skip pages only, and which finds the posting in the page when it  *)
(* is read.                                                                *)
(***************************************************************************)
EXTENDS PostingList

VARIABLES source,   \* pages: the postings of each page of the term
          cursor, seen, reply

vars == <<source, cursor, seen, reply>>

pages == source.pages
Postings == FlattenSeq(pages)
Over(c) == c.page > Len(pages)

(***************************************************************************)
(* gallop_geq: the first document at or after a target in the sorted       *)
(* documents of a page, from a position on: probes at distances 1, 2, 4,   *)
(* ... bracket it, a binary search finds it.  0 stands for None.           *)
(***************************************************************************)
\* The last probe below least, and the first that is not, or is out of docs.
Bracket(docs, start, least) ==
  LET probe[bound \in 1 .. 2 * Len(docs)] ==
        LET next == start + bound
        IN IF next <= Len(docs) /\ docs[next] < least
           THEN probe[2 * bound]
           ELSE <<IF bound = 1 THEN start ELSE start + bound \div 2, next>>
  IN probe[1]

\* The binary search of the positions from left up to but without right.
Bisect(docs, least, left, right) ==
  LET find[l \in left .. right, r \in left .. right] ==
        IF l >= r THEN l
        ELSE LET mid == l + (r - l) \div 2
             IN IF docs[mid] < least THEN find[mid + 1, r] ELSE find[l, mid]
  IN find[left, right]

GallopGeq(docs, start, least) ==
  IF start > Len(docs) THEN 0
  ELSE IF docs[start] >= least THEN start
  ELSE LET bracket == Bracket(docs, start, least)
           hi == IF bracket[2] <= Len(docs) THEN bracket[2] ELSE Len(docs) + 1
           found == Bisect(docs, least, bracket[1] + 1, hi)
       IN IF found <= Len(docs) THEN found ELSE 0

(***************************************************************************)
(* positions.dat: the positions of each posting, the first one and then    *)
(* the differences, page after page.                                       *)
(***************************************************************************)
Deltas(run) ==
  [i \in DOMAIN run |-> IF i = 1 THEN run[i] ELSE run[i] - run[i - 1]]

PositionsOf(page) == FlattenSeq([i \in DOMAIN page |-> Deltas(page[i].run)])
PositionsFile == FlattenSeq([k \in DOMAIN pages |-> PositionsOf(pages[k])])
PositionsPosition(k) ==
  Len(FlattenSeq([j \in 1 .. k - 1 |-> PositionsOf(pages[j])]))

(***************************************************************************)
(* page and index are those of SparseBuilderIndexIterator, the others of   *)
(* the block iterator around it; the runs decoded last go with the         *)
(* position of the page they were read for.                                *)
(***************************************************************************)
NoPosting == Posting(-1, 0, <<>>)

New == [page |-> 1, loaded |-> FALSE, index |-> 1, least |-> 0,
        current |-> NoPosting, decoded |-> -1, runs |-> <<>>]

Init == cursor = New /\ seen = Unseen /\ reply = Start

NextBlock(c) == [c EXCEPT !.page = c.page + 1, !.loaded = FALSE, !.index = 1]

\* The first page with a document at or after least.
MoveIterator(c, least) ==
  LET skip[k \in c.page .. Len(pages) + 1] ==
        IF k > Len(pages) THEN k
        ELSE IF MaxDocId(pages[k]) >= least THEN k ELSE skip[k + 1]
      k == skip[c.page]
  IN IF k = c.page THEN c ELSE [NextBlock(c) EXCEPT !.page = k]

PageBlock(c) == Block(0, MaxDocId(pages[c.page]), MaxValue(pages[c.page]))

Moved(c, d) ==
  LET least == Max({d, c.current.doc + 1})
  IN MoveIterator([c EXCEPT !.least = least], least)

NextMinDocId(d) ==
  /\ cursor' = Moved(cursor, d)
  /\ seen' = SeenMove(Postings, seen, d)
  /\ reply' = IF Over(cursor') THEN Ended ELSE Bound(cursor'.least, PageBlock(cursor'))
  /\ UNCHANGED source

(***************************************************************************)
(* current: the posting found already, unless a move asked for more.       *)
(***************************************************************************)
Stale(c) == c.current = NoPosting \/ c.current.doc < c.least

Position(c) ==
  GallopGeq([i \in DOMAIN pages[c.page] |-> pages[c.page][i].doc], c.index, c.least)

Resolved(c) ==
  IF ~Stale(c) THEN c
  ELSE LET pos == Position(c)
       IN [c EXCEPT !.loaded = TRUE, !.index = pos + 1, !.current = pages[c.page][pos]]

Readable == reply # Ended /\ ~Over(cursor)

Current ==
  /\ Readable
  /\ IF Stale(cursor) /\ Position(cursor) = 0
     THEN reply' = Panicked /\ UNCHANGED <<cursor, seen>>
     ELSE /\ cursor' = Resolved(cursor)
          /\ seen' = SeenRead(Postings, seen, cursor'.current.doc)
          /\ reply' = Found(cursor'.current, PageBlock(cursor'))
  /\ UNCHANGED source

\* The runs of a page, cut out of positions.dat by the values of its postings.
Decode(k) ==
  LET values == [i \in DOMAIN pages[k] |-> pages[k][i].value]
      before(i) == FoldLeft(+, 0, SubSeq(values, 1, i - 1))
      cut(i) == SubSeq(PositionsFile, PositionsPosition(k) + before(i) + 1,
                       PositionsPosition(k) + before(i) + values[i])
  IN [i \in DOMAIN pages[k] |->
        [j \in 1 .. values[i] |-> FoldLeft(+, 0, SubSeq(cut(i), 1, j))]]

WithRuns(c) ==
  [c EXCEPT !.decoded = PositionsPosition(c.page),
            !.runs = IF c.decoded = PositionsPosition(c.page) THEN c.runs ELSE Decode(c.page)]

Run(c) == Places(c.runs[c.index - 1])

Positions ==
  /\ Readable
  /\ ~(Stale(cursor) /\ Position(cursor) = 0)
  /\ cursor' = WithRuns(Resolved(cursor))
  /\ seen' = SeenRead(Postings, seen, cursor'.current.doc)
  /\ reply' = Run(cursor')
  /\ UNCHANGED source

\* positions_iterator: the runs of all postings, one move and one read each.
NextPositions ==
  /\ LET moved == Moved(cursor, 0)
     IN IF Over(moved)
        THEN cursor' = moved /\ reply' = Ended /\ UNCHANGED seen
        ELSE /\ cursor' = WithRuns(Resolved(moved))
             /\ seen' = [seen EXCEPT !.at = seen.at + 1]
             /\ reply' = Run(cursor')
  /\ UNCHANGED source

(***************************************************************************)
(* Iterator::next of the raw iterator, which only ever steps.              *)
(***************************************************************************)
RawNext ==
  /\ LET c == IF ~Over(cursor) /\ cursor.index > Len(pages[cursor.page])
              THEN NextBlock(cursor) ELSE cursor
     IN IF Over(c)
        THEN cursor' = c /\ reply' = Ended /\ UNCHANGED seen
        ELSE /\ cursor' = [c EXCEPT !.loaded = TRUE, !.index = c.index + 1]
             /\ seen' = [seen EXCEPT !.at = seen.at + 1]
             /\ reply' = Found(pages[c.page][c.index], PageBlock(c))
  /\ UNCHANGED source

Next ==
  \/ \E d \in 0 .. NoLimit : source.caller = "search" /\ NextMinDocId(d)
  \/ source.caller = "search" /\ Current
  \/ source.caller = "search" /\ Positions
  \/ source.caller = "stream" /\ RawNext
  \/ source.caller = "positions" /\ NextPositions

Spec == Init /\ [][Next]_vars

(***************************************************************************)
(* new: the statistics of the term that answer for the whole list.         *)
(***************************************************************************)
Term == [most |-> MaxValue(Postings), last |-> MaxDocId(Postings), length |-> Len(Postings)]
=============================================================================
