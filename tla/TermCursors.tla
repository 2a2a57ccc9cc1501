---------------------------- MODULE TermCursors ----------------------------
(***************************************************************************)
(* The cursors the search algorithms read (src/src/search/cursor.rs).      *)
(*                                                                         *)
(* A posting list maps a document id to what the term adds to the score of *)
(* that document, its impact times the weight of the term in the query.    *)
(* The list is cut into blocks of BlockSize postings.  A cursor is the     *)
(* document it is at; the bounds it gives, of the list and of the block it *)
(* is in, may exceed the true ones by Slack (quantised and split indexes   *)
(* have looser bounds than the postings they hold).                        *)
(***************************************************************************)
EXTENDS TopScores

CONSTANTS
  BlockSize, Slack, WordBits,
  Searches    \* what may be asked: lists, filter and what it accepts, number of results and
              \* initial threshold

ASSUME CursorAssumption == {BlockSize, WordBits} \subseteq Nat \ {0} /\ Slack \in Nat

\* A posting list holds some documents, and none of its values is below zero.
IsList(list) ==
  /\ IsFiniteSet(DOMAIN list) /\ DOMAIN list # {} /\ DOMAIN list \subseteq Nat
  /\ \A d \in DOMAIN list : list[d] \in Nat

AreLists(lists) == IsFiniteSet(DOMAIN lists) /\ \A c \in DOMAIN lists : IsList(lists[c])

Values(list, docs) == {list[d] : d \in docs}

\* The documents of the block that holds d.
Block(list, d) ==
  LET number(e) == Cardinality({f \in DOMAIN list : f < e}) \div BlockSize
  IN {e \in DOMAIN list : number(e) = number(d)}

MaxBlockDocId(list, d) == Max(Block(list, d))

MaxBlockValue(list, d) == Max(Values(list, Block(list, d))) + Slack

MaxValue(list) == Max(Values(list, DOMAIN list)) + Slack

\* The bounds of the lists, and those of the blocks cursors are in.
Bounds(lists) == [c \in DOMAIN lists |-> MaxValue(lists[c])]
BlockBounds(lists, at) == [c \in DOMAIN lists |-> MaxBlockValue(lists[c], at[c])]

\* next_min_doc_id from d: a move to the first later document that is at
\* least least; there is none when the cursor is exhausted.
Onward(list, d, least) == {e \in DOMAIN list : e > d /\ e >= least}

(***************************************************************************)
(* The score of a document: what the terms that hold it add up to.  The    *)
(* documents some term holds are the only ones that have a score.          *)
(***************************************************************************)
Holders(lists, d) == {c \in DOMAIN lists : d \in DOMAIN lists[c]}

ValuesAt(lists, d) == [c \in Holders(lists, d) |-> lists[c][d]]

Score(lists, d) == SumOver(ValuesAt(lists, d), Holders(lists, d))

\* How many postings the lists hold, and how many the cursors have left.
Lengths(lists) == [c \in DOMAIN lists |-> Cardinality(DOMAIN lists[c])]
ToRead(lists, at) ==
  [c \in DOMAIN lists |-> Cardinality(Onward(lists[c], at[c] - 1, 0))]

Matching(lists) == UNION {DOMAIN lists[c] : c \in DOMAIN lists}

(***************************************************************************)
(* DocBitSet: a sequence of words, each the set of its bits.  Documents    *)
(* after the last word are not in the set.                                 *)
(***************************************************************************)
position(d) == [word |-> d \div WordBits + 1, bit |-> d % WordBits]

contains(words, d) ==
  LET p == position(d) IN p.word \in DOMAIN words /\ p.bit \in words[p.word]

insert(words, d) ==
  LET p == position(d)
      resized == words \o [w \in 1 .. p.word - Len(words) |-> {}]
  IN [resized EXCEPT ![p.word] = @ \cup {p.bit}]

remove(words, d) ==
  LET p == position(d)
  IN IF p.word \in DOMAIN words THEN [words EXCEPT ![p.word] = @ \ {p.bit}] ELSE words

from_iter(docids) == FoldLeft(insert, <<>>, docids)

\* mask[i] is about document i - 1.
from_mask(mask) ==
  [w \in 1 .. (Len(mask) + WordBits - 1) \div WordBits |->
     {b \in 0 .. WordBits - 1 :
        LET i == (w - 1) * WordBits + b + 1 IN i \in DOMAIN mask /\ mask[i]}]

(***************************************************************************)
(* DocSetFilter: the documents deleted and those allowed, one bit set or   *)
(* none for each (none of the two is NoFilter).  map gives the original id *)
(* of each document of a reordered index, if it is one: callers mean those. *)
(***************************************************************************)
NoFilter == [deleted |-> {}, allowed |-> {}, map |-> {}]

Original(filter, d) ==
  IF filter.map = {} THEN d ELSE (CHOOSE map \in filter.map : TRUE)[d]

\* accept, of a document by the id the caller knows.
Allows(filter, id) ==
  /\ \A words \in filter.deleted : ~contains(words, id)
  /\ \A words \in filter.allowed : contains(words, id)

\* Mutant of Accept: the ids of the index are looked up.
AcceptInternal(filter, d) == Allows(filter, d)

Accept(filter, d) == Allows(filter, Original(filter, d))

\* The caller set the bits of the documents it accepts, and no two documents of
\* the index have the same original id.
IsFilter(filter, accepted, docs) ==
  /\ \A d \in docs : Allows(filter, Original(filter, d)) <=> Original(filter, d) \in accepted
  /\ \A d, e \in docs : Original(filter, d) = Original(filter, e) => d = e

ASSUME SearchAssumption ==
  \A search \in Searches :
    /\ search.topK \in Nat \ {0} /\ search.minScore \in Nat
    /\ AreLists(search.lists)
    /\ IsFilter(search.filter, search.accepted, Matching(search.lists))

\* The documents in the index that may be returned, of those the caller accepts.
Eligible(lists, filter, accepted) ==
  {d \in Matching(lists) : Original(filter, d) \in accepted}

\* Their scores, under the ids the caller knows.
ScoresOf(lists, filter, accepted) ==
  LET eligible == Eligible(lists, filter, accepted) IN
  [id \in {Original(filter, d) : d \in eligible} |->
     Score(lists, CHOOSE d \in eligible : Original(filter, d) = id)]

\* remap_to_original_ids
Remapped(filter, hits) ==
  [i \in DOMAIN hits |-> [hits[i] EXCEPT !.docid = Original(filter, @)]]
=============================================================================
