----------------------------- MODULE MCCursors -----------------------------
(***************************************************************************)
(* Small instances of every cursor of the library, one behaviour for each: *)
(* kind says which, and all are checked against the one contract.          *)
(***************************************************************************)
EXTENDS PostingList, Scorer

CONSTANTS LeafDocs,      \* the documents of the lists of blocks
          OperatorDocs   \* those of the lists under an operator

\* Short and long documents take turns.
Lens == [d \in LeafDocs |-> 1 + ((d * 3) % 4)]

VARIABLES
  kind,                          \* which cursor
  given,                         \* what it was made of
  cursor, seen, reply,
  whole, term                    \* the postings it stands for, and their bounds

cursorVars == <<kind, given, cursor, seen, reply, whole, term>>

Forward == INSTANCE ForwardCursor WITH source <- given
Compressed == INSTANCE CompressedCursor WITH source <- given
Scoring == INSTANCE ScoringCursor WITH source <- given
Scored == INSTANCE ScoredCursor WITH source <- given
Split == INSTANCE SplitCursor WITH source <- given
Operator == INSTANCE OperatorCursors WITH source <- given

(***************************************************************************)
(* Lists: some documents, each with a value and as many positions.         *)
(***************************************************************************)
RunOf(d, v) == [i \in 1 .. v |-> (d % 2) + 2 * i - 1]
ValueOf(d) == 1 + ((2 * d) % 3)

ListOf(docs, value(_)) ==
  LET ordered == InOrder(docs)
  IN [i \in DOMAIN ordered |->
        Posting(ordered[i], value(ordered[i]), RunOf(ordered[i], value(ordered[i])))]

Lists(docs) == {ListOf(some, ValueOf) : some \in SUBSET docs}

Readers == {"search", "stream", "positions"}

ForwardSources ==
  {[pages |-> Cut(list, size), caller |-> caller] :
     list \in Lists(LeafDocs), size \in {2, 5}, caller \in Readers}

CompressedSources ==
  {[blocks |-> Cut(list, size), caller |-> caller] :
     list \in Lists(LeafDocs), size \in {2, 5}, caller \in Readers}

(***************************************************************************)
(* With lengths: that of the shortest document of a block or of a term, 0  *)
(* when the lengths were not known as the index was compressed.            *)
(***************************************************************************)
Shortest(list, known) ==
  IF known /\ list # <<>> THEN Min({DocLengths[list[i].doc] : i \in DOMAIN list}) ELSE 0

ScoredSources ==
  {[list |-> list, blocks |-> Cut(list, size),
    minDl |-> [k \in DOMAIN Cut(list, size) |-> Shortest(Cut(list, size)[k], known)],
    termMinDl |-> Shortest(list, known), postings |-> Scored!ScoredList(list)] :
     list \in Lists(LeafDocs), size \in {2, 5}, known \in BOOLEAN}

(***************************************************************************)
(* The splits of a list at two quantiles, for each of the cursors a search *)
(* gets and for the one over all of them.                                  *)
(***************************************************************************)
SplitSource(lists, ceiling, floor) ==
  [lists |-> lists, ceiling |-> ceiling, floor |-> floor,
   postings |-> Split!Merged(lists, ceiling, floor)]

SplitSources ==
  LET all == {Split!SplitLists(list, <<3, 7>>) : list \in Lists(OperatorDocs)}
  IN {SplitSource(SubSeq(lists, i, 3), Split!Ceiling(lists, i), Split!Ceiling(lists, i - 1)) :
        lists \in all, i \in 1 .. 3}
     \cup {SplitSource(lists, Split!WholeCeiling(lists), 0) : lists \in all}

\* The splits of a list are what the proofs about the merged cursor start from.
ASSUME SplitsAssumption == \A s \in SplitSources : Split!IsSource(s)

(***************************************************************************)
(* Operators over two or three lists.                                      *)
(***************************************************************************)
OperatorLists ==
  LET some(n) == {docs \in SUBSET OperatorDocs : Cardinality(docs) \in n}
  IN {<<ListOf(a, ValueOf), ListOf(b, LAMBDA d : 2)>> : a, b \in some(2 .. 4)}
       \cup {<<ListOf(a, ValueOf), ListOf(OperatorDocs, LAMBDA d : 2), ListOf(b, LAMBDA d : 1 + (d % 2))>> :
               a \in some({2}), b \in some({1, 2})}

OperatorSource(operator, lists) ==
  LET q == [kind |-> operator, lists |-> lists, weights |-> [i \in DOMAIN lists |-> i], width |-> 3]
  IN q @@ [postings |-> Operator!StandsFor(q)]

OperatorSources ==
  {OperatorSource(operator, lists) :
     operator \in {"sum", "and", "one", "phrase", "window"}, lists \in OperatorLists}

(***************************************************************************)
(* What the cursor of each kind stands for.                                *)
(***************************************************************************)
Postings ==
  CASE kind = "forward" -> Forward!Postings
    [] kind = "compressed" -> Compressed!Postings
    [] kind = "scoring" -> Scoring!ScoredPostings
    [] kind = "scored" -> Scored!Postings
    [] kind = "split" -> Split!Postings
    [] OTHER -> Operator!Postings

Term ==
  CASE kind = "forward" -> Forward!Term
    [] kind = "compressed" -> Compressed!Term
    [] kind = "scoring" -> Scoring!ScoringTerm
    [] kind = "scored" -> Scored!Term
    [] kind = "split" -> Split!Term
    [] OTHER -> Operator!Term

CursorsInit ==
  /\ \/ kind = "forward" /\ given \in ForwardSources /\ Forward!Init
     \/ kind = "compressed" /\ given \in CompressedSources /\ Compressed!Init
     \/ kind = "scoring" /\ given \in ScoredSources /\ Scoring!ScoringInit
     \/ kind = "scored" /\ given \in ScoredSources /\ Scored!Init
     \/ kind = "split" /\ given \in SplitSources /\ Split!Init
     \/ kind = "operator" /\ given \in OperatorSources /\ Operator!Init
  /\ whole = Postings /\ term = Term

CursorsNext ==
  /\ \/ kind = "forward" /\ Forward!Next
     \/ kind = "compressed" /\ Compressed!Next
     \/ kind = "scoring" /\ Scoring!ScoringNext
     \/ kind = "scored" /\ Scored!Next
     \/ kind = "split" /\ Split!Next
     \/ kind = "operator" /\ Operator!Next
  /\ UNCHANGED <<kind, whole, term>>

(***************************************************************************)
(* What a cursor stands for is settled when it is made, and the contract is *)
(* stated of that.                                                         *)
(***************************************************************************)
Contract == INSTANCE PostingCursor WITH list <- whole

(***************************************************************************)
(* Every cursor keeps the contract: a move and a read lead to the first    *)
(* posting asked for, with its value and positions, moves and reads in any *)
(* order lose none, and the bounds of blocks and of the list hold.         *)
(***************************************************************************)
ImplementsContract == Contract!Spec

\* The heap of a merged cursor holds no posting behind the target.
HeapIsCurrent == kind = "split" => Split!HeapIsCurrent
=============================================================================
