--------------------------- MODULE PostingCursor ---------------------------
(***************************************************************************)
(* What a cursor over a posting list promises (src/src/search/cursor.rs    *)
(* and the trait BlockTermImpactIterator of src/src/index.rs): the         *)
(* specification every cursor of the library implements.                   *)
(*                                                                         *)
(* A move may be lazy: it answers a lower bound of the documents that are  *)
(* left, and the posting is found when it is read.  Moves never go back    *)
(* behind the posting read last.  When the caller asks for a document      *)
(* before one it asked for earlier, postings between the two may or may    *)
(* not be given.                                                           *)
(***************************************************************************)
EXTENDS PostingList

VARIABLES list, term, seen, reply

vars == <<list, term, seen, reply>>

(***************************************************************************)
(* The bounds of the whole list and of a block must hold for every posting *)
(* from the i-th on that they stand for.  A cursor that was never moved    *)
(* need not know a block.                                                  *)
(***************************************************************************)
TermSound ==
  /\ \A i \in DOMAIN list : list[i].value <= term.most /\ list[i].doc <= term.last
  /\ Len(list) <= term.length

BlockSound(block, i) ==
  /\ block.first <= list[i].doc /\ list[i].doc <= block.last
  /\ \A j \in i .. Len(list) : list[j].doc <= block.last => list[j].value <= block.most

Init == TermSound /\ seen = Unseen /\ reply = Start

(***************************************************************************)
(* A move: the end when nothing is left at or after what was asked for, or *)
(* else a bound that is not above the posting it stands for.               *)
(***************************************************************************)
Move ==
  \E d \in 0 .. NoLimit :
    /\ seen' = SeenMove(list, seen, d)
    /\ LET i == FirstFrom(list, seen'.asked)
       IN IF reply = Ended \/ i = 0
          THEN reply' = Ended
          ELSE /\ reply'.is = "bound"
               /\ reply'.doc <= list[i].doc
               /\ BlockSound(reply'.block, i)
    /\ UNCHANGED <<list, term>>

(***************************************************************************)
(* The posting a read may give: the one read already when no move came     *)
(* since, or one from the last document asked for on, no later than needed. *)
(***************************************************************************)
Readable ==
  IF seen.at # 0 /\ list[seen.at].doc >= seen.least
  THEN {seen.at}
  ELSE {i \in DOMAIN list :
          /\ list[i].doc >= seen.least
          /\ \A j \in DOMAIN list : list[j].doc >= seen.asked => i <= j}

Read ==
  /\ \E i \in Readable :
       /\ seen' = [seen EXCEPT !.at = i]
       /\ reply'.is = "posting" /\ reply' = Found(list[i], reply'.block)
       /\ seen.moved => BlockSound(reply'.block, i)
  /\ UNCHANGED <<list, term>>

\* The positions of the document the cursor is at.
ReadPositions ==
  /\ \E i \in Readable :
       /\ seen' = [seen EXCEPT !.at = i]
       /\ reply' = Places(list[i].run)
  /\ UNCHANGED <<list, term>>

\* The iterators of the indexes, which do not move: one posting after the other,
\* or the positions of one after the other, then the end.
Step ==
  /\ ~seen.moved
  /\ IF seen.at < Len(list)
     THEN /\ seen' = [seen EXCEPT !.at = seen.at + 1]
          /\ \/ /\ reply'.is = "posting"
                /\ reply'.doc = list[seen'.at].doc /\ reply'.value = list[seen'.at].value
             \/ reply' = Places(list[seen'.at].run)
     ELSE reply' = Ended /\ UNCHANGED seen
  /\ UNCHANGED <<list, term>>

\* A step the caller can tell.
Next ==
  /\ reply' # reply \/ seen' # seen
  /\ Move \/ Read \/ ReadPositions \/ Step

Spec == Init /\ [][Next]_vars
=============================================================================
