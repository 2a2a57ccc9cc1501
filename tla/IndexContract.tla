--------------------------- MODULE IndexContract ---------------------------
(***************************************************************************)
(* What an index build promises (src/src/builder.rs, module comment and    *)
(* Indexer::build): a reader sees nothing until the build ends, and then,  *)
(* once and for all, exactly the postings of the collection.  Nothing of   *)
(* pages, buffers, checkpoints or crashes shows.                           *)
(***************************************************************************)
EXTENDS Integers, Sequences

CONSTANTS Terms, Documents

VARIABLES
  source,     \* the documents of the collection, in the order of their ids
  published   \* the indexes a reader was given: none, or the one built

vars == <<source, published>>

\* The postings of the collection, term by term.
Postings ==
  [t \in Terms |->
     {[doc |-> d, val |-> source[d + 1][t]] :
        d \in {e \in 0 .. Len(source) - 1 : source[e + 1][t] > 0}}]

Init == source = <<>> /\ published = <<>>

\* The caller decides on one more document.
Collect ==
  /\ published = <<>>
  /\ \E d \in Documents : source' = Append(source, d)
  /\ UNCHANGED published

\* The build ends.
Publish ==
  /\ published = <<>>
  /\ published' = <<Postings>>
  /\ UNCHANGED source

Next == Collect \/ Publish

Spec == Init /\ [][Next]_vars
=============================================================================
