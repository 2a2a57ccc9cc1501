----------------------------- MODULE MCIndexer -----------------------------
(***************************************************************************)
(* Small instances of Indexer: every document over two terms.              *)
(***************************************************************************)
EXTENDS Indexer

\* Each term occurs once, or not at all.
FlatDocuments == [Terms -> {0, 1}]

\* Impacts differ, so that bounds and page contents can be told apart.
WeightedDocuments == {[t \in Terms |-> IF t = 0 THEN 1 ELSE 2],
                      [t \in Terms |-> IF t = 0 THEN 2 ELSE 0]}
=============================================================================
