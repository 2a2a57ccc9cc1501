--------------------------- MODULE SearchContract ---------------------------
(***************************************************************************)
(* What every search of this library promises its caller                   *)
(* (src/src/search/mod.rs, and the doc comments of search_maxscore,        *)
(* search_wand and SegmentedSearch::search): it answers once, with the k   *)
(* best documents.  Nothing of cursors, blocks, bounds and pruning shows.  *)
(***************************************************************************)
EXTENDS TopScores

VARIABLES
  scores,    \* the score of each document that may be returned
  topK,      \* how many are wanted
  minScore,  \* documents scoring at most this much are of no interest
  answered,
  answer

vars == <<scores, topK, minScore, answered, answer>>

Init == answered = FALSE /\ answer = <<>>

Answer ==
  /\ ~answered
  /\ answered' = TRUE
  /\ IsAnswer(answer', scores, topK, minScore)
  /\ UNCHANGED <<scores, topK, minScore>>

Spec == Init /\ [][Answer]_vars
=============================================================================
