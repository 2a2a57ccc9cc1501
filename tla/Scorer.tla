------------------------------- MODULE Scorer -------------------------------
(***************************************************************************)
(* BM25 (src/src/scoring/bm25.rs) in integers: how a term frequency and a  *)
(* document length make a score, and the bounds of a score the searches    *)
(* prune with.  The norm of a document is kept in half precision, which is *)
(* rounding to the nearest multiple of Grain.                              *)
(***************************************************************************)
EXTENDS Integers, FiniteSetsExt

CONSTANTS
  DocLengths,     \* the length of each document
  NormBase,       \* k1 (1 - b)
  NormSlope,      \* k1 b / avgdl
  Idf,            \* the weight of the term, in units of a score
  Grain,          \* what separates two norms in half precision
  ScoreChunkSize  \* how many postings a compressed index scores at a time

ASSUME ScorerAssumption ==
  /\ DocLengths \in [DOMAIN DocLengths -> Nat]
  /\ {NormBase, NormSlope, Idf} \subseteq Nat /\ {Grain, ScoreChunkSize} \subseteq Nat \ {0}

Lengths == {DocLengths[d] : d \in DOMAIN DocLengths}

\* initialize: the norm of a length, and as it is stored for each document.
RawNorm(dl) == NormBase + NormSlope * dl
HalfPrecision(norm) == Grain * ((norm + Grain \div 2) \div Grain)
DocNorm(d) == HalfPrecision(RawNorm(DocLengths[d]))

Saturate(tf, norm) == IF tf = 0 THEN 0 ELSE (Idf * tf) \div (norm + tf)

Score(tf, d) == Saturate(tf, DocNorm(d))

\* The bound without a minimum length: that of the shortest document.
MaxScore(tf) == Saturate(tf, RawNorm(Min(Lengths)))

(***************************************************************************)
(* The bound of postings of documents of length dl and more; 0 says that   *)
(* the length is not known.  A norm may have been rounded down.            *)
(***************************************************************************)
MaxScoreWithDl(tf, dl) ==
  IF dl = 0 THEN MaxScore(tf)
  ELSE Saturate(tf, Min({RawNorm(dl), HalfPrecision(RawNorm(dl))}))

\* score_chunk: the scores of the postings of a block, given as offsets.
ScoreChunk(first, offsets, values) ==
  [i \in DOMAIN offsets |-> Score(values[i], first + offsets[i])]
=============================================================================
