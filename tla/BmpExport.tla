------------------------------ MODULE BmpExport ------------------------------
(***************************************************************************)
(* An export of an index for block-max pruning: posting lists of block     *)
(* maxima, then a forward index of blocks of documents.  The forward index *)
(* is written chunk by chunk, or built in memory document by document or   *)
(* term by term.  Offsets of documents in a block and impacts are bytes.   *)
(***************************************************************************)
EXTENDS Naturals, Sequences, SequencesExt, FiniteSets, FiniteSetsExt, TLC

CONSTANTS
  ScoreLevels,  \* values of a quantised impact
  Superblock,   \* block maxima compressed together
  Ranks, MaxK,  \* the ranks whose scores are kept, and how many scores for it
  MaxTerms,     \* the terms a file has numbers for
  Exports       \* what is exported and how

VARIABLES
  source,       \* [lists, docs, bsize, compress, way, chunk]
  builders,     \* what is known of the lists that have postings
  forward,      \* the forward index under construction
  file,         \* what the file holds
  stage

vars == <<source, builders, forward, file, stage>>

Terms == DOMAIN source.lists
NumBlocks == (source.docs + source.bsize - 1) \div source.bsize
Nothing == <<>>

-----------------------------------------------------------------------------
(***************************************************************************)
(* Pass 1: the posting lists.                                              *)
(***************************************************************************)
\* An index knows the largest impact of a term, 0 is the least.
value_range(list) == <<0, Max({0} \cup {list[i].value : i \in DOMAIN list})>>

compute_value_range ==
  <<Min({value_range(source.lists[t])[1] : t \in Terms}),
    Max({value_range(source.lists[t])[2] : t \in Terms})>>

\* Without a range the step is not a number, which is 0 as an integer.
quantize(value) ==
  LET range == compute_value_range
  IN IF range[1] = range[2] THEN 0
     ELSE Min({ScoreLevels - 1, ((value - range[1]) * ScoreLevels) \div (range[2] - range[1])})

NewBuilder == [maxes |-> [b \in 1 .. NumBlocks |-> 0], top |-> <<>>]

\* Mutant of push: a full heap keeps what it has.
PushUntilFull(top, score) == IF Len(top) < MaxK THEN Append(top, score) ELSE top

\* A full heap gives up its least score for a larger one.
push(top, score) ==
  IF Len(top) < MaxK THEN Append(top, score)
  ELSE LET least == Min(ToSet(top))
       IN IF score > least THEN Append(Remove(top, least), score) ELSE top

add_posting(builder, posting) ==
  LET score == quantize(posting.value)
  IN [maxes |-> [builder.maxes EXCEPT ![posting.doc \div source.bsize + 1] = Max({@, score})],
      top |-> push(builder.top, score)]

get_kth_scores(top) ==
  LET sorted == SortSeq(top, LAMBDA a, b : a > b)
  IN [r \in DOMAIN Ranks |-> IF Ranks[r] <= Len(sorted) THEN sorted[Ranks[r]] ELSE 0]

\* The maxima of each superblock that are not 0, with their place in it.
compress(maxes) ==
  [s \in 1 .. (Len(maxes) + Superblock - 1) \div Superblock |->
     LET start == (s - 1) * Superblock
         block == SubSeq(maxes, start + 1, Min({start + Superblock, Len(maxes)}))
     IN SelectSeq([i \in DOMAIN block |-> <<i - 1, block[i]>>], LAMBDA entry : entry[2] > 0)]

\* A term without postings has the blocks of any other.
build(builder) ==
  LET built == IF builder = Nothing THEN NewBuilder ELSE builder
  IN [blocks |-> IF source.compress THEN compress(built.maxes) ELSE built.maxes,
      kth |-> get_kth_scores(built.top)]

-----------------------------------------------------------------------------
(***************************************************************************)
(* Pass 2: the forward index, a list of terms and their documents for each *)
(* block.                                                                  *)
(***************************************************************************)
NoTerms == [t \in Terms |-> <<>>]

\* The terms a block has, by their number.
SortedBlock(block) ==
  SelectSeq([t \in Terms |-> <<t, block[t]>>], LAMBDA entry : entry[2] # <<>>)

Entry(posting) == <<posting.doc % source.bsize, quantize(posting.value)>>

\* The documents of each term in a block, among some postings.
BlockAmong(lists, b) ==
  [t \in Terms |->
     LET here == SelectSeq(lists[t], LAMBDA p : p.doc \div source.bsize = b)
     IN [i \in DOMAIN here |-> Entry(here[i])]]

\* The postings the cursor of each term moves over to the end of a chunk.
Chunk(end) ==
  [t \in Terms |->
     SelectSeq(SubSeq(source.lists[t], forward.cursors[t], Len(source.lists[t])),
               LAMBDA p : p.doc < end)]

flush_current_block(fwd) ==
  [fwd EXCEPT !.current = NoTerms, !.completed = Append(@, SortedBlock(fwd.current))]

\* The blocks before that of a document are complete.
FlushedTo(fwd, block) ==
  FoldLeft(LAMBDA f, i : flush_current_block(f), fwd, [i \in 1 .. block - Len(fwd.completed) |-> i])

StartOf(way) ==
  CASE way = "chunks" -> [cursors |-> [t \in Terms |-> 1], first |-> 0]
    [] way = "documents" -> [current |-> NoTerms, completed |-> <<>>, next |-> 0]
    [] way = "terms" -> [blocks |-> [b \in 1 .. NumBlocks |-> NoTerms], term |-> 1]

-----------------------------------------------------------------------------

Init ==
  /\ source \in Exports
  /\ builders = <<>> /\ forward = Nothing
  /\ file = [lists |-> <<>>, numBlocks |-> 0, blocks |-> <<>>, bsize |-> 0]
  /\ stage = "pass 1"

\* Numbers of terms are 16 bits wide.
Refuse ==
  /\ stage = "pass 1" /\ Cardinality(Terms) > MaxTerms
  /\ stage' = "refused"
  /\ UNCHANGED <<source, builders, forward, file>>

\* Every posting of the next term; a builder is made for the first.
AddTerm ==
  /\ stage = "pass 1" /\ Cardinality(Terms) <= MaxTerms
  /\ Len(builders) < Len(source.lists)
  /\ LET list == source.lists[Len(builders) + 1]
     IN builders' = Append(builders,
          IF list = <<>> THEN Nothing ELSE FoldLeft(add_posting, NewBuilder, list))
  /\ UNCHANGED <<source, forward, file, stage>>

WriteLists ==
  /\ stage = "pass 1" /\ Len(builders) = Len(source.lists)
  /\ file' = [file EXCEPT !.lists = [t \in Terms |-> build(builders[t])], !.numBlocks = NumBlocks]
  /\ forward' = StartOf(source.way)
  /\ stage' = "pass 2"
  /\ UNCHANGED <<source, builders>>

\* The next chunk of blocks is built and appended to the file.
WriteChunk ==
  /\ stage = "pass 2" /\ source.way = "chunks" /\ forward.first < NumBlocks
  /\ LET n == Min({source.chunk, NumBlocks - forward.first})
         chunk == Chunk((forward.first + n) * source.bsize)
     IN /\ file' = [file EXCEPT !.blocks = @ \o
                      [b \in 1 .. n |-> SortedBlock(BlockAmong(chunk, forward.first + b - 1))]]
        /\ forward' = [cursors |-> [t \in Terms |-> forward.cursors[t] + Len(chunk[t])],
                       first |-> forward.first + n]
  /\ UNCHANGED <<source, builders, stage>>

\* The terms of the next document; documents without any are not added.
AddDocument ==
  /\ stage = "pass 2" /\ source.way = "documents" /\ forward.next < source.docs
  /\ LET doc == forward.next
         entries == [t \in Terms |-> SelectSeq(source.lists[t], LAMBDA p : p.doc = doc)]
         fwd == FlushedTo(forward, doc \div source.bsize)
     IN forward' = [IF \A t \in Terms : entries[t] = <<>> THEN forward
                    ELSE [fwd EXCEPT !.current = [t \in Terms |->
                            @[t] \o [i \in DOMAIN entries[t] |-> Entry(entries[t][i])]]]
                    EXCEPT !.next = @ + 1]
  /\ UNCHANGED <<source, builders, file, stage>>

\* What is left of the current block, and blocks without documents to the end.
BuildDocuments ==
  /\ stage = "pass 2" /\ source.way = "documents" /\ forward.next = source.docs
  /\ LET last == IF forward.current # NoTerms \/ Len(forward.completed) < NumBlocks
                 THEN flush_current_block(forward) ELSE forward
     IN file' = [file EXCEPT !.blocks = FlushedTo(last, NumBlocks).completed]
  /\ stage' = "blocks"
  /\ UNCHANGED <<source, builders, forward>>

\* The postings of the next term go to their blocks.
AddList ==
  /\ stage = "pass 2" /\ source.way = "terms" /\ forward.term <= Len(source.lists)
  /\ forward' = [term |-> forward.term + 1,
                 blocks |-> [b \in 1 .. NumBlocks |->
                   [forward.blocks[b] EXCEPT ![forward.term] =
                      BlockAmong(source.lists, b - 1)[forward.term]]]]
  /\ UNCHANGED <<source, builders, file, stage>>

BuildTerms ==
  /\ stage = "pass 2" /\ source.way = "terms" /\ forward.term > Len(source.lists)
  /\ file' = [file EXCEPT !.blocks = [b \in 1 .. NumBlocks |-> SortedBlock(forward.blocks[b])]]
  /\ stage' = "blocks"
  /\ UNCHANGED <<source, builders, forward>>

Finish ==
  /\ \/ stage = "blocks"
     \/ stage = "pass 2" /\ source.way = "chunks" /\ forward.first = NumBlocks
  /\ file' = [file EXCEPT !.bsize = source.bsize]
  /\ stage' = "done"
  /\ UNCHANGED <<source, builders, forward>>

Next ==
  \/ Refuse \/ AddTerm \/ WriteLists
  \/ WriteChunk \/ AddDocument \/ BuildDocuments \/ AddList \/ BuildTerms
  \/ Finish

Spec == Init /\ [][Next]_vars

-----------------------------------------------------------------------------

\* What an engine reads: the bound of a block and its documents for a term.
BoundOf(list, b) ==
  IF ~source.compress THEN list.blocks[b + 1]
  ELSE LET superblock == list.blocks[b \div Superblock + 1]
           found == {i \in DOMAIN superblock : superblock[i][1] = b % Superblock}
       IN IF found = {} THEN 0 ELSE superblock[CHOOSE i \in found : TRUE][2]

ImpactsOf(b, t) ==
  LET block == file.blocks[b + 1]
      found == {i \in DOMAIN block : block[i][1] = t}
  IN IF found = {} THEN <<>> ELSE block[CHOOSE i \in found : TRUE][2]

\* The score of that rank among those of a list, 0 if it has fewer.
RankScore(list, rank) ==
  Max({0} \cup {s \in 1 .. ScoreLevels - 1 :
                  Cardinality({i \in DOMAIN list : quantize(list[i].value) >= s}) >= rank})

\* However it is cut, the forward index has every posting of the source, once and
\* in order, and the bounds its blocks are pruned on, and the scores a threshold is
\* estimated from, are those of the impacts in it.
ExportFaithful ==
  stage = "done" =>
    /\ Len(file.blocks) = file.numBlocks
    /\ \A t \in Terms :
         LET list == source.lists[t]
         IN /\ FlattenSeq([b \in 1 .. NumBlocks |->
                 LET here == ImpactsOf(b - 1, t)
                 IN [i \in DOMAIN here |-> <<(b - 1) * file.bsize + here[i][1], here[i][2]>>]])
               = [i \in DOMAIN list |-> <<list[i].doc, quantize(list[i].value)>>]
            /\ \A b \in 0 .. NumBlocks - 1 :
                 BoundOf(file.lists[t], b) =
                   Max({0} \cup {ImpactsOf(b, t)[i][2] : i \in DOMAIN ImpactsOf(b, t)})
            /\ file.lists[t].kth = [r \in DOMAIN Ranks |-> RankScore(list, Ranks[r])]
    /\ \A b \in DOMAIN file.blocks : \A i \in 1 .. Len(file.blocks[b]) - 1 :
         file.blocks[b][i][1] < file.blocks[b][i + 1][1]
=============================================================================
