# Verification of impact-index

impact-index is a Rust library for first-stage retrieval: it builds inverted
indexes of (term, document, impact) postings on disk, transforms them
(compression, splitting by impact, document reordering) and searches them for
the k documents with the largest weighted sum of impacts, with dynamic pruning.
This directory holds TLA+ specifications of its core, TLC configurations that
check them on small instances and TLAPS proofs of the main results.

 1. The system
 2. The modules, and how they correspond to the code
 3. What the runs check and show
 4. What is proved
 5. Where the code disagrees with its documentation
 6. What is not modelled, and the plan

## 1. The system

| part | source | state | operations |
|---|---|---|---|
| Indexer | `src/src/builder.rs` | per term: pages and statistics (`information.terms`), held postings (`postings_information`); `postings.dat` behind a `BufWriter`, tracked position; `checkpoint.cbor`, `information.bin`, manifest | `new` (fresh or resumed), `add`, `checkpoint`, `flush`, `build` |
| Bag-of-words builder | `src/src/bow.rs`, `src/src/docmeta.rs` | an Indexer, document lengths in memory, the analyzer's vocabulary; `docmeta.dat`, `docmeta.cbor`, `vocab.fst` | `add`, `add_text`, `add_texts_batch`, `build`, `get_checkpoint_doc_id` |
| Document store | `src/src/docstore/` | content blocks, block records, one temporary file per key, checkpoint, offset and key maps | `new`, `add`, `flush_block`, `checkpoint`, `build`; look-ups by number and key |
| Search | `src/src/search/maxscore.rs`, `wand.rs`, `segments.rs`, `mod.rs` | one cursor per query term, heap of the k best, threshold, partition or order of the terms | MaxScore, WAND, search of document segments, filters |
| Cursors | `src/src/search/cursor.rs`, implemented in `src/src/builder.rs`, `src/src/index.rs`, `src/src/compress/`, `src/src/transforms/split.rs`, `src/src/search/ops.rs` | block, position in it, lazily loaded postings | `next_min_doc_id`, `current`, `next`, bounds of a list and of a block |
| Structured operators, queries | `src/src/search/ops.rs`, `src/src/query.rs` | children and the document each is at; query tree | sum, conjunction, phrase and proximity cursors; plan, evaluate |
| Compression | `src/src/compress/` | block metadata, encoded blocks | encoding of ids, impacts and positions; block iterators |
| Transforms | `src/src/transforms/` | quantile bounds per term, permutation of the documents | split, reorder |
| Manifest | `src/src/manifest.rs` | `manifest.json` and the files it describes | write, read, migrate |
| Scoring | `src/src/scoring/` | document lengths, parameters | BM25 and identity scores, score bounds |
| Analysis | `src/src/vocab/` | vocabulary, stemmers, stop words | tokenise, stem, number the words |
| BMP, Seismic | `src/src/bmp/`, `src/src/seismic/` | export builders for two other engines | build, search |
| Utilities, bindings, programs | `src/src/utils/`, `src/src/py/mod.rs`, `src/src/bin/` | buffers, wrappers | read, write, copy |

The parts meet in three ways. Through **files**: an index directory is written by
the builders, read by the loaders and taken as source by the transforms. Through
the **cursor interface**: an iterator over the postings of a term, with bounds per
list and per block, implemented by the forward, compressed and split indexes and
by the structured operators, consumed by the search algorithms. Through **calls**:
the bag-of-words builder owns an Indexer, and the segmented search runs a search
per segment and merges the answers.

What is hard to get right here:

 * **loss of the process while building.** The builders buffer, write in place and
   promise to resume from a checkpoint: every step of every write may be the last
   one, what a `BufWriter` holds may be in the file or not, and the files of a lost
   attempt stay where the next one starts.
 * **dynamic pruning.** WAND and MaxScore skip documents on the strength of upper
   bounds kept per term and per block, with cursors that are moved lazily and lag
   behind one another; a bound read at the wrong moment loses a result silently,
   and no test compares more than a few collections.
 * **layered iterators.** One cursor contract is implemented by blocks, merged
   partitions and operators, each with a notion of the current position of its own.
 * **formats that change.** An index directory is migrated in place.

What makes each part correct:

| part | correct when |
|---|---|
| Indexer | the published pages of every term are the postings of the collection, in order, under sound bounds; a checkpoint always resumes; statistics are exact; the build eventually ends |
| Document store | every document is found under its number and its keys, nothing else is, and a collection without duplicate keys is accepted |
| Bag-of-words builder | lengths and vocabulary agree with the index they lie next to |
| Search | the answer is the k best accepted documents with their exact scores; the loop terminates |
| Cursors | a cursor is at the first posting at or after the target, and its bounds are not below the postings they stand for |
| Transforms, migration | the result answers as its source does; a crash leaves one or the other |

`PROJECT.json` lists the hazards of the code one by one with the properties that
cover them, and maps every definition to the lines it models.

## 2. The modules, and how they correspond to the code

**Builders**

| module | models | composed with |
|---|---|---|
| `Indexer` | checkpointed construction of the forward index | refines `IndexContract`; instance in `MCIndexer`; proofs in `IndexerProofs` |
| `IndexContract` | what that construction promises a reader | |
| `DocStoreBuilder` | checkpointed construction of the document store through a `BufWriter` per file, and its look-ups | instances in `MCStores`, proofs in `DocStoreProofs` |
| `BowBuilder` | the bag-of-words builder over an Indexer taken by its contract | instance in `MCStores`, proofs in `BowProofs` |

**Cursors**

| module | models | composed with |
|---|---|---|
| `PostingList` | postings, blocks, what a caller has asked and read, what a child may answer | used by all below |
| `PostingCursor` | the contract of a cursor: what a move, a read, a read of positions and a bound may answer | refined by every cursor |
| `ForwardCursor` | the two iterators of the forward index | |
| `CompressedCursor`, `ScoringCursor` | the iterators of the compressed index, and the one that scores chunk by chunk | |
| `Scorer`, `ScoredCursor` | BM25 and its bounds; the iterator that scores any other | `ScoringCursor` uses `Scorer` |
| `SplitCursor` | the merge of the splits of a term | children by their contract (in `PostingList`); proofs in `TransformsProofs` |
| `VirtualLists`, `OperatorCursors` | the list an operator stands for; the cursors of sum, conjunction, phrase and window | children by their contract |
| `MCCursors` | one behaviour for each cursor | run from `MCStores` |

**Search and queries**

| module | models | composed with |
|---|---|---|
| `TopScores` | the heap of the k best, and what a correct answer is | used by all of the search |
| `TermCursors` | posting lists, blocks, bounds and cursors as a search sees them; document filters | used by `MaxScore`, `Wand` |
| `MaxScore`, `Wand` | the two loops | each refines `SearchContract` |
| `SegmentedSearch` | the merge of the answers of segments, whatever search gave them under the contract | refines `SearchContract` |
| `SearchContract` | what a search promises: one answer, the k best | |
| `QueryTrees`, `Matchop` | query trees; the parser of query texts | |
| `QueryPlan` | evaluation of a tree: one weighted virtual list per clause | lists of `VirtualLists` |
| `MCSearch` | one behaviour for each search | extends `SegmentedSearch`, with instances of `MaxScore` and `Wand` |
| `SearchLemmas` | lemmas about finite sets, sums over them, blocks and their bounds, the heap | cited by the proofs below |
| `MaxScoreProofs`, `WandProofs` | the invariants of the two loops | |
| `SearchProofs` | the invariant of the search over segments, and the theorems about `MCSearch` | |

**Index directories**

| module | models | composed with |
|---|---|---|
| `Compression` | the compression, term by term, into data files and `index.bin`, and what is read back | `DocIdCodecs`, `ImpactCodecs`, `IndexBinary` |
| `Transforms` | the directories compressions, splits and reorderings read and write | `Bisection` gives the order of a reordering |
| `Bisection` | the search for an order of the documents, by several threads | |
| `Migration` | `update_index`, in place or into a copy | |
| `Directories` | what is done to directories that are there: a transform or an update | extends `Migration`, with an instance of `Transforms`; proofs in `TransformsProofs` |
| `BmpExport` | the export of an index for block-max pruning | |
| `MCIndexes` | one behaviour for each of these and for each query | extends `Directories` |
| `TransformsProofs` | the invariants of updates, of transforms, and of the cursor over the splits of a term | |

### Indexer

A file of fixed-size records is a sequence of records and a position counts
records. `file` is `postings.dat`, `cursor` the file offset and `buf` the content of
the `BufWriter` in front of it, `pos` the position the code tracks by hand
(`postings_file_position`), `terms` and `mem` the two vectors of `TermsImpacts`.
`Spill(n)` hands the first n buffered records to the operating system at any moment: a
`BufWriter` does so when it is full, and n is not bounded below because records
straddle the buffer.

`Start(f)` is `TermsImpacts::new` with `checkpoint_frequency = f`: it truncates or
resumes, seeks and restores. `BeginAdd`, `AddImpact`, `EndAdd` are the three parts of `Indexer::add`:
the document, its terms one by one in any order (a term whose list is full is flushed in
the same step), and the decision to checkpoint. `Checkpointing` and `Building` step through
`checkpoint` and `build` between the points where a crash differs: the flush of each
term, the flush of the writer, the creation of a file, its completion, the rename
and the removals. `Crash` loses memory and the buffer at any step. `Reopen` is a
caller that drops an unfinished Indexer: its `BufWriter` writes what it holds first.
The caller is part of the model as the documentation has it: it adds the same
collection again from `get_checkpoint_doc_id() + 1`. It decides on a document when it first adds
it, which covers every collection up to the bound.

### DocStoreBuilder

The state is the five kinds of files (`content.dat`, `blocks.dat`, the temporary key
files, the maps `build` writes, `checkpoint.cbor`) and the fields of the builder. A block of n
documents compresses to n chunks, so that a block cut short by a crash can be told from a whole
one; a key line is a value and a document. `StartResume` and `StartFresh`/`FreshClean` are the two
ways to open; `AddKey` writes one line per key of a document; `CallCheckpoint` is the
method a caller may call when `checkpoint_frequency` is `None` (`Manual`), and `EndAdd` the automatic one;
`CheckpointFlush` and `CheckpointRename` are the steps of either. `BeginBuild` to `BuildClean` are those of `build`, with one `BuildKey` per key
file, which writes its map, refuses duplicates and removes the temporary file. `Reopen` opens a new builder while
the caller still holds the old one, which is dropped afterwards and writes what it buffered
at its own offset, over what the new one wrote. The caller is chosen in `Init` and kept in `client`: the
values of `checkpoint_frequency` it may use, how much it adds and loses, whether its process may die while
`build` removes files. `Resumes(client)` is a caller none of whose sessions is without checkpoints.
`GetByNumbers` and `GetByKeys` are the look-ups of the reader: the numbers asked for are grouped by block and
each document goes to the place of its request; the values a map knows are fetched together and go
back to theirs. A store that is built is compared with the collection through all four, for every pair of
numbers (one past the end included) and of key values.

### BowBuilder

The Indexer appears by what the proofs of section 4 say of it: a checkpoint resumes the
postings of the documents up to the one it names, and a build that ends publishes
those it was given. Everything else the builder keeps (lengths, vocabulary) lives
in memory until `build` writes it, after the checkpoint is gone. A text is the
sequence of its stemmed words. `Add` is `add` or `add_text`, according to
`analyzed`; `BeginBatch`, `TokenizeOne`, `Collected`, `InsertNext` and `EndBatch` are `add_texts_batch`: workers tokenise the
documents in any order, reading the analyzer only, and their results are inserted
in the order of the batch, each with the checkpoint it may trigger. `BuildIndex`
to `SaveVocabulary` are the writes of `build`.

### Cursors

A list is a sequence of postings (document, value, positions) and a cursor is what the code
keeps: the block it is in, the position in it, what is decoded or loaded, the document it
last gave. `seen` is the side of the caller: what it asked for last, the largest it asked for, what it read.
`PostingCursor` says what a reply may be. A move may be lazy: it answers a lower bound, and
the bounds of a block that must hold for every posting from there to the end of the block.

In `ForwardCursor` a move skips pages only (`next_min_doc_id`), and the posting is found when it is
read, by a galloping search; in `CompressedCursor` a block is decoded when it is entered
and its bounds are copied at each move. `ScoringCursor` scores a chunk of `ScoreChunkSize`
postings at a time and drops it with the block. `SplitCursor` takes the loops of
`SplitIndexTermIterator` turn by turn: what a step does to the heap (a refresh, a pop, a
load) is an action. `OperatorCursors` does the same for `leapfrog_align`, child by child. The children of
both answer anything their contract allows. Callers are of the kinds the library has: a search that
moves and reads, a stream, a reader of positions.

### Search and filters

A posting list maps documents to what the term adds to a score, impact times
weight, a natural number; it is cut into blocks of `BlockSize` postings, and the
bounds of lists and blocks exceed the true ones by `Slack`. A cursor is the
document it is at: the contract of a cursor, which `MCCursors` checks of each.

A step of `MaxScore` is one iteration of the loop of `search_maxscore_core`:
`PruneBlocks` (the blocks at the candidate cannot reach the threshold: skip to the
first position where that may change), `Reject` (the filter refuses the candidate)
and `ScoreCandidate` (add up the active cursors, consult the passive ones while the rest may matter, offer the
score to the heap, move lists to the passive side). The order of the cursors is
chosen among those the two sorts of the code allow.

A step of `Wand` is one iteration of `WandSearch::next`, and of its caller when it
returns a candidate: `AdvanceFirst`, `PruneBlocks`, `Reject`, `ScoreCandidate`. Where the
code sorts by document with ties left open, every order of the ties is taken.

A filter is a bit set of deleted documents, one of allowed documents, either or none, as words of
`WordBits` bits built by insertions, removals or from a mask. Of a reordered index both
searches ask the filter about original ids and name the answer back (`Remapped`). `accepted` is the set of
ids the caller means; the searches never read it, the properties do.

`SegmentedSearch` takes each segment in the order of sizes: `SearchSegment` receives any
answer `TopScores` allows, with the threshold the code passes, and `Merge` offers its
hits to the common heap one by one and stops where the code does. That the two loops
give only such answers is what the same run checks: the composition is by contract.

### Queries

A text is a sequence of tokens. `Matchop` reads them one by one (`ReadTerm`, `ReadListed`,
`OpenOperator`, `CloseOperator`...), the operators that are not closed yet on a stack, which is the recursion of
`Parser`. A word is a term, a stop word or unknown, as the analyzer resolves it. `QueryPlan` validates
a tree, flattens and merges its clauses, evaluates one clause per step into a virtual list with
a document frequency of its own, and adds the lists up, which stands for the search.

### Compression

`CompressTerm` cuts a list into blocks, encodes each with the codecs and appends it to the data
files; `WriteMetadata` writes `index.bin`, in the layout of this release or, for an index an earlier
release left, of version 3 or 4; `Load` reads it, or first brings it up to version 5 with the lengths
of `docmeta`. The codecs are operators: bytes out, values in. Impacts are counted in parts of `One`
and bounds in parts of `QMax`, so that quantisation is exact arithmetic. A packed block is its width and the values that fit in
it: one that needs more is cut, as it would be.

### Transforms

A directory has two levels, the index and the one within it if it is split. A file is what
told two of them apart: whose postings, in which order of ids, or `Absent`, or `Short` (created, not
whole). A transform is the list of its writes in the order the code makes them; `WriteNext` does
one and `Crash` may come before any. `link_or_copy` hard-links the vocabulary, so that
`inodes` says which file a directory's `vocab.fst` really is. A target may have been written before, whole or in part.

`Bisection` is the recursion of the reordering as a set of ranges and threads that take them:
`Take` counts the terms of both halves in the counters of the thread, `SwapPass` is one pass of
swaps, `Split` clears the counters and leaves two ranges.

### Migration

`tree` is the files of the index and of its copy. `BeginInPlace` and `BeginCopy` are a call of `update_index`,
`CopyFile` copies one file after it truncated what was there, `Enter`, `Step`, `RewriteData`, `Stamp` and
`Return` the chain of versions on a stack, because a split index updates the one within. Data is
written beside and renamed; the manifest is truncated and written in place. `Crash` may come between any two.

### BMP export

`AddTerm` makes the list of block maxima and scores of a term, in the first pass; `WriteChunk` reads the postings again for
a few blocks of documents; `AddDocument` and `AddList` are the two builders in memory.

## 3. What the runs check and show

Every bound is a constant of the module or of its MC module. Where a run holds several
components (`part` in `MCStores`, `kind` in `MCSearch`, `MCIndexes`, `MCCursors`), each behaviour is of one of
them: in `MCStores` the others wait in an initial state, so that the properties are those of the modules as they stand, and
`Parts` says which of them a run has.

| run | module, configuration | bounds | states |
|---|---|---|---|
| `indexer_safety` | `MCIndexer`, `IndexerSafety.cfg` | 2 terms, up to 3 documents with or without each term, a term flushed at its second posting, checkpoints every 1 or 2 documents, 2 crashes | 261,756 |
| `stores` | `MCStores`, `Stores.cfg` | document stores with checkpoints: 3 additions of 2 documents, of 2 sizes and with 1 or 2 key fields, block of 2, automatic and called checkpoints, 1 crash before publication; without: 2 additions, 1 crash anywhere, 1 replaced builder. Bag-of-words builders: 3 words, collections of up to 3 texts, batches of up to 3, frequency 1 or 2, 2 crashes. Cursors: every list over 5 documents in blocks of 2 or 5 under three callers; three splits of lists over 4; operators over two or three lists | 297,771 + 203,497 + 609,243 |
| `search` | `MCSearch`, `Search.cfg` | every pair of lists over 4 documents in blocks of 2 with impacts 1 and 2, under two questions, those with a plain list also under two filters; triples over 6 documents in 3 blocks; 3 segments of 2 documents | 548,771 |
| `indexes` | `MCIndexes`, `Indexes.cfg` | two transforms of 2 sources to 2 targets with 1 crash; three updates of 17 directories of versions 0 to 4 with 1 crash; compressions of 5 indexes by each codec with full blocks of 3; exports of 4 indexes; bisections of 6 documents by 2 threads; texts of up to three parts and 512 query trees over 4 indexes | 211,077 |

Eight more runs exhibit the disagreements of section 5.

**Indexer.** `PublishedFaithful`: whatever a crash, a resumption or an overwritten attempt
did, a reader of the built index finds the postings of the collection.
`CheckpointRecoverable`: the same of every checkpoint at every moment, including while
later pages are written above its position. `ResumeAccepted`: resuming after the
document a checkpoint names never trips the assertion that document ids increase.
`StatisticsExact`: document frequencies and maxima count each posting once.
`CheckpointAdvances`, `CheckpointOutlivesBuild`: a checkpoint is only replaced by a later one and only given up for
a readable index. `ImplementsContract`: a reader sees nothing, then everything.
`EventuallyPublished`: once crashes stop, the build ends. The bounds are enough for
what distinguishes the cases: a checkpoint with pages on disk and postings held in memory at
once needs two documents and a threshold of one; overwriting a page of a lost attempt needs
one crash, and resuming over an overwritten page two.

*Fairness* (`FairSpec`). Weak fairness of opening, of the next step of the running operation and of the
caller's next call (the next document, or `build`): one thread runs the builder and the
caller, as the examples and the tests do, adds its documents and ends by building. Nothing is assumed of `Spill`
or of crashes, which are bounded.

**Document store.** `SessionsEndFaithfully`: a session ends with a store where every document is found under its
number and its keys and nothing else is, or with the refusal of two documents that share a key. `ResumableFromCheckpoint`: the files cut back
to the lengths of the checkpoint are those of its documents, once each. `CheckpointOutlivesSessions`: it goes away for a
readable store only. The caller of this run that resumes neither loses its process
after `build` removed a key file nor replaces a builder: either way the properties are
violated (section 5), and `interrupts` and `reopens` name the part that is left out. The other, without
checkpoints, does both.
A block of 2 is filled by one document or by two, left open at a
checkpoint and closed after it.

**Bag of words.** `LengthsOfBuild` and `VocabularyOfBuild`: of a build that started at the first document the lengths are those of the texts, of
a resumed one those of its own documents; looking a word up in
`vocab.fst` and its id in the index gives the number of times it occurs, and workers, batches and calls do not show in the
numbering. `LengthsAllOrNothing`: in every state, also between two writes of a build
over the files of an earlier one, a reader loads the lengths of all documents or of
none (or an empty list, when a resumed build had nothing left to add). The collection of a directory
is fixed: rebuilding a directory with other documents is a hazard listed without a property.

**Cursors.** `ImplementsContract`: every cursor refines `PostingCursor`. A move and a read lead to the first
posting asked for, with its value and its positions; moves and reads in any order, two moves
to one target, or a move back lose none; the bounds of the block a search prunes on hold for
every posting they stand for, also between a move and the read that resolves it. Of scored
lists the bounds are of scores, with and without the least length of a block. `HeapIsCurrent` says of the
merge that nothing behind the target is in the heap when it returns. Blocks of 2 and of 5 put the target
before, in, at the end of and after a block; five documents make three blocks or one.

**Search.** `ImplementsContract`: the answer is the k best accepted documents, in
order, with their scores, one among several when scores tie, under the ids the caller
knows. `LoopInvariant` is what each loop relies on, and localises what `ImplementsContract` would only show at
the end: a document that can still matter is ahead of the cursors that should find it, or is in
the heap (`NothingLost`); the lists that no longer propose candidates cannot reach the threshold together
(`PassiveStaysBelow`, MaxScore); the cursors of WAND stay sorted though only one is bubbled at a time
(`StaysSorted`); after each merge the heap is a correct answer over the segments done
(`MergedSoFar`). `SearchAdvances`: the threshold never falls and MaxScore proposes documents in order. `BoundedWork`
bounds the iterations by the postings, which is termination without fairness: each
branch of the loops moves a cursor. The pairs exercise ties, thresholds, filters and lists
that end at different times; the triples are there for two passive cursors and a block in the middle that is skipped.

**Queries.** `ParsedAsWritten`: a text that is well-formed gives the tree it stands for (a recursive definition
over the text, independent of the stack), with each weight at the place it was written for
though stop words and unknown words are dropped, and any other text is refused. `AnswersMeaning`: after flattening, merging and
evaluation, the answer is what the tree means, node by node, on original ids. `FailsForAReason`: a query none of whose operators is empty is
answered unless it asks for positions of an index that has none, has a window too narrow, or a sum below another
operator, wherever in the tree and beside whatever other clauses; what the docs say of empty operators and of parsed sums is in section 5. `NothingBelowZero`: no virtual list gives a document less than nothing, on which MaxScore and WAND rely, also where the
documents of a virtual term, summed over its words, are more than the index has.

**Directories.** `Complete`: a transform that returns leaves an index that opens, whose postings, positions,
lengths and vocabulary are those of its source in the order of its ids, whatever lay in the target. `SourcesUntouched`:
neither a transform nor an update into a copy changes its source, by a link neither. `ClaimsWhatItHas`: a manifest
never promises a newer layout than the data has. `UpdatedLoads`: what an update returns loads. `ResumesUnlessManifest`:
whatever a crash interrupted, the next update ends well, unless it was the manifest itself. `CallsEnd`: every update ends; *fairness* is weak fairness of the
steps of the call and of its copy, which one thread runs, and of nothing else.

**Compression.** `PostingsRead`: documents, positions and, by an exact codec, impacts are read back; a quantiser keeps
their order and the clamped impacts are counted. `BoundsHold`: no impact is decoded above the maxima it is under and the least lengths are lengths
of the block. `MigratedAsRebuilt`: an index of an earlier layout becomes the one this release would write.
Lists end before, at and after the end of a block and of a full block of a codec; a gap needs more bits than the rest of its block.

**Reordering and export.** `BisectedAlike`: the order found is the one a single thread finds and a permutation, because
the counters of a thread are exact in a node and zero between two. `ExportFaithful`: each posting of the source is in
its block once, bounds of blocks and the scores at ranks are those of the impacts written, however the
documents are cut into blocks and chunks.

Deadlock is checked in all runs but `indexes` with its four violations, where the bounded number of jobs and calls
runs out. In `stores` only the caller of a cursor may stop anywhere.

## 4. What is proved

All theorems hold for every value of the constants under the named assumptions of the modules,
which TLC evaluates in the runs: `IndexerAssumption`, `DocStoreAssumption`, `BowAssumption`, `CursorAssumption` (block and
word sizes are positive), `SearchAssumption` (what may be asked is a finite number of finite non-empty lists of
natural numbers, at least one result and a filter that means the ids it accepts),
`SegmentsAssumption`, `RewritingAssumption` (finitely many directories, none both a source and a target, an order
of all documents, and marks of missing and half-written files that are nothing else) and `MigrationAssumption`: an index
that is updated is one a release left (`AsReleased`), of one layout with its data, which
are as new as its manifest says, and current within when it is current outside. That is what the builders and transforms of
each release write, and what an update interrupted between its steps leaves; a directory damaged
by a crash is no such index, but is reached from one in the model. The theorems on directories are about `DirSpec`, which
is `MCIndexes` when `kind` is one of those two, those on the two builders about `Spec` and `BowSpec`, which are
`MCStores` when `part` says so. The
theorems on the merged cursor have a hypothesis instead, `IsSource`: the lists are in the order of documents and
share none, since each impact of a term falls into one split. `SplitsAssumption` of `MCCursors` has TLC
evaluate it for the splits the model of the transform makes.

| theorem | in | establishes |
|---|---|---|
| `TypeCorrect` | `IndexerProofs` | `[]TypeOK` |
| `CheckpointOnlyAdvances` | `IndexerProofs` | `CheckpointAdvances` |
| `BuildIsFaithful` | `IndexerProofs` | `[]PublishedFaithful` |
| `CheckpointIsRecoverable` | `IndexerProofs` | `[]CheckpointRecoverable` |
| `ResumeIsAccepted` | `IndexerProofs` | `[]ResumeAccepted` |
| `BuildKeepsOne` | `IndexerProofs` | `CheckpointOutlivesBuild` |
| `BuildImplementsContract` | `IndexerProofs` | `ImplementsContract`: the refinement of `IndexContract` |
| `StatisticsAreExact` | `IndexerProofs` | `[]StatisticsExact` |
| `TypesAreCorrect` | `DocStoreProofs` | `[]TypeOK` |
| `StoresAreFaithful` | `DocStoreProofs` | `[]SessionsEndFaithfully` |
| `CheckpointsResume` | `DocStoreProofs` | `[]ResumableFromCheckpoint` |
| `CheckpointsOutlive` | `DocStoreProofs` | `CheckpointOutlivesSessions` |
| `TypesAreCorrect` | `BowProofs` | `[]TypeOK` |
| `LengthsAreAllOrNothing` | `BowProofs` | `[]LengthsAllOrNothing` |
| `LengthsAreThose` | `BowProofs` | `[]LengthsOfBuild` |
| `VocabularyIsThat` | `BowProofs` | `[]VocabularyOfBuild` |
| `SearchAnswers` | `MaxScoreProofs` | MaxScore refines `SearchContract` |
| `SearchAnswers` | `WandProofs` | WAND refines `SearchContract` |
| `SegmentedSearchAnswers` | `SearchProofs` | the search over segments refines `SearchContract` |
| `SharedThresholdNeverFalls` | `SearchProofs` | nor does the threshold that segments share |
| `TypesAreCorrect` | `SearchProofs` | `[]TypeOK` |
| `LoopsAreSafe` | `SearchProofs` | `[]LoopInvariant` |
| `LoopsEnd` | `SearchProofs` | `[]BoundedWork` |
| `SearchesAdvance` | `SearchProofs` | `SearchAdvances` |
| `SearchesAnswer` | `SearchProofs` | `ImplementsContract`: the refinement of `SearchContract` by all three |
| `ManifestsClaimWhatTheyHave` | `TransformsProofs` | `[]ClaimsWhatItHas` |
| `ReturnedUpdateLoads` | `TransformsProofs` | `[]UpdatedLoads` |
| `FailsOnManifestsOnly` | `TransformsProofs` | `[]ResumesUnlessManifest` |
| `FinishedTransformsAreComplete` | `TransformsProofs` | `[]Complete` |
| `WhatIsReadStays` | `TransformsProofs` | `SourcesUntouched` |
| `DirectoriesWellFormed` | `TransformsProofs` | `[]DirTypeOK`, the part of `TypeOK` about directories |
| `MergedHeapIsCurrent` | `TransformsProofs` | `[]HeapIsCurrent` of `SplitCursor` |
| `MergedKeepsContract` | `TransformsProofs` | the cursor over the splits of a term refines `PostingCursor` |

**Indexer.** `BuildIsFaithful`, `CheckpointIsRecoverable`, `ResumeIsAccepted`, `BuildKeepsOne` and
`BuildImplementsContract` have one more hypothesis, `SteadyFrequency`: either every
session uses checkpoints or none does. It cannot be dropped: `indexer_stale` is the
counterexample. None of the invariants is inductive. The strengthening is

    Inv == TypeInv /\ MemoryInv /\ CheckpointInv /\ WritingInv /\ BuildInv

 * `MemoryInv`: in a running process, the pages of each term, read in the part of the
   file below the cursor followed by the buffer, and then the held postings, are the postings of the
   documents added so far; the tracked position is the end of that sequence. It ties
   `pos`, `cursor` and `buf`, which the code keeps separately, and makes `Spill` a
   step that changes nothing.
 * `CheckpointInv`: a checkpoint is resumable, and the running process never writes
   below its position. Hence overwriting above it is harmless.
 * `WritingInv` and `BuildInv`: what is known in the middle of `checkpoint` and of `build`:
   the buffer is empty when the checkpoint is written, no posting is held when the
   metadata is, and the metadata is readable from its completion on.

The module begins with the types, the lemmas about pages (a page depends only on the records it
covers, appending a page, cutting a file above the last page) and those about
the actions. The step lemma has one case per action. `CheckpointOnlyAdvances` has its own invariant (`AdvanceInv`:
the document in progress is after the checkpoint's) and no hypothesis on frequencies. Nor has `StatisticsAreExact`:
what `CountInv` counts, postings, largest impact and last document of a term, in memory, in the
checkpoint and in the metadata, follows the documents added and not the bytes of `postings.dat`, so that it holds
even in the sessions that lose them. A posting is counted when it is added and not again when its page is flushed.

**Document store.** `TypesAreCorrect` has no hypothesis: `Timely` is all it adds to the types, that a checkpoint
counts documents of the collection and has a length per key file. The other three have one, `Steady(c)` for
every caller: it resumes each session, replaces no builder and does not die between the
removal of a key file and that of the checkpoint, or it never resumes. Neither half can be widened: of the callers left out, one
dies there (`docstore_interrupted`), one replaces a builder (`docstore_replaced`) and one mixes sessions
with and without checkpoints, as in `indexer_stale`. The invariant is

    Sound == Typed /\ Steady(client) /\ MemoryInv /\ KeyInv /\ CheckpointInv /\ BuildInv

 * `MemoryInv`: every document added is in the block being filled at the place `intra` notes, or in a
   record of `blocks.dat` whose chunks are in `content.dat`, both read with what their writers still hold
   (`FullBlocks`, `FullContent`), so that a `Spill` changes nothing (`SpillKeeps`); a writer ends where the builder counts to.
 * `KeyInv`: the lines of each key file with its writer are those of the documents added, each once, and the
   document being added has those of the keys that are done (`Done`).
 * `CheckpointInv`: the same two, of what the checkpoint counts in the files cut to the lengths it saves
   (`Recoverable`), and every writer of the running process is past them (`Above`). A write past a cut leaves what is
   before it (`Agree`), which is the reason an attempt that died may leave anything there.
 * `BuildInv`: how far `build` has come: nothing is held, then the offsets are written, then the maps of the key files before
   `turn` are those of the collection (`Mapped`), then the metadata. That a map is refused only for two lines of one value is there.

The first lemmas say what a write at an offset, a cut and a `BufWriter` do to a file, and that a document is still
read when a file grows or moves from the writer to the disk (`ReadStable`, `BlockedKept`, `MemoryMoves`).
`MemoryStep`, `KeyStep`, `CheckpointStep` and `BuildStep` take the actions one by one, each for its part of
the invariant. The last group is about the look-ups: a document is found by its number (`NumberReads`), two by theirs, in
one block or in two (`NumbersRead`), and by its keys (`BuiltKeys`, `KeysRead`, with `PlacesInOrder` for the
requests that are put back in order).

**Bag of words.** The invariant `Aligned` says that the lengths in memory are none or one per
document, that they cover the collection while they are written, and that
`docmeta.cbor`, when it can be read, counts none or the whole collection: a truncated
`docmeta.dat` is then too short to load, never a shorter collection. The other theorems need more, and each part
needs the ones before it:

 * `Typed` adds `Batched`, that what is left of a batch starts at the next document and its workers tokenised
   documents of the collection, and `Resumable`, that a checkpoint is of a document.
 * `Measured`: the lengths in memory are those of the documents from the one the process began with, and what
   `build` has written agrees with them. Those before are zeros or missing, as `bow_resume` shows, so that the
   theorem says nothing of them.
 * `Named`: a process that was given every document has the vocabulary one gets by growing an empty one over the texts
   laid end to end, without a word twice, and the postings of each document are numbered by it. Postings were
   numbered by the vocabulary of their time: they stay right because a word keeps its id (`IdKept`,
   `NumberedKept`). The order in which workers tokenise does not matter, the one in which
   documents are inserted does.
 * `Published`: what `build` writes is what was in memory.

Tokenising, growing and laying end to end are folds: `FoldIsChain` says that a fold is the last of a chain of values, each
made from the one before by a step, and `GrowConcat`, `FlattenAppend` and `LengthOfText` are inductions along
such chains.

**The loops of the searches.** MaxScore and WAND are proved for any number of lists of any length and any values,
any size of blocks, any slack of the bounds, every filter and a map of reordered ids. The invariants share their
middle parts:

 * `HeapOK`: the threshold is the one of the heap, and a hit has the score of its document, unless the document
   is not above the threshold the caller asked for: some of its terms may then have been left out. What is in the heap
   was a candidate before the present one, so that no document enters twice.
 * `Ahead`: a document that can still enter the heap (`Open`) has none of its cursors past it. This is
   `NothingLost`, by cursor. A skip is safe because the bounds of the blocks skipped add up to no more
   than the threshold, and a document in them is then not open.
 * `PassiveStaysBelow` (MaxScore): `sum_pass` is the sum of the bounds of the passive lists and at most the threshold, so that a
   document of passive lists alone is not open. A passive cursor may lag and is moved when it is asked.
 * `StaysSorted` (WAND): moving the cursors before the pivot one at a time and bubbling each to its place sorts again. A document is
   a candidate once because the candidate passes `cur_doc`, which no cursor does before.

`Candidate` of WAND is found by partial sums of list bounds: a document before the pivot is held
by lists before it only. `BoundedWork` of MaxScore is inductive with the invariant; that of WAND needs `Work`,
which counts one more while the first cursor has not been a candidate (`Fresh`), because
an iteration that only scores moves no cursor.

`SearchLemmas` is what both need to know about sums. The folds and sums of the community modules are
recursive functions over subsets chosen by `CHOOSE`; `SubsetRecursion` proves from the well-foundedness of the
subset order that such a recursion has a solution, `SolutionsAgree` that it has one only, and from these come the value of a
sum without one of its members, the sum of a union, and that sums are monotone. The module also holds that a
block ends where the next begins, that its bound is above its values, that adding a hit to the heap keeps the k
best, and that a heap of which every document missed is at most the threshold is an answer (`HeapAnswers`).

**Segments.** Of a segment any answer the contract allows is taken, so that nothing but
`SearchContract` links the merge to the loops. Between two hits of a merge the heap is no
answer, and `MergedSoFar` says nothing there; the inductive `MissingOK` says that a document searched and
not in the heap scores at most the threshold, or is in the part of the answer not merged yet, or is
beaten: hits in the heap above it and hits still to come, none of which scores less, are as many as wanted. The
last case is what a segment leaves out because it has k better ones; when the merge ends it turns
into the first. `PendingOK` says that a hit still to come has its score if that is above the
threshold: under a shared threshold a segment may report a document with part of its score, and the merge refuses it.

**All searches.** `MCSearch` runs one of the three according to `kind`. `SearchProofs` holds the proofs about segments,
takes the other two from their modules, shows that `kind` is constant, that a behaviour of one kind is one of its module, and
lifts the theorems. So the properties the run `search` checks on small lists hold of all.

**Updates.** Each of the three properties is about one moment (a whole manifest, a return, an error) and none is
inductive. `IInv` adds what is known between two moments:

 * `Of(level)`: no update changes the layout of a directory, since none creates or removes a data file. Without a manifest
   the layout is guessed from the files, so `CopyOK` (a copy, also one left in part, has no data the
   index has not) keeps a copy from being taken for another.
 * `Faithful`, `WellRead`, `Settled`: manifests promise what data have, no lengths were read from bytes that hold none, and a split
   index is current only when the one within is.
 * `Trusted`: a copy over an earlier one may be left with a newer manifest than its data; then nothing of the above
   is claimed while the call runs. This is `updated_twice`, and the only exception there is.
 * `FrameOK` and `StackOK`: a call knows the version of its directory, and when it is about to stamp the next one, what that
   version promises is there (`Ready`), so that a crash before or after the stamp leaves a directory the next
   update can go on from.
 * `CopyingOK`: which files of a copy are those of the index yet.

There is one lemma for each action. `StepKeeps`, `RewriteDataKeeps` and `StampKeeps` are where a new format version
would have to be argued.

**Transforms.** A call owes its directory some files (`Owed`): those that make the index it was asked for and, of the
calls that keep them, the lengths. `TransformsInv` says of each that its last write is still to come, or that it is
on the disk and no later write is of it (`Coming`). A file an earlier transform left is harmless because it is not looked at or
is owed, and then overwritten; to be overwritten in part is to be `Short` only until that last write. That the writes of a
call end so is a matter of the lists alone: what each part of a pipeline writes, under which names
(`Ends`, and the lemmas about lists), for the five pipelines.

The vocabulary is the exception: it is written through whatever inode the name has. `WordsApart` is the reason this
reaches no other directory: what is there is removed before words are written (`Removes`), or no other
directory has a link to it (`Alone`). `HasWords` and `WordsComing` are relative to the words the index
had when it was loaded (`job.words`) and not to those of the collection its postings are from: a transform that died over an
earlier one may leave postings of one collection with the words of another, the loader accepts it, and a transform of it
keeps what it was given. Three transforms and a crash are needed for that, one more than the run `indexes` has.

**The cursor over the splits of a term.** What the heap knows of a split is a bound until the posting is read, so the order of the
heap is not that of the postings, and neither `HeapIsCurrent` nor the refinement is inductive. `SplitInv` adds:

 * `EntriesOK`: an entry is never above the next posting of its cursor, which is the first from the target on; once
   read, it is that posting.
 * `AbsentOK`: after the first move a cursor outside the heap has nothing left from the target on. With `EntriesOK`
   the top of the heap bounds every posting left (`HeapCovers`), so a top that is read is the next of the merged list,
   however the others tie with it.
 * `SeenOK`: between two calls the target is the largest document the caller asked for or passed, nothing in the heap is behind it, and
   the posting read last is the first from there on unless the caller moved since. This is what a second `current` without a move rests on.
 * `UnusedOK`, `AnswerOK`: nothing happens before the first move, and the end is answered for an empty heap only.

The merged list, which no code builds, is what the contract speaks of: `MergedInOrder` and `MergedLength` say that it is in order, has
the postings of all splits and no more of them than the cursor announces.

**Only model-checked.** Liveness (`EventuallyPublished`, `CallsEnd`). What recurses over data: the codecs, the bisection, and
`Matchop`, `QueryTrees` and `QueryPlan`, whose RECURSIVE operators keep theorems out of the modules
that use them, and so out of `MCIndexes`. Of the cursors only the one over
splits is proved; the other five are checked against the same contract.

## 5. Where the code disagrees with its documentation

 * `indexer_stale`: a session with `checkpoint_frequency` 0 truncates `postings.dat` and
   leaves `checkpoint.cbor`; when it dies, a later session resumes from a checkpoint
   into a file that is no longer there and publishes zeros as postings.
 * `docstore_interrupted`: `build` removes the temporary key files one by one and the
   checkpoint last; dying in between, the resumed builder recreates the key file
   with zeros and publishes a store whose keys are lost.
 * `docstore_replaced`: a builder replaced by another on its directory writes its
   buffered key lines when it is dropped; a checkpoint of the new one takes the length of the
   file from the file system, counts them, and after a crash the same lines are there
   twice: `build` refuses the collection.
 * `bow_resume`: the document lengths are not part of a checkpoint: a resumed build
   publishes zeros, or nothing, for the documents before it.
 * `reordered_ids`: one job that reorders and then splits writes the map back to the original ids into its
   directory, beside the split index, and `SplitIndex` asks the index in `inner`, which has none: answers have
   the ids of the reordered index.
 * `updated_twice`: an index without a manifest, updated twice into the same copy, is copied over the
   migrated one, whose manifest stays: the second update returns an index that does not load.
 * `empty_subtree`: `evaluate` is said to drop a clause that cannot match, such as an empty sub-tree, and to call a
   query empty only when no clause is left (`src/src/query.rs:176`). It validates first, and one operator
   with nothing below it makes the whole query empty, beside clauses that match.
 * `parsed_refused`: `parse_matchop` is said never to produce a tree that evaluation refuses as invalid (`src/src/query.rs:359`). It
   accepts `#band(a #combine(b))`, and evaluation fails because a sum is below another operator.

Each run checks one property, quoted with the sentence it comes from in `PROJECT.json`.

Some neighbours of these have no run of their own. The vocabulary is not checkpointed
either, so that a resumed text index uses term ids twice; in the document store a
session without recovery that dies while it cleans up leaves a checkpoint over truncated
files, as in `indexer_stale`. `BitPackedIntCompressor` says it is lossless
(`src/src/compress/impact.rs:407`) and rounds impacts that are not whole; the properties take that as given.

## 6. What is not modelled, and the plan

Not modelled, for good: tokenisers, stemmers and stop lists (functions on strings without state), the idf, the
Seismic export (a transposition in memory for an optional engine) and the part of the BMP export an external library does, the
programs, and the bindings other than the calls that transform an index, which hold no state of their own.
Scores are whole numbers, so what rounding does to bounds in floating point is out of the
model: the sums of `wand.rs` and `maxscore.rs`, the block maxima `index.bin` keeps in a byte, the norms in half precision under a maximum that is exact. These
are listed as hazards or named in the notes of `PROJECT.json`. A block of the BMP export longer than 256
documents, whose offsets do not fit a byte, and `top_k = 0` are outside the instances and listed. A power failure that loses what the operating system
was given is not modelled: the code never asks for more (it does not call `fsync`). I/O errors a caller
survives are not modelled: an operation that fails ends the process. The positions stream of the Indexer
(`positions.dat`) is left out of the builders, though not of the cursors, of compression and of the transforms. The
reader of the document store appears by its look-ups, of one and of several documents; its three ways of accessing `content.dat` and the lock around the file are not modelled. The cache of
analyzers in the bindings (by time and size of a file) is not modelled.

What would come next:

 1. `positions.dat` in `Indexer` and its checkpoint.
 2. **Proofs**: the forward cursor against `PostingCursor`.
 3. I/O errors that are returned: a page recorded by `flush` and not written, an offset recorded by `add` before
    the step that fails.
