----------------------------- MODULE BowBuilder -----------------------------
(***************************************************************************)
(* The builder of bag-of-words indexes (src/src/bow.rs): an Indexer, the   *)
(* lengths of the documents (src/src/docmeta.rs) and, when texts are       *)
(* indexed, an analyzer whose vocabulary numbers the words in the order    *)
(* they arrive.  The Indexer appears by what module Indexer shows of it:   *)
(* a checkpoint resumes to the postings of the documents up to the one it  *)
(* names, and a build that ends has the postings it was given.  Everything *)
(* else here lives in memory until build writes it.                        *)
(*                                                                         *)
(* A text is the sequence of its stemmed words; documents are numbered     *)
(* from 0 without gaps, and positions are off.                             *)
(***************************************************************************)
EXTENDS Integers, Sequences, SequencesExt, FiniteSetsExt

CONSTANTS
  NumWords,     \* words are 0 .. NumWords - 1
  Collections,  \* the collections a caller may index: sequences of texts
  Frequencies,  \* values of checkpoint_frequency the caller may choose
  MaxBatch,     \* bound: documents in a call of add_texts_batch
  MaxCrashes    \* bound: times the builder is lost

Words == 0 .. NumWords - 1

ASSUME BowAssumption ==
  /\ NumWords \in Nat \ {0}
  /\ Collections \subseteq Seq(Seq(Words))
  /\ Frequencies \subseteq Nat
  /\ MaxBatch \in Nat
  /\ MaxCrashes \in Nat

VARIABLES
  collection,   \* the caller's collection
  analyzed,     \* whether the builder has an analyzer
  crashes,      \* times the builder was lost
  checkpoint,   \* checkpoint.cbor: the postings up to its document, or NoFile
  index,        \* information.bin and postings.dat
  dat, cbor,    \* docmeta.dat, docmeta.cbor
  vocabFile,    \* vocab.fst
  stage,        \* where the process is
  frequency,    \* options.checkpoint_frequency
  first,        \* the first document this process was given
  ckptDoc,      \* the Indexer's checkpoint_doc_id
  docs,         \* the Indexer: the postings of each document added
  lengths,      \* doc_lengths
  vocab,        \* the analyzer's vocabulary: the word of each term id, in order
  batch,        \* documents of the current add_texts_batch not yet inserted
  tokens        \* its documents tokenised so far: [id -> words and counts]

files    == <<checkpoint, index, dat, cbor, vocabFile>>
asked    == <<collection, analyzed, crashes>>
opened   == <<frequency, first>>
inMemory == <<ckptDoc, docs, lengths, vocab>>
bowVars  == <<collection, analyzed, crashes, checkpoint, index, dat, cbor, vocabFile, stage,
              frequency, first, ckptDoc, docs, lengths, vocab, batch, tokens>>

NoDoc  == -1
NoFile == [state |-> "absent"]
Torn   == [state |-> "torn"]
Whole(content) == [state |-> "complete", content |-> content]

-----------------------------------------------------------------------------
(***************************************************************************)
(* Words and lengths                                                       *)
(***************************************************************************)

\* Vocabulary::get_or_insert: a new word takes the next term id.
GetOrInsert(v, w) == IF Contains(v, w) THEN v ELSE Append(v, w)

\* The vocabulary once the words of a text are in.
GrowVocabulary(v, text) == FoldLeft(GetOrInsert, v, text)

\* tokenize_and_stem: the words of a text in the order of their first
\* occurrence, each with its number of occurrences.
Tokenize(text) ==
  LET distinct == FoldLeft(GetOrInsert, <<>>, text)
  IN  [i \in DOMAIN distinct |->
         [word |-> distinct[i], tf |-> Cardinality({j \in DOMAIN text : text[j] = distinct[i]})]]

\* The words of a tokenised text.
WordsOf(toks) == [i \in DOMAIN toks |-> toks[i].word]

\* The length of a document: the sum of its term frequencies.
DocLength(toks) == FoldLeft(LAMBDA sum, e : sum + e.tf, 0, toks)

\* Mutant of SetLength: documents are counted from 1.
SetLengthAfter(ls, d, length) ==
  [i \in 1 .. (IF d + 2 > Len(ls) THEN d + 2 ELSE Len(ls)) |->
     IF i = d + 2 THEN length ELSE IF i <= Len(ls) THEN ls[i] ELSE 0]

\* doc_lengths with entry d set, resized with zeros when it is too short.
SetLength(ls, d, length) ==
  [i \in 1 .. (IF d + 1 > Len(ls) THEN d + 1 ELSE Len(ls)) |->
     IF i = d + 1 THEN length ELSE IF i <= Len(ls) THEN ls[i] ELSE 0]

\* The term id of word w in vocabulary v.
IdOf(v, w) == (CHOOSE i \in DOMAIN v : v[i] = w) - 1

\* The postings of a document: term ids are the analyzer's, or the caller's.
PostingsOf(toks, v) ==
  {[term |-> IF analyzed THEN IdOf(v, toks[i].word) ELSE toks[i].word,
    val |-> toks[i].tf] : i \in DOMAIN toks}

-----------------------------------------------------------------------------
(***************************************************************************)
(* Opening and losing the builder                                          *)
(***************************************************************************)

Next0 == Len(docs)

\* BOWIndexBuilder::new or with_analyzer: the Indexer resumes from its
\* checkpoint, the lengths and the vocabulary start empty.  What an earlier
\* build left of the index is overwritten from now on.
OpenBow(f) ==
  /\ stage = "down"
  /\ frequency' = f
  /\ IF f > 0 /\ checkpoint # NoFile
     THEN /\ docs' = checkpoint.content
          /\ ckptDoc' = Len(checkpoint.content) - 1
     ELSE docs' = <<>> /\ ckptDoc' = NoDoc
  /\ first' = Len(docs')
  /\ lengths' = <<>>
  /\ vocab' = <<>>
  /\ index' = IF index = NoFile THEN NoFile ELSE Torn
  /\ stage' = "idle"
  /\ UNCHANGED <<asked, checkpoint, dat, cbor, vocabFile, batch, tokens>>

\* The process is lost; the files stay as they are.
LoseBuilder ==
  /\ stage \notin {"down", "returned"}
  /\ crashes < MaxCrashes
  /\ crashes' = crashes + 1
  /\ stage' = "down"
  /\ docs' = <<>> /\ ckptDoc' = NoDoc /\ first' = 0
  /\ lengths' = <<>> /\ vocab' = <<>>
  /\ batch' = {} /\ tokens' = <<>>
  /\ UNCHANGED <<collection, analyzed, frequency, files>>

-----------------------------------------------------------------------------
(***************************************************************************)
(* Adding documents                                                        *)
(***************************************************************************)

\* Mutant of Insert: term ids are the ranks of the words in their document.
InsertByRank(toks) ==
  /\ lengths' = SetLength(lengths, Next0, DocLength(toks))
  /\ vocab' = IF analyzed THEN GrowVocabulary(vocab, WordsOf(toks)) ELSE vocab
  /\ docs' = Append(docs, {[term |-> i - 1, val |-> toks[i].tf] : i \in DOMAIN toks})

\* A tokenised document takes its term ids, its length is recorded and its
\* postings go to the Indexer.
Insert(toks) ==
  /\ lengths' = SetLength(lengths, Next0, DocLength(toks))
  /\ vocab' = IF analyzed THEN GrowVocabulary(vocab, WordsOf(toks)) ELSE vocab
  /\ docs' = Append(docs, PostingsOf(toks, vocab'))

\* Indexer::add ends with a checkpoint when one is due.
CheckpointDue == frequency > 0 /\ Next0 >= frequency + (IF ckptDoc = NoDoc THEN 0 ELSE ckptDoc)

AfterInsert(otherwise) == stage' = IF CheckpointDue THEN "checkpoint" ELSE otherwise

\* add (terms given by the caller) or add_text (words, with an analyzer).
Add ==
  /\ stage = "idle"
  /\ Next0 < Len(collection)
  /\ Insert(Tokenize(collection[Next0 + 1]))
  /\ AfterInsert("idle")
  /\ UNCHANGED <<asked, files, opened, ckptDoc, batch, tokens>>

\* add_texts_batch is called with the n next documents.
BeginBatch(n) ==
  /\ stage = "idle" /\ analyzed
  /\ n > 1 /\ Next0 + n <= Len(collection)
  /\ batch' = Next0 .. Next0 + n - 1
  /\ stage' = "tokenising"
  /\ UNCHANGED <<asked, files, opened, inMemory, tokens>>

\* A worker tokenises one document of the batch: it only reads the analyzer.
TokenizeOne(d) ==
  /\ stage = "tokenising"
  /\ d \in batch \ DOMAIN tokens
  /\ tokens' = [e \in DOMAIN tokens \cup {d} |-> Tokenize(collection[e + 1])]
  /\ UNCHANGED <<asked, files, opened, inMemory, stage, batch>>

\* The results of the workers are collected in the order of the batch.
Collected ==
  /\ stage = "tokenising"
  /\ DOMAIN tokens = batch
  /\ stage' = "inserting"
  /\ UNCHANGED <<asked, files, opened, inMemory, batch, tokens>>

\* The next document of the batch is inserted, one after the other.
InsertNext ==
  /\ stage = "inserting"
  /\ batch # {}
  /\ Insert(tokens[Next0])
  /\ batch' = batch \ {Next0}
  /\ AfterInsert("inserting")
  /\ UNCHANGED <<asked, files, opened, ckptDoc, tokens>>

\* The last document of the batch is in.
EndBatch ==
  /\ stage = "inserting"
  /\ batch = {}
  /\ tokens' = <<>>
  /\ stage' = "idle"
  /\ UNCHANGED <<asked, files, opened, inMemory, batch>>

\* The Indexer replaces its checkpoint by one of the documents it has; the
\* lengths and the vocabulary are not part of it.
Checkpoint ==
  /\ stage = "checkpoint"
  /\ checkpoint' = Whole(docs)
  /\ ckptDoc' = Next0 - 1
  /\ stage' = IF DOMAIN tokens = {} THEN "idle" ELSE "inserting"
  /\ UNCHANGED <<asked, index, dat, cbor, vocabFile, opened, docs, lengths, vocab, batch, tokens>>

-----------------------------------------------------------------------------
(***************************************************************************)
(* build                                                                   *)
(***************************************************************************)

\* Indexer::build writes the metadata of the index ...
BuildIndex ==
  /\ stage = "idle"
  /\ Next0 = Len(collection)
  /\ index' = Whole(docs)
  /\ stage' = "build_clean"
  /\ UNCHANGED <<asked, checkpoint, dat, cbor, vocabFile, opened, inMemory, batch, tokens>>

\* ... and removes the checkpoint.
RemoveCheckpoint ==
  /\ stage = "build_clean"
  /\ checkpoint' = NoFile
  /\ stage' = "dat_write"
  /\ UNCHANGED <<asked, index, dat, cbor, vocabFile, opened, inMemory, batch, tokens>>

\* DocMetadata::save truncates docmeta.dat and its BufWriter hands over n lengths.
WriteLengths(n) ==
  /\ stage = "dat_write"
  /\ dat' = SubSeq(lengths, 1, n)
  /\ stage' = "dat_flush"
  /\ UNCHANGED <<asked, checkpoint, index, cbor, vocabFile, opened, inMemory, batch, tokens>>

\* Mutant of FlushLengths: docmeta.cbor is written with the lengths still buffered.
FlushNothing ==
  /\ stage = "dat_flush"
  /\ dat' = dat
  /\ cbor' = Torn
  /\ stage' = "cbor_write"
  /\ UNCHANGED <<asked, checkpoint, index, vocabFile, opened, inMemory, batch, tokens>>

\* The rest follows, and docmeta.cbor is created.
FlushLengths ==
  /\ stage = "dat_flush"
  /\ dat' = lengths
  /\ cbor' = Torn
  /\ stage' = "cbor_write"
  /\ UNCHANGED <<asked, checkpoint, index, vocabFile, opened, inMemory, batch, tokens>>

\* docmeta.cbor holds the number of documents; vocab.fst is created.
WriteInfo ==
  /\ stage = "cbor_write"
  /\ cbor' = Whole(Len(lengths))
  /\ vocabFile' = IF analyzed THEN Torn ELSE vocabFile
  /\ stage' = IF analyzed THEN "vocab_write" ELSE "returned"
  /\ UNCHANGED <<asked, checkpoint, index, dat, opened, inMemory, batch, tokens>>

\* save_vocab, and build returns.
SaveVocabulary ==
  /\ stage = "vocab_write"
  /\ vocabFile' = Whole(vocab)
  /\ stage' = "returned"
  /\ UNCHANGED <<asked, checkpoint, index, dat, cbor, opened, inMemory, batch, tokens>>

\* The caller has its index and stops.
Returned == stage = "returned" /\ UNCHANGED bowVars

-----------------------------------------------------------------------------
BowInit ==
  /\ collection \in Collections
  /\ analyzed \in BOOLEAN
  /\ crashes = 0
  /\ checkpoint = NoFile /\ index = NoFile
  /\ dat = <<>> /\ cbor = NoFile /\ vocabFile = NoFile
  /\ stage = "down"
  /\ frequency = 0 /\ first = 0 /\ ckptDoc = NoDoc
  /\ docs = <<>> /\ lengths = <<>> /\ vocab = <<>>
  /\ batch = {} /\ tokens = <<>>

BowNext ==
  \/ \E f \in Frequencies : OpenBow(f)
  \/ LoseBuilder
  \/ Add
  \/ \E n \in 2 .. MaxBatch : BeginBatch(n)
  \/ \E d \in batch : TokenizeOne(d)
  \/ Collected
  \/ InsertNext
  \/ EndBatch
  \/ Checkpoint
  \/ BuildIndex
  \/ RemoveCheckpoint
  \/ \E n \in 0 .. Len(lengths) : WriteLengths(n)
  \/ FlushLengths
  \/ WriteInfo
  \/ SaveVocabulary
  \/ Returned

BowSpec == BowInit /\ [][BowNext]_bowVars

-----------------------------------------------------------------------------
(***************************************************************************)
(* What a reader of the directory loads                                    *)
(***************************************************************************)

\* Mutant of LoadLengths: the size of docmeta.dat tells how many there are.
LoadLengthsBySize == IF cbor \notin {NoFile, Torn} THEN Whole(dat) ELSE NoFile

\* DocMetadata::load: as many lengths as docmeta.cbor says, or nothing.
LoadLengths ==
  IF cbor \notin {NoFile, Torn} /\ cbor.content <= Len(dat)
  THEN Whole(SubSeq(dat, 1, cbor.content))
  ELSE NoFile

\* The number of times word w occurs in document d, counted in the text.
Occurrences(w, d) == Cardinality({j \in DOMAIN collection[d + 1] : collection[d + 1][j] = w})

\* The frequency a reader finds for term t in document d of the index.
Frequency(t, d) ==
  LET found == {p \in index.content[d + 1] : p.term = t}
  IN  IF found = {} THEN 0 ELSE (CHOOSE p \in found : TRUE).val

-----------------------------------------------------------------------------
(***************************************************************************)
(* Properties                                                              *)
(***************************************************************************)

Ids == 0 .. Len(collection) - 1

\* The types of the builder's fields and of the files of its directory.
BowTypeOK ==
  /\ collection \in Collections /\ analyzed \in BOOLEAN
  /\ crashes \in 0 .. MaxCrashes /\ frequency \in Nat /\ first \in Nat
  /\ \A f \in {checkpoint, index} :
       \/ f \in {NoFile, Torn}
       \/ f.state = "complete" /\ Len(f.content) <= Len(collection)
  /\ dat \in Seq(Nat)
  /\ cbor \in {NoFile, Torn} \cup {Whole(n) : n \in 0 .. Len(collection)}
  /\ vocabFile \in {NoFile, Torn} \/ vocabFile.content \in Seq(Words)
  /\ ckptDoc \in Ids \cup {NoDoc}
  /\ Len(docs) <= Len(collection)
  /\ lengths \in Seq(Nat) /\ Len(lengths) <= Len(collection)
  /\ vocab \in Seq(Words)
  /\ batch \subseteq Ids /\ DOMAIN tokens \subseteq Ids

\* A build that was given every document (first = 0: nothing was resumed)
\* leaves lengths a reader loads, and they are those of the texts, whatever
\* crashed builds left in the directory; one that was resumed leaves those of
\* the documents it was given.
LengthsOfBuild ==
  /\ stage = "returned" /\ first = 0 =>
       LoadLengths = Whole([i \in DOMAIN collection |-> Len(collection[i])])
  /\ stage = "returned" /\ first < Len(collection) =>
       /\ LoadLengths # NoFile /\ Len(LoadLengths.content) = Len(collection)
       /\ \A i \in first + 1 .. Len(collection) : LoadLengths.content[i] = Len(collection[i])

\* Term ids depend on the collection only, whatever calls, batches and order of the
\* workers a build is made of.  In the end looking a word up in vocab.fst and its
\* term id in the index finds, for every document, how often the text has the word.
VocabularyOfBuild ==
  /\ analyzed /\ stage # "down" /\ first = 0 =>
       vocab = FoldLeft(GetOrInsert, <<>>, FlattenSeq(SubSeq(collection, 1, Next0)))
  /\ stage = "returned" /\ first = 0 /\ analyzed =>
       \A d \in 0 .. Len(collection) - 1 : \A w \in Words :
         Occurrences(w, d) =
           IF Contains(vocabFile.content, w) THEN Frequency(IdOf(vocabFile.content, w), d) ELSE 0

\* Whatever crashes leave of docmeta.dat and docmeta.cbor, a reader loads
\* lengths for all the documents or for none: a partly written docmeta.dat is
\* never taken for a shorter collection.  (None, when a build resumed after
\* the last document and had no lengths to write.)
LengthsAllOrNothing == LoadLengths # NoFile => Len(LoadLengths.content) \in {0, Len(collection)}

\* "automatically computes document lengths" (src/src/bow.rs:18), also when a
\* build resumes from a checkpoint: the lengths of all documents are right.
LengthsExact ==
  stage = "returned" => LoadLengths = Whole([i \in DOMAIN collection |-> Len(collection[i])])
=============================================================================
