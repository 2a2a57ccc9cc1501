-------------------------- MODULE DocStoreBuilder --------------------------
(***************************************************************************)
(* The checkpointed construction of a document store                       *)
(* (src/src/docstore/builder.rs) and what a reader finds in it             *)
(* (src/src/docstore/store.rs).                                            *)
(*                                                                         *)
(* A document takes size units of the block being filled; a block of n     *)
(* documents compresses to n chunks of content.dat; a record of blocks.dat *)
(* is a BlockMeta and a record of a key file is one line.  The temporary   *)
(* checkpoint file only ever becomes the checkpoint by a rename, so that   *)
(* dying while it is written is dying before CheckpointRename.             *)
(***************************************************************************)
EXTENDS Integers, Sequences, FiniteSets, Functions

CONSTANTS
  KeyNames,         \* the key fields documents may have
  KeyValues,        \* their values
  Documents,        \* the documents a caller may add: [keys, size]
  BlockSize,        \* block_size
  Callers           \* the callers there may be

Manual == -1        \* checkpoint_frequency = None

\* A caller: the values of checkpoint_frequency it may choose, whether its process
\* may die once build has removed a key file, and the bounds on its documents, on
\* the times the builder is lost and on the times it replaces one it still has.
Caller == [frequencies : SUBSET (Nat \cup {Manual}), interrupts : BOOLEAN,
           docs : Nat, crashes : Nat, reopens : Nat]

\* It keeps checkpoints in every session, so that each resumes the one before.
Resumes(c) == 0 \notin c.frequencies

\* A value is a name for a string, and never what zeros read as.
ASSUME DocStoreAssumption ==
  /\ Documents \subseteq [keys : UNION {[K -> KeyValues] : K \in SUBSET KeyNames}, size : Nat \ {0}]
  /\ 0 \notin KeyValues
  /\ BlockSize \in Nat \ {0}
  /\ Callers \subseteq Caller

-----------------------------------------------------------------------------
(***************************************************************************)
(* A file of records behind a BufWriter (std::fs::File and                 *)
(* std::io::BufWriter).  A file is the sequence of its records; a writer   *)
(* is the offset at of its file handle and the records held it has not     *)
(* handed over yet.                                                        *)
(***************************************************************************)
Nothing == [at |-> 0, held |-> <<>>]

WriterAt(n) == [at |-> n, held |-> <<>>]

\* Writing s into f at offset at; the gap left by a seek past the end is zeros.
WriteAt(f, at, s, zero) ==
  IF s = <<>> THEN f
  ELSE [i \in 1 .. (IF Len(f) > at + Len(s) THEN Len(f) ELSE at + Len(s)) |->
          IF at < i /\ i <= at + Len(s) THEN s[i - at]
          ELSE IF i <= Len(f) THEN f[i] ELSE zero]

\* File::set_len: the file is cut, or extended with zeros, to n records.
SetLen(f, n, zero) == [i \in 1 .. n |-> IF i <= Len(f) THEN f[i] ELSE zero]

\* write_all: the records are held.
Put(w, s) == [at |-> w.at, held |-> w.held \o s]

\* The first n held records are handed over: to the file, and off the writer.
Received(f, w, n, zero) == WriteAt(f, w.at, SubSeq(w.held, 1, n), zero)
HandedOver(w, n) == [at |-> w.at + n, held |-> SubSeq(w.held, n + 1, Len(w.held))]

\* flush, or the drop of the writer: all of them.
Flushed(f, w, zero) == Received(f, w, Len(w.held), zero)
Emptied(w) == HandedOver(w, Len(w.held))

-----------------------------------------------------------------------------
VARIABLES
  client,      \* the caller
  source,      \* the caller's collection, the documents it decided on so far
  losses,      \* [crashes, reopens] so far
  content,     \* content.dat
  blocks,      \* blocks.dat
  keyFile,     \* the .tmp_key_* files, empty when absent
  offsets,     \* offsets.dat
  fst,         \* the key_*.fst files
  meta,        \* docstore.cbor
  ckpt,        \* docstore_checkpoint.cbor
  phase,       \* where the process is, "down" when there is none
  freq,        \* options.checkpoint_frequency
  b,           \* the fields of the builder that a checkpoint saves
  last,        \* last_checkpoint_doc_count
  keyNames,    \* key_names
  out,         \* data_file, blocks_file
  keyOut,      \* key_files
  todo,        \* keys of the current document still to be written
  turn         \* loop index over key_names in build

caller == <<client, source, losses>>
built  == <<offsets, fst, meta>>
disk   == <<content, blocks, keyFile, built, ckpt>>
memory == <<freq, b, last, keyNames, out, keyOut, todo, turn>>
vars == <<client, source, losses, content, blocks, keyFile, offsets, fst, meta, ckpt, phase,
          freq, b, last, keyNames, out, keyOut, todo, turn>>

Absent == [state |-> "absent"]

\* What reads as zeros.
NoChunk == [block |-> <<>>, part |-> 0, parts |-> 0]
NoBlock == [offset |-> 0, size |-> 0, docs |-> 0]
NoLine  == [value |-> 0, doc |-> 0]

\* A builder that holds nothing.
NewBuilder == [numBlocks |-> 0, numDocs |-> 0, contentOffset |-> 0, index |-> <<>>,
               intra |-> <<>>, block |-> <<>>, count |-> 0]
NewOut    == [data |-> Nothing, blocks |-> Nothing]
NewKeyOut == [k \in KeyNames |-> Nothing]

Running == phase \notin {"down", "built", "failed"}

-----------------------------------------------------------------------------
(***************************************************************************)
(* Opening                                                                 *)
(***************************************************************************)

Recovering(f) == f # 0 /\ ckpt.state = "complete"

\* The length of the temporary file of key k in the checkpoint.
SavedLength(k) == ckpt.lengths[CHOOSE i \in 1 .. Len(ckpt.names) : ckpt.names[i] = k]

\* resume: the files, cut back to the checkpoint.
Rewound ==
  [content |-> SetLen(content, ckpt.b.contentOffset, NoChunk),
   blocks  |-> SetLen(blocks, ckpt.b.numBlocks, NoBlock),
   keyFile |-> [k \in KeyNames |-> IF k \in Range(ckpt.names)
                                   THEN SetLen(keyFile[k], SavedLength(k), NoLine)
                                   ELSE keyFile[k]]]

\* resume: the builder the checkpoint holds, every writer at the end of its file.
ResumeBuilder ==
  /\ b' = ckpt.b
  /\ last' = ckpt.b.numDocs
  /\ keyNames' = ckpt.names
  /\ out' = [data |-> WriterAt(ckpt.b.contentOffset), blocks |-> WriterAt(ckpt.b.numBlocks)]
  /\ keyOut' = [k \in KeyNames |-> IF k \in Range(ckpt.names) THEN WriterAt(SavedLength(k)) ELSE Nothing]

\* fresh: a builder that holds nothing.
FreshBuilder ==
  /\ b' = NewBuilder
  /\ last' = 0
  /\ keyNames' = <<>>
  /\ out' = NewOut
  /\ keyOut' = NewKeyOut

\* A new process resumes from the checkpoint.
StartResume(f) ==
  /\ phase = "down"
  /\ Recovering(f)
  /\ ResumeBuilder
  /\ content' = Rewound.content
  /\ blocks' = Rewound.blocks
  /\ keyFile' = Rewound.keyFile
  /\ freq' = f
  /\ phase' = "idle"
  /\ UNCHANGED <<caller, built, ckpt, todo, turn>>

\* A new process starts afresh: it truncates content.dat and blocks.dat ...
StartFresh(f) ==
  /\ phase = "down"
  /\ ~Recovering(f)
  /\ FreshBuilder
  /\ content' = <<>>
  /\ blocks' = <<>>
  /\ freq' = f
  /\ phase' = "fresh"
  /\ UNCHANGED <<caller, keyFile, built, ckpt, todo, turn>>

\* ... and then removes what a checkpointed run left.
FreshClean ==
  /\ phase = "fresh"
  /\ ckpt' = Absent
  /\ phase' = "idle"
  /\ UNCHANGED <<caller, content, blocks, keyFile, built, memory>>

\* The caller replaces its builder by a new one on the same directory: the new
\* one is opened first, then the writers of the old one are dropped.
Reopen(f) ==
  /\ phase = "idle"
  /\ losses.reopens < client.reopens
  /\ losses' = [crashes |-> losses.crashes, reopens |-> losses.reopens + 1]
  /\ LET opened == IF Recovering(f) THEN Rewound
                   ELSE [content |-> <<>>, blocks |-> <<>>, keyFile |-> keyFile]
     IN /\ content' = Flushed(opened.content, out.data, NoChunk)
        /\ blocks' = Flushed(opened.blocks, out.blocks, NoBlock)
        /\ keyFile' = [k \in KeyNames |-> Flushed(opened.keyFile[k], keyOut[k], NoLine)]
  /\ \/ Recovering(f) /\ ResumeBuilder /\ UNCHANGED ckpt
     \/ ~Recovering(f) /\ FreshBuilder /\ ckpt' = Absent
  /\ freq' = f
  /\ UNCHANGED <<client, source, built, phase, todo, turn>>

-----------------------------------------------------------------------------
(***************************************************************************)
(* Writing                                                                 *)
(***************************************************************************)

\* A BufWriter hands a prefix of what it holds to the operating system.
SpillContent(n) ==
  /\ Running /\ n <= Len(out.data.held)
  /\ content' = Received(content, out.data, n, NoChunk)
  /\ out' = [data |-> HandedOver(out.data, n), blocks |-> out.blocks]
  /\ UNCHANGED <<caller, blocks, keyFile, built, ckpt, phase, freq, b, last, keyNames, keyOut, todo, turn>>

SpillBlocks(n) ==
  /\ Running /\ n <= Len(out.blocks.held)
  /\ blocks' = Received(blocks, out.blocks, n, NoBlock)
  /\ out' = [data |-> out.data, blocks |-> HandedOver(out.blocks, n)]
  /\ UNCHANGED <<caller, content, keyFile, built, ckpt, phase, freq, b, last, keyNames, keyOut, todo, turn>>

SpillKey(k, n) ==
  /\ Running /\ n <= Len(keyOut[k].held)
  /\ keyFile' = [keyFile EXCEPT ![k] = Received(@, keyOut[k], n, NoLine)]
  /\ keyOut' = [keyOut EXCEPT ![k] = HandedOver(@, n)]
  /\ UNCHANGED <<caller, content, blocks, built, ckpt, phase, freq, b, last, keyNames, out, todo, turn>>

\* A document in the block, and a block of n documents in content.dat.
Encode(d) == [i \in 1 .. d.size |-> [doc |-> d, part |-> i]]
Compress(block, n) == [i \in 1 .. n |-> [block |-> block, part |-> i, parts |-> n]]

\* Mutant of FlushBlock: the offset of the next block is not moved.
FlushBlockInPlace(c, o) ==
  IF c.block = <<>> THEN b' = c /\ out' = o
  ELSE LET chunks == Compress(c.block, c.count)
       IN /\ out' = [data |-> Put(o.data, chunks),
                     blocks |-> Put(o.blocks, <<[offset |-> c.contentOffset, size |-> Len(chunks),
                                                docs |-> c.count]>>)]
          /\ b' = [numBlocks |-> c.numBlocks + 1, numDocs |-> c.numDocs,
                   contentOffset |-> c.contentOffset,
                   index |-> c.index, intra |-> c.intra, block |-> <<>>, count |-> 0]

\* flush_block: the block of builder c goes to the writers o.
FlushBlock(c, o) ==
  IF c.block = <<>> THEN b' = c /\ out' = o
  ELSE LET chunks == Compress(c.block, c.count)
       IN /\ out' = [data |-> Put(o.data, chunks),
                     blocks |-> Put(o.blocks, <<[offset |-> c.contentOffset, size |-> Len(chunks),
                                                docs |-> c.count]>>)]
          /\ b' = [numBlocks |-> c.numBlocks + 1, numDocs |-> c.numDocs,
                   contentOffset |-> c.contentOffset + Len(chunks),
                   index |-> c.index, intra |-> c.intra, block |-> <<>>, count |-> 0]

-----------------------------------------------------------------------------
(***************************************************************************)
(* Adding documents                                                        *)
(***************************************************************************)

\* The caller hands document num_documents() to add: again, or a new one.
BeginAdd(d) ==
  /\ phase = "idle"
  /\ IF b.numDocs < Len(source)
     THEN d = source[b.numDocs + 1] /\ UNCHANGED source
     ELSE Len(source) < client.docs /\ source' = Append(source, d)
  /\ b' = [numBlocks |-> b.numBlocks, numDocs |-> b.numDocs, contentOffset |-> b.contentOffset,
           index |-> Append(b.index, b.numBlocks), intra |-> Append(b.intra, Len(b.block)),
           block |-> b.block \o Encode(d), count |-> b.count]
  /\ todo' = DOMAIN d.keys
  /\ phase' = "adding"
  /\ UNCHANGED <<client, losses, disk, freq, last, keyNames, out, keyOut, turn>>

\* One key of the document: its file is created when this builder meets the
\* key for the first time, and a line is written.
AddKey(k) ==
  /\ phase = "adding"
  /\ k \in todo
  /\ LET line == [value |-> source[b.numDocs + 1].keys[k], doc |-> b.numDocs]
     IN IF k \in Range(keyNames)
        THEN /\ keyOut' = [keyOut EXCEPT ![k] = Put(@, <<line>>)]
             /\ UNCHANGED <<keyFile, keyNames>>
        ELSE /\ keyFile' = [keyFile EXCEPT ![k] = <<>>]
             /\ keyNames' = Append(keyNames, k)
             /\ keyOut' = [keyOut EXCEPT ![k] = Put(Nothing, <<line>>)]
  /\ todo' = todo \ {k}
  /\ UNCHANGED <<caller, content, blocks, built, ckpt, phase, freq, b, last, out, turn>>

\* Mutant of EndAdd: a document that fills the block is counted twice.
EndAddCountsTwice ==
  /\ phase = "adding"
  /\ todo = {}
  /\ LET more == IF Len(b.block) >= BlockSize THEN 2 ELSE 1
         c == [numBlocks |-> b.numBlocks, numDocs |-> b.numDocs + more,
               contentOffset |-> b.contentOffset, index |-> b.index, intra |-> b.intra,
               block |-> b.block, count |-> b.count + 1]
     IN IF Len(b.block) >= BlockSize THEN FlushBlock(c, out) ELSE b' = c /\ out' = out
  /\ phase' = IF freq > 0 /\ b'.numDocs - last >= freq THEN "ckpt" ELSE "idle"
  /\ UNCHANGED <<caller, disk, freq, last, keyNames, keyOut, todo, turn>>

\* The end of add: the document counts, a full block is flushed, and a
\* checkpoint may be due.
EndAdd ==
  /\ phase = "adding"
  /\ todo = {}
  /\ LET c == [numBlocks |-> b.numBlocks, numDocs |-> b.numDocs + 1,
               contentOffset |-> b.contentOffset, index |-> b.index, intra |-> b.intra,
               block |-> b.block, count |-> b.count + 1]
     IN IF Len(b.block) >= BlockSize THEN FlushBlock(c, out) ELSE b' = c /\ out' = out
  /\ phase' = IF freq > 0 /\ b'.numDocs - last >= freq THEN "ckpt" ELSE "idle"
  /\ UNCHANGED <<caller, disk, freq, last, keyNames, keyOut, todo, turn>>

-----------------------------------------------------------------------------
(***************************************************************************)
(* checkpoint                                                              *)
(***************************************************************************)

\* The caller may ask for a checkpoint between two documents.
CallCheckpoint ==
  /\ phase = "idle"
  /\ phase' = "ckpt"
  /\ UNCHANGED <<caller, disk, memory>>

\* Mutant of CheckpointFlush: the key files are left in their BufWriters.
CheckpointFlushFiles ==
  /\ phase = "ckpt"
  /\ content' = Flushed(content, out.data, NoChunk)
  /\ blocks' = Flushed(blocks, out.blocks, NoBlock)
  /\ out' = [data |-> Emptied(out.data), blocks |-> Emptied(out.blocks)]
  /\ phase' = "ckpt_rename"
  /\ UNCHANGED <<caller, keyFile, built, ckpt, freq, b, last, keyNames, keyOut, todo, turn>>

\* Every writer is flushed.
CheckpointFlush ==
  /\ phase = "ckpt"
  /\ content' = Flushed(content, out.data, NoChunk)
  /\ blocks' = Flushed(blocks, out.blocks, NoBlock)
  /\ keyFile' = [k \in KeyNames |-> Flushed(keyFile[k], keyOut[k], NoLine)]
  /\ out' = [data |-> Emptied(out.data), blocks |-> Emptied(out.blocks)]
  /\ keyOut' = [k \in KeyNames |-> Emptied(keyOut[k])]
  /\ phase' = "ckpt_rename"
  /\ UNCHANGED <<caller, built, ckpt, freq, b, last, keyNames, todo, turn>>

\* The state saved: the length of a key file is that of the file itself.
Snapshot == [state |-> "complete", b |-> b, names |-> keyNames,
             lengths |-> [i \in 1 .. Len(keyNames) |-> Len(keyFile[keyNames[i]])]]

CheckpointRename ==
  /\ phase = "ckpt_rename"
  /\ ckpt' = Snapshot
  /\ last' = b.numDocs
  /\ phase' = "idle"
  /\ UNCHANGED <<caller, content, blocks, keyFile, built, freq, b, keyNames, out, keyOut, todo, turn>>

-----------------------------------------------------------------------------
(***************************************************************************)
(* build                                                                   *)
(***************************************************************************)

\* The caller builds once its whole collection was added: the last block is
\* flushed, then content.dat and blocks.dat.
BeginBuild ==
  /\ phase = "idle"
  /\ b.numDocs = Len(source)
  /\ FlushBlock(b, out)
  /\ phase' = "build_flush"
  /\ UNCHANGED <<caller, disk, freq, last, keyNames, keyOut, todo, turn>>

BuildFlush ==
  /\ phase = "build_flush"
  /\ content' = Flushed(content, out.data, NoChunk)
  /\ blocks' = Flushed(blocks, out.blocks, NoBlock)
  /\ out' = [data |-> Emptied(out.data), blocks |-> Emptied(out.blocks)]
  /\ phase' = "build_offsets"
  /\ UNCHANGED <<caller, keyFile, built, ckpt, freq, b, last, keyNames, keyOut, todo, turn>>

\* Mutant of BuildOffsets: the checkpoint is removed already.
BuildOffsetsCleansFirst ==
  /\ phase = "build_offsets"
  /\ offsets' = b.index \o b.intra
  /\ keyFile' = [k \in KeyNames |-> Flushed(keyFile[k], keyOut[k], NoLine)]
  /\ keyOut' = [k \in KeyNames |-> Emptied(keyOut[k])]
  /\ ckpt' = Absent
  /\ turn' = 1
  /\ phase' = "build_keys"
  /\ UNCHANGED <<caller, content, blocks, fst, meta, freq, b, last, keyNames, out, todo>>

\* offsets.dat is written, and the key files are closed.
BuildOffsets ==
  /\ phase = "build_offsets"
  /\ offsets' = b.index \o b.intra
  /\ keyFile' = [k \in KeyNames |-> Flushed(keyFile[k], keyOut[k], NoLine)]
  /\ keyOut' = [k \in KeyNames |-> Emptied(keyOut[k])]
  /\ turn' = 1
  /\ phase' = "build_keys"
  /\ UNCHANGED <<caller, content, blocks, fst, meta, ckpt, freq, b, last, keyNames, out, todo>>

\* Reading lines: zeros run into the line that follows them, and become part
\* of the value it starts with; zeros that no line follows do not parse.
ZerosBefore(f, i) == Cardinality({j \in 1 .. i - 1 : \A l \in j .. i - 1 : f[l] = NoLine})
Entries(f) == {[zeros |-> ZerosBefore(f, i), value |-> f[i].value, doc |-> f[i].doc, line |-> i] :
                 i \in {j \in 1 .. Len(f) : f[j] # NoLine}}
Unparsable(f) == f # <<>> /\ f[Len(f)] = NoLine

\* Two entries have the same key value.
Duplicated(f) == \E e, g \in Entries(f) :
                   e.line # g.line /\ e.zeros = g.zeros /\ e.value = g.value

Refused(f) == Unparsable(f) \/ Duplicated(f)

\* The next key: its entries become key_*.fst and its temporary file goes, or
\* the build returns an error; either way the builder is gone.
BuildKey ==
  /\ phase = "build_keys"
  /\ turn <= Len(keyNames)
  /\ LET k == keyNames[turn]
     IN IF Refused(keyFile[k])
        THEN /\ phase' = "failed"
             /\ fst' = IF Unparsable(keyFile[k]) THEN fst ELSE [fst EXCEPT ![k] = {}]
             /\ UNCHANGED <<keyFile, turn>>
        ELSE /\ fst' = [fst EXCEPT ![k] = {[zeros |-> e.zeros, value |-> e.value, doc |-> e.doc] :
                                             e \in Entries(keyFile[k])}]
             /\ keyFile' = [keyFile EXCEPT ![k] = <<>>]
             /\ turn' = turn + 1
             /\ UNCHANGED phase
  /\ UNCHANGED <<caller, content, blocks, offsets, meta, ckpt, freq, b, last, keyNames, out, keyOut, todo>>

\* docstore.cbor
BuildMeta ==
  /\ phase = "build_keys"
  /\ turn > Len(keyNames)
  /\ meta' = [state |-> "complete", numDocs |-> b.numDocs, names |-> keyNames]
  /\ phase' = "build_clean"
  /\ UNCHANGED <<caller, content, blocks, keyFile, offsets, fst, ckpt, memory>>

\* The checkpoint is removed.
BuildClean ==
  /\ phase = "build_clean"
  /\ ckpt' = Absent
  /\ phase' = "built"
  /\ UNCHANGED <<caller, content, blocks, keyFile, built, memory>>

-----------------------------------------------------------------------------
(***************************************************************************)
(* Process death, and the specification                                    *)
(***************************************************************************)

\* build has begun to remove what a checkpoint counts on.
Publishing == phase = "build_clean" \/ (phase \in {"build_keys", "failed"} /\ turn > 1)

\* The process dies: the files stay.
Crash ==
  /\ Running
  /\ Publishing => client.interrupts
  /\ losses.crashes < client.crashes
  /\ losses' = [crashes |-> losses.crashes + 1, reopens |-> losses.reopens]
  /\ phase' = "down"
  /\ freq' = 0
  /\ b' = NewBuilder
  /\ last' = 0
  /\ keyNames' = <<>>
  /\ out' = NewOut
  /\ keyOut' = NewKeyOut
  /\ todo' = {}
  /\ turn' = 0
  /\ UNCHANGED <<client, source, disk>>

\* build has returned.
Finished == phase \in {"built", "failed"} /\ UNCHANGED vars

Init ==
  /\ client \in Callers
  /\ source = <<>>
  /\ losses = [crashes |-> 0, reopens |-> 0]
  /\ content = <<>>
  /\ blocks = <<>>
  /\ keyFile = [k \in KeyNames |-> <<>>]
  /\ offsets = <<>>
  /\ fst = [k \in KeyNames |-> {}]
  /\ meta = Absent
  /\ ckpt = Absent
  /\ phase = "down"
  /\ freq = 0
  /\ b = NewBuilder
  /\ last = 0
  /\ keyNames = <<>>
  /\ out = NewOut
  /\ keyOut = NewKeyOut
  /\ todo = {}
  /\ turn = 0

Next ==
  \/ \E f \in client.frequencies : StartResume(f) \/ StartFresh(f) \/ Reopen(f)
  \/ FreshClean
  \/ \E n \in 1 .. Len(out.data.held) : SpillContent(n)
  \/ \E n \in 1 .. Len(out.blocks.held) : SpillBlocks(n)
  \/ \E k \in KeyNames : \E n \in 1 .. Len(keyOut[k].held) : SpillKey(k, n)
  \/ \E d \in Documents : BeginAdd(d)
  \/ \E k \in KeyNames : AddKey(k)
  \/ EndAdd
  \/ CallCheckpoint \/ CheckpointFlush \/ CheckpointRename
  \/ BeginBuild \/ BuildFlush \/ BuildOffsets \/ BuildKey \/ BuildMeta \/ BuildClean
  \/ Crash
  \/ Finished

Spec == Init /\ [][Next]_vars

-----------------------------------------------------------------------------
(***************************************************************************)
(* What a reader finds                                                     *)
(***************************************************************************)

NoDocument == [keys |-> <<>>, size |-> 0]

\* decompress_block: the block these chunks are, when they are one.
Decompress(chunks) ==
  IF chunks # <<>> /\ chunks = Compress(chunks[1].block, Len(chunks)) THEN chunks[1].block ELSE <<>>

\* decode_document_at: the document that starts at offset at of a block.
DecodeAt(block, at) ==
  IF at + 1 \in DOMAIN block /\ block[at + 1].part = 1
     /\ SubSeq(block, at + 1, at + block[at + 1].doc.size) = Encode(block[at + 1].doc)
  THEN block[at + 1].doc ELSE NoDocument

\* The block number x of these files, decompressed.
ReadBlock(bs, cs, x) ==
  IF x + 1 \in DOMAIN bs /\ bs[x + 1].offset + bs[x + 1].size <= Len(cs)
  THEN Decompress(SubSeq(cs, bs[x + 1].offset + 1, bs[x + 1].offset + bs[x + 1].size))
  ELSE <<>>

\* get_by_number of one number, in a store of n documents with these files.
GetByNumber(n, offs, bs, cs, d) ==
  IF {d + 1, n + d + 1} \subseteq DOMAIN offs
  THEN DecodeAt(ReadBlock(bs, cs, offs[d + 1]), offs[n + d + 1])
  ELSE NoDocument

\* get_by_number of several numbers: refused as a whole when one is out of range;
\* the requests are grouped by block, each block is decompressed once, and each
\* document takes the place of its request.
GetByNumbers(nums) ==
  LET n == meta.numDocs
      groups == {[read |-> ReadBlock(blocks, content, x),
                  wanted |-> {i \in DOMAIN nums : offsets[nums[i] + 1] = x}] :
                   x \in {offsets[nums[i] + 1] : i \in DOMAIN nums}}
  IN IF \E i \in DOMAIN nums : nums[i] >= n
     THEN <<NoDocument>>
     ELSE [i \in DOMAIN nums |->
             DecodeAt((CHOOSE g \in groups : i \in g.wanted).read, offsets[n + nums[i] + 1])]

\* fst.get: the document numbers a value of key k leads to.
GetByKey(k, v) == {e.doc : e \in {g \in fst[k] : g.zeros = 0 /\ g.value = v}}

\* get_by_key of several values: one document, or none, per value; the values that
\* are found are fetched together and go back to the places they were asked from.
GetByKeys(k, vals) ==
  LET found == {i \in DOMAIN vals : GetByKey(k, vals[i]) # {}}
      asked == CHOOSE s \in [1 .. Cardinality(found) -> found] :
                 \A i, j \in DOMAIN s : i < j => s[i] < s[j]
      docs == GetByNumbers([j \in DOMAIN asked |-> CHOOSE d \in GetByKey(k, vals[asked[j]]) : TRUE])
  IN [i \in DOMAIN vals |-> IF i \in found THEN docs[CHOOSE j \in DOMAIN asked : asked[j] = i]
                            ELSE NoDocument]

\* The numbers of the documents below n whose key k has value v.
Having(k, v, n) == {d \in 0 .. n - 1 : k \in DOMAIN source[d + 1].keys /\ source[d + 1].keys[k] = v}

\* The store holds exactly the collection, under its numbers and its keys.
Readable ==
  /\ meta.state = "complete"
  /\ meta.numDocs = Len(source)
  /\ \A d \in 0 .. Len(source) - 1 :
       GetByNumber(meta.numDocs, offsets, blocks, content, d) = source[d + 1]
  /\ Range(meta.names) = UNION {DOMAIN source[d].keys : d \in 1 .. Len(source)}
  /\ \A k \in Range(meta.names), v \in KeyValues : GetByKey(k, v) = Having(k, v, Len(source))
  /\ \A nums \in [1 .. 2 -> 0 .. Len(source)] :
       GetByNumbers(nums) = IF Len(source) \in Range(nums) THEN <<NoDocument>>
                            ELSE [i \in 1 .. 2 |-> source[nums[i] + 1]]
  /\ \A k \in KeyNames, v \in KeyValues : Cardinality(Having(k, v, Len(source))) <= 1
  /\ \A k \in Range(meta.names), vals \in [1 .. 2 -> KeyValues] :
       GetByKeys(k, vals) = [i \in 1 .. 2 |->
                               IF Having(k, vals[i], Len(source)) = {} THEN NoDocument
                               ELSE source[(CHOOSE d \in Having(k, vals[i], Len(source)) : TRUE) + 1]]

\* The lines a key file has after the documents below n.
LinesOf(k, n) == {[value |-> source[d + 1].keys[k], doc |-> d] :
                    d \in {e \in 0 .. n - 1 : k \in DOMAIN source[e + 1].keys}}

-----------------------------------------------------------------------------
(***************************************************************************)
(* Properties                                                              *)
(***************************************************************************)

Phases == {"down", "fresh", "idle", "adding", "ckpt", "ckpt_rename", "build_flush",
           "build_offsets", "build_keys", "build_clean", "built", "failed"}

DocBlock == Seq([doc : Documents, part : Nat])
Chunk    == [block : DocBlock, part : Nat, parts : Nat]
Record   == [offset : Nat, size : Nat, docs : Nat]
Line     == [value : KeyValues, doc : Nat] \cup {NoLine}
Writer(S) == [at : Nat, held : Seq(S)]
Builder  == [numBlocks : Nat, numDocs : Nat, contentOffset : Nat, index : Seq(Nat),
             intra : Seq(Nat), block : DocBlock, count : Nat]

\* The types of the fields of DocumentStoreBuilder and of the files of the store.
TypeOK ==
  /\ client \in Callers /\ source \in Seq(Documents)
  /\ losses \in [crashes : 0 .. client.crashes, reopens : 0 .. client.reopens]
  /\ content \in Seq(Chunk) /\ blocks \in Seq(Record)
  /\ keyFile \in [KeyNames -> Seq(Line)]
  /\ offsets \in Seq(Nat)
  /\ fst \in [KeyNames -> SUBSET [zeros : Nat, value : KeyValues, doc : Nat]]
  /\ meta \in [state : {"complete"}, numDocs : Nat, names : Seq(KeyNames)] \cup {Absent}
  /\ ckpt \in [state : {"complete"}, b : Builder, names : Seq(KeyNames), lengths : Seq(Nat)] \cup {Absent}
  /\ phase \in Phases
  /\ freq \in Nat \cup {Manual}
  /\ b \in Builder /\ b.numDocs <= Len(source) /\ last \in 0 .. b.numDocs
  /\ keyNames \in Seq(KeyNames)
  /\ out \in [data : Writer(Chunk), blocks : Writer(Record)]
  /\ keyOut \in [KeyNames -> Writer(Line)]
  /\ todo \subseteq KeyNames
  /\ turn \in 0 .. Len(keyNames) + 1

\* After build, every document is found under its number and under each of its
\* keys, and nothing else is, whatever crashes and resumptions came before.
StoreFaithful == phase = "built" => Readable

\* Until build removes a key file, the files cut back to the checkpoint are those
\* of the documents it counts: each is read back, from the files or from the
\* block being filled, and each key file has one line per document, once.
CheckpointConsistent ==
  ckpt.state = "complete" /\ ~Publishing =>
    /\ ckpt.b.numDocs <= Len(source)
    /\ \A d \in 0 .. ckpt.b.numDocs - 1 :
         source[d + 1] = IF ckpt.b.index[d + 1] = ckpt.b.numBlocks
                         THEN DecodeAt(ckpt.b.block, ckpt.b.intra[d + 1])
                         ELSE GetByNumber(ckpt.b.numDocs, ckpt.b.index \o ckpt.b.intra,
                                          Rewound.blocks, Rewound.content, d)
    /\ \A k \in KeyNames :
         /\ LinesOf(k, ckpt.b.numDocs) # {} <=> k \in Range(ckpt.names)
         /\ k \in Range(ckpt.names) =>
              /\ Range(Rewound.keyFile[k]) = LinesOf(k, ckpt.b.numDocs)
              /\ IsInjective(Rewound.keyFile[k])

\* build refuses a collection only because two documents share a key value.
RefusedOnlyDuplicates ==
  phase = "failed" => \E k \in KeyNames, v \in KeyValues : Cardinality(Having(k, v, Len(source))) > 1

\* A session ends with a store that reads back the collection, or with the refusal
\* of two documents that share a key value.
SessionsEndFaithfully == StoreFaithful /\ RefusedOnlyDuplicates

\* A caller that resumes finds what its checkpoint counts: every document below
\* it, in the files or in the block being filled, and its key lines once.
ResumableFromCheckpoint == Resumes(client) => CheckpointConsistent

\* Its checkpoint goes away only for a store that reads back the collection.
CheckpointOutlivesSessions ==
  [][Resumes(client) /\ ckpt.state = "complete" /\ ckpt'.state # "complete" => Readable]_vars
=============================================================================
