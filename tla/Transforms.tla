----------------------------- MODULE Transforms -----------------------------
(***************************************************************************)
(* The directories transforms read from and write to, one file after the   *)
(* other, in an order that is the program's.  A target may hold the files  *)
(* of an earlier transform, finished or interrupted: nothing removes them  *)
(* but the writes that happen to use the same names.                       *)
(*                                                                         *)
(* Postings are told apart by the collection they were indexed from and    *)
(* by the document each internal id stands for: ids[i] is the document the *)
(* caller knows the i-th one as.  A file that is missing is Absent, one    *)
(* that was truncated and is not whole yet Short.                          *)
(***************************************************************************)
EXTENDS Naturals, Sequences, FiniteSets

CONSTANTS
  Absent, Short, NumDocs,
  Sources,      \* directories of finished forward indexes
  Targets,      \* directories transforms write to
  Indexed,      \* what each source has: [lengths, positions, analyzer]
  Order,        \* the order the bisection finds: the old id of each new one
  MaxJobs, MaxCrashes

Docs == 0 .. NumDocs - 1

Dirs == Sources \cup Targets

\* What files of postings and of lengths hold, and an index.bin.
Contents == [of : Sources, ids : [Docs -> Docs]]

BinContents == [postings : Contents, positions : BOOLEAN]

TransformsAssumption ==
  /\ MaxJobs \in Nat /\ MaxCrashes \in Nat
  /\ NumDocs \in Nat /\ Order \in [Docs -> Docs] /\ \A d \in Docs : \E i \in Docs : Order[i] = d
  /\ IsFiniteSet(Dirs) /\ Sources \cap Targets = {}
  /\ \A s \in Sources : DOMAIN Indexed[s] = {"lengths", "positions", "analyzer"}
  /\ Absent # Short
  /\ \A none \in {Absent, Short} :
       /\ none \notin Dirs /\ none \notin Contents /\ none \notin BinContents
       /\ none \notin {"forward", "compressed", "split", "information"}

VARIABLES
  disk,         \* the files of every directory
  inodes,       \* the content of each vocabulary file: links share one
  plan,         \* the writes the running transform has still to do
  wrote,        \* ghost: what the last transform of a target to finish was asked
  job,          \* ghost: the running transform
  jobs, crashes

vars == <<disk, inodes, plan, wrote, job, jobs, crashes>>

-----------------------------------------------------------------------------
(***************************************************************************)
(* The files of a directory and what load_index makes of them.             *)
(***************************************************************************)
\* The directory itself, and the one a split index keeps its postings in.
Levels == {"top", "inner"}

NoFiles ==
  [manifest |-> Absent, information |-> Absent, cbor |-> Absent, bin |-> Absent,
   docids |-> Absent, impacts |-> Absent, positions |-> Absent, lengths |-> Absent,
   lengthsInfo |-> Absent, map |-> Absent, vocab |-> Absent, analyzer |-> Absent]

There(content) == content # Absent
Whole(content) == content \notin {Absent, Short}

\* What DocMetadata::load finds: both files, whole, or nothing.
LengthsIn(files) ==
  IF Whole(files.lengths) /\ Whole(files.lengthsInfo) THEN files.lengths ELSE Absent

MapIn(files) == IF Whole(files.map) THEN files.map ELSE Absent
AnalyzerIn(files) == IF Whole(files.analyzer) THEN files.analyzer ELSE Absent

\* What a forward index is once loaded: positions are there if their file is.
LoadedForward(files) ==
  [postings |-> files.information, docids |-> files.docids, impacts |-> files.docids,
   lengths |-> LengthsIn(files), map |-> Absent, analyzer |-> AnalyzerIn(files),
   positions |-> files.positions, vocab |-> files.vocab]

\* Of a compressed one, both the codec in index.bin and the file are needed.
LoadedPositions(files) ==
  IF There(files.positions) /\ files.bin.positions THEN files.positions ELSE Absent

LoadedCompressed(files) ==
  [postings |-> files.bin.postings, docids |-> files.docids, impacts |-> files.impacts,
   lengths |-> LengthsIn(files), map |-> MapIn(files), analyzer |-> AnalyzerIn(files),
   positions |-> LoadedPositions(files), vocab |-> files.vocab]

\* A split index answers for its postings and the map of the inner index alone.
LoadedSplit(inner) ==
  [inner EXCEPT !.lengths = Absent, !.analyzer = Absent, !.positions = Absent, !.vocab = Absent]

ManifestAccepted(files) == files.manifest # Short

CompressedOpens(files) ==
  /\ ManifestAccepted(files) /\ files.information = Absent
  /\ files.cbor = "compressed"
  /\ Whole(files.bin) /\ There(files.docids) /\ There(files.impacts)

ForwardOpens(files) ==
  ManifestAccepted(files) /\ Whole(files.information) /\ There(files.docids)

SplitOpens(directory) ==
  /\ ManifestAccepted(directory["top"]) /\ directory["top"].information = Absent
  /\ directory["top"].cbor = "split"
  /\ CompressedOpens(directory["inner"])

\* load_index returns for these directories and panics for the others.
Opens(directory) ==
  ForwardOpens(directory["top"]) \/ CompressedOpens(directory["top"]) \/ SplitOpens(directory)

load_index(directory) ==
  IF ForwardOpens(directory["top"]) THEN LoadedForward(directory["top"])
  ELSE IF CompressedOpens(directory["top"]) THEN LoadedCompressed(directory["top"])
  ELSE LoadedSplit(LoadedCompressed(directory["inner"]))

\* The document a search answers with for the internal id i.
Answered(index, i) == IF index.map = Absent THEN i ELSE index.map[i]

-----------------------------------------------------------------------------

\* A transform and the sinks it delegates to, the outermost first; each ends in
\* a compression.
Pipelines == {<<>>, <<"reorder">>, <<"split">>, <<"reorder", "split">>, <<"split", "reorder">>}

\* The calls that also copy the lengths and the vocabulary: Index.compress and
\* Index.reorder.
Calls == {"process", "compress", "reorder"}

Write(path, file, content) == [path |-> path, file |-> file, content |-> content]

\* Open with truncate, then write.
Rewrite(path, file, content) == <<Write(path, file, Short), Write(path, file, content)>>

\* What a view is to a transform.
ViewOf(index) ==
  [postings |-> index.postings, lengths |-> index.lengths, positions |-> index.positions # Absent]

Renumbered(content) == [content EXCEPT !.ids = [i \in Docs |-> content.ids[Order[i]]]]

\* A reordered view renumbers postings and lengths, and has no positions.
ReorderedIndexView(view) ==
  [postings |-> Renumbered(view.postings), positions |-> FALSE,
   lengths |-> IF view.lengths = Absent THEN Absent ELSE Renumbered(view.lengths)]

SplitIndexView(view) == [view EXCEPT !.positions = FALSE]

\* A lossy codec cannot keep the runs of positions apart, nor can a reordered
\* view carry them: the transform returns an error before it writes.
Refused(pipeline, view, lossless) ==
  /\ view.positions
  /\ \/ pipeline = <<>> /\ ~lossless
     \/ pipeline # <<>> /\ Head(pipeline) = "reorder"

\* index.bin, the manifest and index.cbor are written before the buffers of the
\* two data files are dropped, which writes their last bytes.
Compress(path, view) ==
  <<Write(path, "impacts", Short), Write(path, "docids", Short)>>
    \o (IF view.positions THEN Rewrite(path, "positions", view.postings) ELSE <<>>)
    \o Rewrite(path, "bin", [postings |-> view.postings, positions |-> view.positions])
    \o Rewrite(path, "manifest", "compressed")
    \o Rewrite(path, "cbor", "compressed")
    \o <<Write(path, "docids", view.postings), Write(path, "impacts", view.postings)>>

SaveLengths(path, lengths) ==
  IF lengths = Absent THEN <<>>
  ELSE Rewrite(path, "lengths", lengths) \o Rewrite(path, "lengthsInfo", "information")

\* What a reordering writes once its sink is done.
AfterReorder(path, view) ==
  SaveLengths(path, ReorderedIndexView(view).lengths) \o Rewrite(path, "map", Order)

AfterSplit(path) == Rewrite(path, "manifest", "split") \o Rewrite(path, "cbor", "split")

\* Where the n-th transform of a pipeline writes, and the view it is given.  A
\* pipeline has at most two transforms before its compression.
PathOf(target, pipeline, n) ==
  <<target, IF \E i \in 1 .. n - 1 : pipeline[i] = "split" THEN "inner" ELSE "top">>

Through(step, view) == IF step = "reorder" THEN ReorderedIndexView(view) ELSE SplitIndexView(view)

ViewAt(pipeline, n, view) ==
  LET second == IF n > 1 THEN Through(pipeline[1], view) ELSE view
  IN IF n > 2 THEN Through(pipeline[2], second) ELSE second

After(target, pipeline, n, view) ==
  IF n > Len(pipeline) THEN <<>>
  ELSE IF pipeline[n] = "split" THEN AfterSplit(PathOf(target, pipeline, n))
  ELSE AfterReorder(PathOf(target, pipeline, n), ViewAt(pipeline, n, view))

\* The compression at the end of the pipeline writes first, the outermost last.
process(target, pipeline, view) ==
  LET last == Len(pipeline) + 1
  IN Compress(PathOf(target, pipeline, last), ViewAt(pipeline, last, view))
       \o After(target, pipeline, 2, view) \o After(target, pipeline, 1, view)

\* Mutant of link_or_copy: a file already there is kept.
LinkUnlessThere(path, vocab, linked) ==
  IF There(disk[path[1]][path[2]].vocab) THEN <<>> ELSE <<Write(path, "vocab", vocab)>>

\* Mutant of link_or_copy: a copy goes over whatever has the name.
CopyOver(path, vocab, linked) ==
  IF linked /\ ~There(disk[path[1]][path[2]].vocab) THEN <<Write(path, "vocab", vocab)>>
  ELSE Rewrite(path, "words", vocab)

\* An existing file is removed, then a link is made or, across file systems, a copy:
\* "vocab" is the file as the directory has it, "words" what is written through it.
link_or_copy(path, vocab, linked) ==
  <<Write(path, "vocab", Absent)>>
    \o (IF linked THEN <<Write(path, "vocab", vocab)>>
        ELSE Rewrite(path, "words", vocab))

save_vocab_and_analyzer(path, index, linked) ==
  IF index.analyzer = Absent THEN <<>>
  ELSE (IF There(index.vocab) THEN link_or_copy(path, index.vocab, linked)
        ELSE <<Write(path, "vocab", Absent)>>)
       \o Rewrite(path, "analyzer", index.analyzer)

save_auxiliary(path, index, linked) ==
  SaveLengths(path, index.lengths) \o save_vocab_and_analyzer(path, index, linked)

\* Transform.process copies nothing, Index.reorder all but the lengths, which
\* the transform has written.
Auxiliary(call, path, index, linked) ==
  CASE call = "process" -> <<>>
    [] call = "compress" -> save_auxiliary(path, index, linked)
    [] call = "reorder" -> save_vocab_and_analyzer(path, index, linked)

-----------------------------------------------------------------------------

Original(source) == [of |-> source, ids |-> [d \in Docs |-> d]]

\* A finished forward index; its vocabulary is the inode of its own name.
ForwardFiles(source) ==
  [NoFiles EXCEPT
    !.manifest = "forward", !.information = Original(source), !.docids = Original(source),
    !.positions = IF Indexed[source].positions THEN Original(source) ELSE Absent,
    !.lengths = IF Indexed[source].lengths THEN Original(source) ELSE Absent,
    !.lengthsInfo = IF Indexed[source].lengths THEN "information" ELSE Absent,
    !.analyzer = IF Indexed[source].analyzer THEN source ELSE Absent,
    !.vocab = IF Indexed[source].analyzer THEN source ELSE Absent]

Idle == [target |-> Absent]

Init ==
  /\ disk = [dir \in Dirs |-> [level \in Levels |->
               IF dir \in Sources /\ level = "top" THEN ForwardFiles(dir) ELSE NoFiles]]
  /\ inodes = [i \in Dirs |-> i]
  /\ plan = <<>> /\ job = Idle
  /\ wrote = [t \in Targets |-> Idle]
  /\ jobs = 0 /\ crashes = 0

\* A damaged index makes the transform that reads it panic: see Crash.
Readable(dir) ==
  /\ Opens(disk[dir])
  /\ LET index == load_index(disk[dir])
     IN index.docids = index.postings /\ index.impacts = index.postings

\* The words of the terms of an index.
WordsOf(index) == IF There(index.vocab) THEN inodes[index.vocab] ELSE Absent

\* A call on an index loaded from one directory, towards another.
Start(from, target, pipeline, call, lossless, linked) ==
  /\ job = Idle /\ jobs < MaxJobs
  /\ from # target /\ Readable(from)
  /\ call = "compress" => pipeline = <<>>
  /\ call = "reorder" => pipeline = <<"reorder">>
  /\ LET index == load_index(disk[from])
         view == ViewOf(index)
         path == <<target, "top">>
     IN /\ ~Refused(pipeline, view, lossless)
        /\ plan' = process(target, pipeline, view) \o Auxiliary(call, path, index, linked)
        /\ job' = [target |-> target, pipeline |-> pipeline, call |-> call, index |-> index,
                   words |-> WordsOf(index)]
  /\ wrote' = [wrote EXCEPT ![target] = Idle]
  /\ jobs' = jobs + 1
  /\ UNCHANGED <<disk, inodes, crashes>>

\* An inode no directory links to.
FreshInode ==
  CHOOSE i \in Dirs : \A dir \in DOMAIN disk : disk[dir]["top"].vocab # i

\* A vocabulary that is copied is written through the link that is there, if any.
WriteVocab(path, content) ==
  LET there == disk[path[1]]["top"].vocab
      inode == IF There(there) THEN there ELSE FreshInode
  IN /\ disk' = [disk EXCEPT ![path[1]]["top"].vocab = inode]
     /\ inodes' = [inodes EXCEPT ![inode] =
                     IF content = Short THEN Short ELSE inodes[content]]

\* The next write reaches the disk.
WriteNext ==
  /\ plan # <<>>
  /\ LET w == Head(plan)
     IN IF w.file = "words"
        THEN WriteVocab(w.path, w.content)
        ELSE /\ disk' = [disk EXCEPT ![w.path[1]][w.path[2]][w.file] = w.content]
             /\ UNCHANGED inodes
  /\ plan' = Tail(plan)
  /\ UNCHANGED <<wrote, job, jobs, crashes>>

\* The call returns.
Finish ==
  /\ plan = <<>> /\ job # Idle
  /\ wrote' = [wrote EXCEPT ![job.target] = job]
  /\ job' = Idle
  /\ UNCHANGED <<disk, inodes, plan, jobs, crashes>>

\* The process stops: by a crash, an I/O error or a panic in what it reads.
Crash ==
  /\ job # Idle /\ crashes < MaxCrashes
  /\ plan' = <<>> /\ job' = Idle /\ crashes' = crashes + 1
  /\ UNCHANGED <<disk, inodes, wrote, jobs>>

Next ==
  \/ \E from \in Dirs, target \in Targets, pipeline \in Pipelines,
        call \in Calls, lossless, linked \in BOOLEAN :
       Start(from, target, pipeline, call, lossless, linked)
  \/ WriteNext
  \/ Finish
  \/ Crash

Spec == Init /\ [][Next]_vars

-----------------------------------------------------------------------------

\* The state is well-formed: writes go to a target, by the transform under way.
TransformsTypeOK ==
  /\ \A dir \in Dirs, level \in Levels :
       DOMAIN disk[dir][level] = DOMAIN NoFiles
  /\ inodes \in [Dirs -> Dirs \cup {Short}]
  /\ \A i \in DOMAIN plan : plan[i].path[1] = job.target
  /\ jobs \in 0 .. MaxJobs /\ crashes \in 0 .. MaxCrashes

\* The targets whose last transform finished.
Done == {t \in Targets : wrote[t] # Idle}

Result(t) == load_index(disk[t])

\* The view the last transform of a target compressed.
Compressed(t) ==
  LET pipeline == wrote[t].pipeline
  IN ViewAt(pipeline, Len(pipeline) + 1, ViewOf(wrote[t].index))

\* A transform that finished leaves an index that opens, and its postings and its
\* positions are those of the index it was given.
PostingsKept(t) ==
  /\ Opens(disk[t])
  /\ LET index == Result(t)
     IN /\ index.postings = Compressed(t).postings
        /\ index.docids = index.postings /\ index.impacts = index.postings
        /\ index.positions = IF Compressed(t).positions THEN index.postings ELSE Absent

\* Index.compress, Index.reorder and a reordering that compresses keep the lengths.
LengthsWritten(asked) ==
  /\ asked.call # "process" \/ asked.pipeline = <<"reorder">>
  /\ asked.index.lengths # Absent

\* The lengths of the documents follow their ids, in the order of the postings.
LengthsKept(t) == LengthsWritten(wrote[t]) => Result(t).lengths = Compressed(t).lengths

VocabularyWritten(asked) ==
  asked.call # "process" /\ asked.index.analyzer # Absent /\ There(asked.index.vocab)

\* After Index.compress and Index.reorder the terms of the index have the words
\* they had in the index it was made from.
VocabularyKept(t) ==
  VocabularyWritten(wrote[t]) => inodes[Result(t).vocab] = wrote[t].words

\* A call that returns leaves the whole of what it was asked, whatever an earlier
\* transform, finished or interrupted, left in the directory.
TransformComplete == \A t \in Done : PostingsKept(t) /\ LengthsKept(t) /\ VocabularyKept(t)

\* A transform does not write to a source, through a link it made to it neither.
SourcesKept ==
  \A s \in Sources :
    /\ disk'[s] = disk[s]
    /\ LET vocab == disk[s]["top"].vocab IN There(vocab) => inodes'[vocab] = inodes[vocab]

\* The doc of the search module: results "are translated back to the original
\* document ids", so that callers never see those of a reordered index.
AnswersWithOriginalIds ==
  \A t \in Done : \A i \in Docs : Answered(Result(t), i) = Result(t).postings.ids[i]
=============================================================================
