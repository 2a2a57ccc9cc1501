------------------------------ MODULE Indexer ------------------------------
(***************************************************************************)
(* The checkpointed construction of a forward index (src/src/builder.rs):  *)
(* one Indexer adds the caller's documents, flushes the postings of a term *)
(* as a page of postings.dat when too many are held in memory, writes      *)
(* checkpoint.cbor every few documents and, in build, the metadata a       *)
(* reader needs.  The process may die between any two steps; what survives *)
(* is what the files hold.                                                 *)
(*                                                                         *)
(* A file of fixed-size records is a sequence of records, and a position   *)
(* counts records.  BufWriter is the buffer buf in front of the file       *)
(* offset cursor; the operating system keeps what reached the file.        *)
(* Positions (BuilderOptions::positions) are off: postings.dat only.       *)
(***************************************************************************)
EXTENDS Integers, Sequences, FiniteSetsExt

CONSTANTS
  NumTerms,       \* number of distinct term indices
  Documents,      \* the documents a caller may add: [Terms -> impact], 0 = absent
  MaxDocs,        \* bound: documents in the caller's collection
  Frequencies,    \* values of checkpoint_frequency the caller may choose
  Threshold,      \* in_memory_threshold
  CkptThreshold,  \* in_memory_threshold * checkpoint_flush_ratio
  MaxCrashes      \* bound: times the indexer is lost and opened again

Terms == 0 .. NumTerms - 1

ASSUME IndexerAssumption ==
  /\ NumTerms \in Nat \ {0}
  /\ Documents \subseteq [Terms -> Nat]
  /\ MaxDocs \in Nat
  /\ Frequencies \subseteq Nat
  /\ Threshold \in Nat
  /\ CkptThreshold \in Nat
  /\ MaxCrashes \in Nat

VARIABLES
  source,      \* the caller's collection, the documents it decided on so far
  next,        \* the document the caller adds next
  crashes,     \* times the indexer was lost
  file,        \* postings.dat
  ckpt,        \* checkpoint.cbor
  tmp,         \* checkpoint.cbor.tmp
  info,        \* information.bin
  manifest,    \* the index manifest
  phase,       \* where the process is, "down" when there is none
  freq,        \* options.checkpoint_frequency
  ckptDoc,     \* checkpoint_doc_id
  terms,       \* information.terms
  mem,         \* postings_information
  pos,         \* postings_file_position
  cursor, buf, \* postings_file: offset of the file, content of the BufWriter
  todo,        \* terms of the current document still to be added
  scan         \* loop index of the flush loops

caller   == <<source, crashes>>
disk     == <<ckpt, tmp, info, manifest>>
postings == <<terms, mem, pos, buf>>
vars == <<source, next, crashes, file, ckpt, tmp, info, manifest, phase, freq,
          ckptDoc, terms, mem, pos, cursor, buf, todo, scan>>

NoDoc  == -1
Absent == [state |-> "absent"]
Torn   == [state |-> "torn"]

Larger(a, b) == IF a >= b THEN a ELSE b

NoPosting == [doc |-> 0, val |-> 0]
NewTerm   == [pages |-> <<>>, length |-> 0, maxVal |-> 0, maxDoc |-> 0]
NewMem    == [held |-> <<>>, maxVal |-> 0]

\* Writing s into f at offset at; the gap left by a seek past the end is zeros.
Overwrite(f, at, s) ==
  [i \in 1 .. Larger(Len(f), at + Len(s)) |->
     IF at < i /\ i <= at + Len(s) THEN s[i - at]
     ELSE IF i <= Len(f) THEN f[i] ELSE NoPosting]

Running == phase \notin {"down", "built"}

-----------------------------------------------------------------------------
(***************************************************************************)
(* Opening                                                                 *)
(***************************************************************************)

\* TermsImpacts::new with no checkpoint to read: everything starts empty.
OpenFresh ==
  /\ ckptDoc' = NoDoc
  /\ terms' = [t \in Terms |-> NewTerm]
  /\ mem' = [t \in Terms |-> NewMem]
  /\ pos' = 0
  /\ cursor' = 0
  /\ next' = 0

\* Mutant of OpenCheckpoint: postings.dat is not moved to the saved offset.
OpenCheckpointWithoutSeek ==
  /\ ckptDoc' = ckpt.doc
  /\ terms' = ckpt.terms
  /\ mem' = ckpt.mem
  /\ pos' = ckpt.pos
  /\ cursor' = 0
  /\ next' = ckpt.doc + 1

\* Mutant of OpenCheckpoint: the checkpointed document is asked for again.
OpenCheckpointRepeats ==
  /\ ckptDoc' = ckpt.doc
  /\ terms' = ckpt.terms
  /\ mem' = ckpt.mem
  /\ pos' = ckpt.pos
  /\ cursor' = ckpt.pos
  /\ next' = ckpt.doc

\* TermsImpacts::new reading checkpoint.cbor and seeking to its offset.
OpenCheckpoint ==
  /\ ckptDoc' = ckpt.doc
  /\ terms' = ckpt.terms
  /\ mem' = ckpt.mem
  /\ pos' = ckpt.pos
  /\ cursor' = ckpt.pos
  /\ next' = ckpt.doc + 1

\* Mutant of Open: an existing checkpoint is not looked for.
OpenIgnoringCheckpoint(f) ==
  /\ freq' = f
  /\ phase' = "idle"
  /\ buf' = <<>>
  /\ todo' = {}
  /\ scan' = 0
  /\ OpenFresh

\* Opens the index with checkpoint frequency f, where old is postings.dat.
Open(f) ==
  /\ freq' = f
  /\ phase' = "idle"
  /\ buf' = <<>>
  /\ todo' = {}
  /\ scan' = 0
  /\ \/ /\ f > 0 /\ ckpt.state = "complete"
        /\ OpenCheckpoint
     \/ /\ f = 0 \/ ckpt.state # "complete"
        /\ OpenFresh

\* A new process opens the directory; frequency 0 truncates postings.dat.
Start(f) ==
  /\ phase = "down"
  /\ Open(f)
  /\ file' = IF f = 0 THEN <<>> ELSE file
  /\ UNCHANGED <<caller, disk>>

\* The caller replaces its indexer by a new one on the same directory: the
\* new one is opened first, then the old one is dropped and its BufWriter
\* writes what it held at the offset it had.
Reopen(f) ==
  /\ phase = "idle"
  /\ crashes < MaxCrashes
  /\ crashes' = crashes + 1
  /\ Open(f)
  /\ file' = LET opened == IF f = 0 THEN <<>> ELSE file
             IN  IF buf = <<>> THEN opened ELSE Overwrite(opened, cursor, buf)
  /\ UNCHANGED <<source, disk>>

-----------------------------------------------------------------------------
(***************************************************************************)
(* The postings writer                                                     *)
(***************************************************************************)

\* The BufWriter hands a prefix of what it holds to the operating system.
Spill(n) ==
  /\ Running
  /\ n <= Len(buf)
  /\ file' = Overwrite(file, cursor, SubSeq(buf, 1, n))
  /\ cursor' = cursor + n
  /\ buf' = SubSeq(buf, n + 1, Len(buf))
  /\ UNCHANGED <<caller, next, disk, phase, freq, ckptDoc, terms, mem, pos, todo, scan>>

\* The page the held postings m become, at the end of what was written.
PageOf(m) == [pos |-> pos, length |-> Len(m.held), maxVal |-> m.maxVal,
              maxDoc |-> m.held[Len(m.held)].doc]

\* Mutant of AddPage: the postings of the page are counted a second time.
AddPageRecounts(ti, p) == [pages |-> Append(ti.pages, p), length |-> ti.length + p.length,
                           maxVal |-> ti.maxVal, maxDoc |-> ti.maxDoc]

AddPage(ti, p) == [pages |-> Append(ti.pages, p), length |-> ti.length,
                   maxVal |-> ti.maxVal, maxDoc |-> ti.maxDoc]

\* flush: the held postings m of a term with information ti become a page.
Flush(t, ti, m) ==
  /\ terms' = [terms EXCEPT ![t] = AddPage(ti, PageOf(m))]
  /\ mem' = [mem EXCEPT ![t] = NewMem]
  /\ buf' = buf \o m.held
  /\ pos' = pos + Len(m.held)

\* One iteration of a loop over the terms that flushes those holding at
\* least least postings (flush returns at once when there are none).
FlushScanned(least) ==
  /\ scan < NumTerms
  /\ scan' = scan + 1
  /\ IF Len(mem[scan].held) >= Larger(least, 1)
     THEN Flush(scan, terms[scan], mem[scan])
     ELSE UNCHANGED postings

\* postings_file.flush(): everything written so far reaches the file.
Sync ==
  /\ scan = NumTerms
  /\ file' = Overwrite(file, cursor, buf)
  /\ cursor' = cursor + Len(buf)
  /\ buf' = <<>>

-----------------------------------------------------------------------------
(***************************************************************************)
(* Adding documents                                                        *)
(***************************************************************************)

\* The caller hands document next to add: again after a restart, or a new one.
BeginAdd(d) ==
  /\ phase = "idle"
  /\ IF next < Len(source)
     THEN d = source[next + 1] /\ UNCHANGED source
     ELSE Len(source) < MaxDocs /\ source' = Append(source, d)
  /\ phase' = "adding"
  /\ todo' = {t \in Terms : d[t] > 0}
  /\ UNCHANGED <<next, crashes, file, disk, freq, ckptDoc, postings, cursor, scan>>

\* The assertion of add_impact: document ids increase within a term.
DocIncreasing(t) == terms[t].length = 0 \/ terms[t].maxDoc < next

\* The information of a term, and what is held of it, with one more posting.
CountPosting(ti, d, val) ==
  [pages |-> ti.pages, length |-> ti.length + 1, maxVal |-> Larger(ti.maxVal, val), maxDoc |-> d]

HoldPosting(m, d, val) ==
  [held |-> Append(m.held, [doc |-> d, val |-> val]), maxVal |-> Larger(m.maxVal, val)]

\* add_impact for one of the terms of the current document.
AddImpact(t) ==
  /\ phase = "adding"
  /\ t \in todo
  /\ DocIncreasing(t)
  /\ LET val == source[next + 1][t]
         ti  == CountPosting(terms[t], next, val)
         m   == HoldPosting(mem[t], next, val)
     IN IF Len(m.held) > Threshold
        THEN Flush(t, ti, m)
        ELSE /\ terms' = [terms EXCEPT ![t] = ti]
             /\ mem' = [mem EXCEPT ![t] = m]
             /\ UNCHANGED <<pos, buf>>
  /\ todo' = todo \ {t}
  /\ UNCHANGED <<caller, next, file, disk, phase, freq, ckptDoc, cursor, scan>>

\* checkpoint_doc_id.unwrap_or(0)
LastCheckpoint == IF ckptDoc = NoDoc THEN 0 ELSE ckptDoc

CheckpointDue == freq > 0 /\ next >= freq + LastCheckpoint

\* The end of add: the document is in, and a checkpoint may be due.
EndAdd ==
  /\ phase = "adding"
  /\ todo = {}
  /\ next' = next + 1
  /\ phase' = IF CheckpointDue THEN "ckpt_flush" ELSE "idle"
  /\ scan' = 0
  /\ UNCHANGED <<caller, file, disk, freq, ckptDoc, postings, cursor, todo>>

-----------------------------------------------------------------------------
(***************************************************************************)
(* checkpoint                                                              *)
(***************************************************************************)

CheckpointFlush ==
  /\ phase = "ckpt_flush"
  /\ FlushScanned(CkptThreshold)
  /\ UNCHANGED <<caller, next, file, disk, phase, freq, ckptDoc, cursor, todo>>

\* Mutant of CheckpointCreate: postings_file is not flushed.
CheckpointCreateUnflushed ==
  /\ phase = "ckpt_flush"
  /\ scan = NumTerms
  /\ tmp' = Torn
  /\ phase' = "ckpt_write"
  /\ UNCHANGED <<caller, next, file, ckpt, info, manifest, freq, ckptDoc, postings, cursor, todo, scan>>

\* Mutant of CheckpointCreate: the file must not exist yet (create_new).
CheckpointCreateNew ==
  /\ phase = "ckpt_flush"
  /\ tmp = Absent
  /\ Sync
  /\ tmp' = Torn
  /\ phase' = "ckpt_write"
  /\ UNCHANGED <<caller, next, ckpt, info, manifest, freq, ckptDoc, terms, mem, pos, todo, scan>>

\* The files are flushed and checkpoint.cbor.tmp is created, still empty.
CheckpointCreate ==
  /\ phase = "ckpt_flush"
  /\ Sync
  /\ tmp' = Torn
  /\ phase' = "ckpt_write"
  /\ UNCHANGED <<caller, next, ckpt, info, manifest, freq, ckptDoc, terms, mem, pos, todo, scan>>

\* Mutant of Snapshot: it names the document to come, not the last one added.
SnapshotOfNext == [state |-> "complete", terms |-> terms, mem |-> mem, pos |-> pos, doc |-> next]

\* What checkpoint.cbor holds: the metadata, the held postings, the offset in
\* postings.dat and the last document added.
Snapshot == [state |-> "complete", terms |-> terms, mem |-> mem, pos |-> pos, doc |-> next - 1]

CheckpointWrite ==
  /\ phase = "ckpt_write"
  /\ tmp' = Snapshot
  /\ phase' = "ckpt_rename"
  /\ UNCHANGED <<caller, next, file, ckpt, info, manifest, freq, ckptDoc, postings, cursor, todo, scan>>

CheckpointRename ==
  /\ phase = "ckpt_rename"
  /\ ckpt' = tmp
  /\ tmp' = Absent
  /\ ckptDoc' = next - 1
  /\ phase' = "idle"
  /\ UNCHANGED <<caller, next, file, info, manifest, freq, postings, cursor, todo, scan>>

-----------------------------------------------------------------------------
(***************************************************************************)
(* build                                                                   *)
(***************************************************************************)

\* Mutant of BeginBuild: flush_all starts at the second term.
BeginBuildAtOne ==
  /\ phase = "idle"
  /\ next = Len(source)
  /\ phase' = "build_flush"
  /\ scan' = 1
  /\ UNCHANGED <<caller, next, file, disk, freq, ckptDoc, postings, cursor, todo>>

\* The caller builds once its whole collection has been added.
BeginBuild ==
  /\ phase = "idle"
  /\ next = Len(source)
  /\ phase' = "build_flush"
  /\ scan' = 0
  /\ UNCHANGED <<caller, next, file, disk, freq, ckptDoc, postings, cursor, todo>>

BuildFlush ==
  /\ phase = "build_flush"
  /\ FlushScanned(1)
  /\ UNCHANGED <<caller, next, file, disk, phase, freq, ckptDoc, cursor, todo>>

\* Mutant of BuildCreate: the checkpoint is removed before the metadata is written.
BuildCreateCleansFirst ==
  /\ phase = "build_flush"
  /\ Sync
  /\ info' = Torn
  /\ ckpt' = Absent
  /\ phase' = "build_write"
  /\ UNCHANGED <<caller, next, tmp, manifest, freq, ckptDoc, terms, mem, pos, todo, scan>>

\* flush_all ends, built is set and information.bin is created, still empty.
BuildCreate ==
  /\ phase = "build_flush"
  /\ Sync
  /\ info' = Torn
  /\ phase' = "build_write"
  /\ UNCHANGED <<caller, next, ckpt, tmp, manifest, freq, ckptDoc, terms, mem, pos, todo, scan>>

\* information.bin is written (and the stub information.cbor beside it).
BuildWrite ==
  /\ phase = "build_write"
  /\ info' = [state |-> "complete", terms |-> terms]
  /\ phase' = "build_clean"
  /\ UNCHANGED <<caller, next, file, ckpt, tmp, manifest, freq, ckptDoc, postings, cursor, todo, scan>>

\* checkpoint.cbor is removed, then checkpoint.cbor.tmp.
BuildClean ==
  /\ \/ /\ phase = "build_clean"
        /\ ckpt' = Absent
        /\ phase' = "build_clean_tmp"
        /\ UNCHANGED tmp
     \/ /\ phase = "build_clean_tmp"
        /\ tmp' = Absent
        /\ phase' = "build_manifest"
        /\ UNCHANGED ckpt
  /\ UNCHANGED <<caller, next, file, info, manifest, freq, ckptDoc, postings, cursor, todo, scan>>

BuildManifest ==
  /\ phase = "build_manifest"
  /\ manifest' = TRUE
  /\ phase' = "built"
  /\ UNCHANGED <<caller, next, file, ckpt, tmp, info, freq, ckptDoc, postings, cursor, todo, scan>>

-----------------------------------------------------------------------------
(***************************************************************************)
(* Process death, and the specification                                    *)
(***************************************************************************)

\* The process dies: the files stay, the memory and the BufWriter are lost.
Crash ==
  /\ Running
  /\ crashes < MaxCrashes
  /\ crashes' = crashes + 1
  /\ phase' = "down"
  /\ next' = 0
  /\ freq' = 0
  /\ ckptDoc' = NoDoc
  /\ terms' = [t \in Terms |-> NewTerm]
  /\ mem' = [t \in Terms |-> NewMem]
  /\ pos' = 0
  /\ cursor' = 0
  /\ buf' = <<>>
  /\ todo' = {}
  /\ scan' = 0
  /\ UNCHANGED <<source, file, disk>>

\* The index is built: the indexer accepts no further change.
Finished == phase = "built" /\ UNCHANGED vars

Init ==
  /\ source = <<>>
  /\ next = 0
  /\ crashes = 0
  /\ file = <<>>
  /\ ckpt = Absent
  /\ tmp = Absent
  /\ info = Absent
  /\ manifest = FALSE
  /\ phase = "down"
  /\ freq = 0
  /\ ckptDoc = NoDoc
  /\ terms = [t \in Terms |-> NewTerm]
  /\ mem = [t \in Terms |-> NewMem]
  /\ pos = 0
  /\ cursor = 0
  /\ buf = <<>>
  /\ todo = {}
  /\ scan = 0

Checkpointing == CheckpointFlush \/ CheckpointCreate \/ CheckpointWrite \/ CheckpointRename
Building == BeginBuild \/ BuildFlush \/ BuildCreate \/ BuildWrite \/ BuildClean \/ BuildManifest

Next ==
  \/ \E f \in Frequencies : Start(f)
  \/ \E f \in Frequencies : Reopen(f)
  \/ \E n \in 1 .. Len(buf) : Spill(n)
  \/ \E d \in Documents : BeginAdd(d)
  \/ \E t \in Terms : AddImpact(t)
  \/ EndAdd
  \/ Checkpointing
  \/ Building
  \/ Crash
  \/ Finished

Spec == Init /\ [][Next]_vars

\* One thread runs new, add and build to their end; the caller gives up only
\* when it dies, reopens what it lost, and ends by building.
Fairness ==
  /\ WF_vars(\E f \in Frequencies : Start(f))
  /\ WF_vars((\E d \in Documents : BeginAdd(d)) \/ BeginBuild)
  /\ WF_vars(\E t \in Terms : AddImpact(t))
  /\ WF_vars(EndAdd \/ Checkpointing)
  /\ WF_vars(BuildFlush \/ BuildCreate \/ BuildWrite \/ BuildClean \/ BuildManifest)

FairSpec == Spec /\ Fairness

-----------------------------------------------------------------------------
(***************************************************************************)
(* What the files and the memory must say about the collection             *)
(***************************************************************************)

\* The documents below n in which term t occurs.
Occurs(t, n) == {d \in 0 .. n - 1 : source[d + 1][t] > 0}

\* Record r is the posting of a document below n for term t.
IsPosting(r, t, n) == r.doc \in Occurs(t, n) /\ r.val = source[r.doc + 1][t]

\* Every record of the pages in f, and every held one, is a posting of t.
Sound(f, pages, held, t, n) ==
  /\ \A k \in 1 .. Len(pages) : \A i \in 1 .. pages[k].length :
       IsPosting(f[pages[k].pos + i], t, n)
  /\ \A i \in 1 .. Len(held) : IsPosting(held[i], t, n)

\* Every document in which t occurs is in a page or held.
Complete(f, pages, held, t, n) ==
  \A d \in Occurs(t, n) :
    \/ \E k \in 1 .. Len(pages) : \E i \in 1 .. pages[k].length :
         f[pages[k].pos + i].doc = d
    \/ \E i \in 1 .. Len(held) : held[i].doc = d

\* Documents increase within a page, from page to page, and on to what is held.
Ordered(f, pages, held) ==
  /\ \A k \in 1 .. Len(pages) : \A i, j \in 1 .. pages[k].length :
       i < j => f[pages[k].pos + i].doc < f[pages[k].pos + j].doc
  /\ \A k, l \in 1 .. Len(pages) : \A j \in 1 .. pages[l].length :
       k < l => pages[k].maxDoc < f[pages[l].pos + j].doc
  /\ \A k \in 1 .. Len(pages) : \A j \in 1 .. Len(held) :
       pages[k].maxDoc < held[j].doc
  /\ \A i, j \in 1 .. Len(held) : i < j => held[i].doc < held[j].doc

\* What is held respects the bounds of the page to come and of the term.
HeldBounded(m, top) ==
  /\ m.maxVal <= top
  /\ \A i \in 1 .. Len(m.held) : m.held[i].val <= m.maxVal

\* A page describes records of f: where they are, their last document and a
\* bound on their values, itself below the bound of the term.
Described(f, pages, top) ==
  \A k \in 1 .. Len(pages) :
    /\ pages[k].length > 0
    /\ pages[k].pos + pages[k].length <= Len(f)
    /\ pages[k].maxDoc = f[pages[k].pos + pages[k].length].doc
    /\ pages[k].maxVal <= top
    /\ \A i \in 1 .. pages[k].length : f[pages[k].pos + i].val <= pages[k].maxVal

\* The pages ti describes in f, then m, are the postings of t below document n.
Faithful(f, ti, m, t, n) ==
  /\ Described(f, ti.pages, ti.maxVal)
  /\ HeldBounded(m, ti.maxVal)
  /\ Sound(f, ti.pages, m.held, t, n)
  /\ Complete(f, ti.pages, m.held, t, n)
  /\ Ordered(f, ti.pages, m.held)

\* information.bin, read with postings.dat, is the index of the n first documents.
Readable(n) ==
  /\ info.state = "complete"
  /\ \A t \in Terms : Faithful(file, info.terms[t], NewMem, t, n)

\* checkpoint.cbor, resumed with postings.dat, continues after document ckpt.doc.
Resumable ==
  /\ ckpt.doc < Len(source)
  /\ ckpt.pos <= Len(file)
  /\ \A t \in Terms : Faithful(SubSeq(file, 1, ckpt.pos), ckpt.terms[t], ckpt.mem[t], t, ckpt.doc + 1)

\* length, max_doc_id and max_value of term t are those of its postings below n.
Exact(ti, t, n) ==
  /\ ti.length = Cardinality(Occurs(t, n))
  /\ Occurs(t, n) # {} => ti.maxDoc = Max(Occurs(t, n))
  /\ Occurs(t, n) # {} => ti.maxVal = Max({source[d + 1][t] : d \in Occurs(t, n)})

-----------------------------------------------------------------------------
(***************************************************************************)
(* Properties                                                              *)
(***************************************************************************)

Phases == {"down", "idle", "adding", "ckpt_flush", "ckpt_write", "ckpt_rename",
           "build_flush", "build_write", "build_clean", "build_clean_tmp",
           "build_manifest", "built"}

Posting  == [doc : Nat, val : Nat]
Page     == [pos : Nat, length : Nat, maxVal : Nat, maxDoc : Nat]
TermInfo == [Terms -> [pages : Seq(Page), length : Nat, maxVal : Nat, maxDoc : Nat]]
TermMem  == [Terms -> [held : Seq(Posting), maxVal : Nat]]
Checkpoint == [state : {"complete"}, terms : TermInfo, mem : TermMem, pos : Nat, doc : Nat]
Metadata == [state : {"complete"}, terms : TermInfo]

\* The types of the state: what new, add, checkpoint and build leave in the
\* fields of TermsImpacts and in the files of the index directory.
TypeOK ==
  /\ source \in Seq(Documents)
  /\ next \in 0 .. Len(source)
  /\ crashes \in 0 .. MaxCrashes
  /\ file \in Seq(Posting)
  /\ ckpt \in Checkpoint \cup {Absent}
  /\ tmp \in Checkpoint \cup {Absent, Torn}
  /\ info \in Metadata \cup {Absent, Torn}
  /\ manifest \in BOOLEAN
  /\ phase \in Phases
  /\ freq \in Nat
  /\ ckptDoc \in Nat \cup {NoDoc}
  /\ terms \in TermInfo
  /\ mem \in TermMem
  /\ pos \in Nat
  /\ cursor \in Nat
  /\ buf \in Seq(Posting)
  /\ todo \subseteq Terms
  /\ scan \in 0 .. NumTerms

\* After build, a reader finds in the pages of every term exactly the postings
\* of the collection, in order, under sound bounds: no crash, resumption or
\* overwriting of an earlier attempt's pages lost, repeated or mixed any.
PublishedFaithful == manifest => Readable(Len(source))

\* Whenever checkpoint.cbor exists, resuming from it continues the index of
\* the documents up to the one it names: the part of postings.dat it points
\* into has reached the file and no later write touched it.
CheckpointRecoverable == ckpt.state = "complete" => Resumable

\* A caller that resumes after get_checkpoint_doc_id never trips the
\* "Doc ID should be increasing" assertion of add_impact.
ResumeAccepted == phase = "adding" => \A t \in todo : DocIncreasing(t)

\* The document frequency, last document and maximum of every term in the
\* metadata are exact, also when the term was counted before a crash: those of
\* a posting held in memory at a checkpoint are counted once.
StatisticsExact ==
  /\ manifest => \A t \in Terms : Exact(info.terms[t], t, Len(source))
  /\ ckpt.state = "complete" => \A t \in Terms : Exact(ckpt.terms[t], t, ckpt.doc + 1)

\* A checkpoint never goes back: replacing checkpoint.cbor only moves the
\* document to resume after forward.
CheckpointAdvances ==
  [][ckpt.state = "complete" /\ ckpt'.state = "complete" /\ ckpt' # ckpt
       => ckpt'.doc > ckpt.doc]_vars

\* build gives the checkpoint up only when the metadata on disk reads back the
\* whole collection: a crash in build finds one or the other.
CheckpointOutlivesBuild ==
  [][ckpt.state = "complete" /\ ckpt'.state # "complete" => Readable(Len(source))]_vars

\* The postings a reader collects from the pages of every term.
ReadBack ==
  [t \in Terms |->
     UNION {{file[info.terms[t].pages[k].pos + i] : i \in 1 .. info.terms[t].pages[k].length} :
              k \in 1 .. Len(info.terms[t].pages)}]

Contract == INSTANCE IndexContract
  WITH published <- IF manifest THEN <<ReadBack>> ELSE <<>>

\* The build implements its contract: a reader sees nothing, then all of it.
ImplementsContract == Contract!Spec

\* However often the process dies, the build ends once it stops dying.
EventuallyPublished == <>[]manifest

=============================================================================
