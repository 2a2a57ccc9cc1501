--------------------------- MODULE IndexerProofs ---------------------------
(***************************************************************************)
(* Proofs about Indexer, for every number of terms, every set of documents *)
(* and every bound.                                                        *)
(***************************************************************************)
EXTENDS Indexer, SequenceTheorems, TLAPS, FiniteSetTheorems

USE IndexerAssumption

-----------------------------------------------------------------------------
(***************************************************************************)
(* Sequences and files                                                     *)
(***************************************************************************)

\* Writing records into a file of records gives a file of records.
LEMMA OverwriteType ==
  ASSUME NEW f \in Seq(Posting), NEW at \in Nat, NEW s \in Seq(Posting)
  PROVE  Overwrite(f, at, s) \in Seq(Posting)
<1>1. NoPosting \in Posting
  BY DEF NoPosting, Posting
<1>. QED
  BY <1>1 DEF Overwrite, Larger

\* A document gives every term an impact.
LEMMA ImpactType ==
  ASSUME TypeOK, NEW d \in 0 .. Len(source) - 1, NEW t \in Terms
  PROVE  source[d + 1][t] \in Nat
BY DEF TypeOK

-----------------------------------------------------------------------------
(***************************************************************************)
(* Type correctness                                                        *)
(***************************************************************************)

\* The inductive strengthening of TypeOK: a checkpoint, on disk or being
\* written, names a document of the collection, and so does a document in add.
Shape ==
  /\ ckpt.state = "complete" => ckpt.doc < Len(source)
  /\ tmp.state = "complete" => tmp.doc < Len(source)
  /\ phase = "adding" => next < Len(source)
  /\ phase \in {"ckpt_flush", "ckpt_write", "ckpt_rename"} => next > 0
  /\ phase = "ckpt_rename" => tmp = Snapshot

TypeInv == TypeOK /\ Shape

\* flush keeps the types of what it writes.
LEMMA FlushType ==
  ASSUME TypeOK, NEW t \in Terms,
         NEW ti \in [pages : Seq(Page), length : Nat, maxVal : Nat, maxDoc : Nat],
         NEW m \in [held : Seq(Posting), maxVal : Nat],
         Len(m.held) > 0, Flush(t, ti, m)
  PROVE  /\ terms' \in TermInfo
         /\ mem' \in TermMem
         /\ buf' \in Seq(Posting)
         /\ pos' \in Nat
<1>1. m.held \in Seq(Posting) /\ m.maxVal \in Nat /\ Len(m.held) \in Nat
  OBVIOUS
<1>2. m.held[Len(m.held)] \in Posting
  BY <1>1
<1>3. PageOf(m) \in Page
  BY <1>1, <1>2 DEF PageOf, Page, Posting, TypeOK
<1>4. AddPage(ti, PageOf(m)) \in [pages : Seq(Page), length : Nat, maxVal : Nat, maxDoc : Nat]
  BY <1>3 DEF AddPage
<1>5. terms' \in TermInfo
  BY <1>4 DEF Flush, TypeOK, TermInfo
<1>6. NewMem \in [held : Seq(Posting), maxVal : Nat]
  BY DEF NewMem
<1>7. mem' \in TermMem
  BY <1>6 DEF Flush, TypeOK, TermMem
<1>. QED
  BY <1>1, <1>5, <1>7 DEF Flush, TypeOK

\* The initial state is well typed.
LEMMA TypeInit == Init => TypeInv
<1> SUFFICES ASSUME Init PROVE TypeInv
  OBVIOUS
<1>1. NewTerm \in [pages : Seq(Page), length : Nat, maxVal : Nat, maxDoc : Nat]
  BY DEF NewTerm
<1>2. NewMem \in [held : Seq(Posting), maxVal : Nat]
  BY DEF NewMem
<1>3. terms \in TermInfo /\ mem \in TermMem
  BY <1>1, <1>2 DEF Init, TermInfo, TermMem
<1>4. TypeOK
  <2>1. source \in Seq(Documents) /\ file \in Seq(Posting) /\ buf \in Seq(Posting)
    BY DEF Init
  <2>2. next \in 0 .. Len(source) /\ crashes \in 0 .. MaxCrashes /\ scan \in 0 .. NumTerms
    BY DEF Init
  <2>3. freq \in Nat /\ ckptDoc \in Nat \cup {NoDoc} /\ pos \in Nat /\ cursor \in Nat
    BY DEF Init
  <2>4. phase \in Phases /\ manifest \in BOOLEAN /\ todo \subseteq Terms
    BY DEF Init, Phases
  <2>5. ckpt = Absent /\ tmp = Absent /\ info = Absent
    BY DEF Init
  <2>. QED
    BY <1>3, <2>1, <2>2, <2>3, <2>4, <2>5 DEF TypeOK
<1>5. Shape
  BY DEF Init, Shape, Absent
<1>. QED
  BY <1>4, <1>5 DEF TypeInv

\* What a complete checkpoint, or its temporary file, holds.
LEMMA CheckpointType ==
  ASSUME TypeOK
  PROVE  /\ ckpt.state = "complete" => ckpt \in Checkpoint
         /\ tmp.state = "complete" => tmp \in Checkpoint
         /\ info.state = "complete" => info \in Metadata
BY DEF TypeOK, Absent, Torn

\* The memory of a process that holds nothing is well typed.
LEMMA EmptyType ==
  /\ [t \in Terms |-> NewTerm] \in TermInfo
  /\ [t \in Terms |-> NewMem] \in TermMem
<1>1. NewTerm \in [pages : Seq(Page), length : Nat, maxVal : Nat, maxDoc : Nat]
  BY DEF NewTerm
<1>2. NewMem \in [held : Seq(Posting), maxVal : Nat]
  BY DEF NewMem
<1>. QED
  BY <1>1, <1>2 DEF TermInfo, TermMem

\* What Open leaves in memory is well typed.
LEMMA OpenType ==
  ASSUME TypeInv, NEW f \in Frequencies, Open(f)
  PROVE  /\ phase' = "idle" /\ freq' \in Nat /\ ckptDoc' \in Nat \cup {NoDoc}
         /\ terms' \in TermInfo /\ mem' \in TermMem
         /\ pos' \in Nat /\ cursor' \in Nat /\ buf' = <<>>
         /\ todo' = {} /\ scan' = 0 /\ next' \in 0 .. Len(source)
<1>1. CASE OpenCheckpoint /\ ckpt.state = "complete"
  <2>1. ckpt \in Checkpoint
    BY <1>1, CheckpointType DEF TypeInv
  <2>2. ckpt.doc < Len(source) /\ Len(source) \in Nat
    BY <1>1 DEF TypeInv, Shape, TypeOK
  <2>. QED
    BY <1>1, <2>1, <2>2 DEF Open, OpenCheckpoint, Checkpoint
<1>2. CASE OpenFresh
  <2>1. Len(source) \in Nat
    BY DEF TypeInv, TypeOK
  <2>. QED
    BY <1>2, <2>1, EmptyType DEF Open, OpenFresh
<1>. QED
  BY <1>1, <1>2 DEF Open

\* What postings.dat becomes when its BufWriter is written out, in whole or part.
LEMMA WriteType ==
  ASSUME TypeOK, NEW n \in 0 .. Len(buf)
  PROVE  /\ Overwrite(file, cursor, SubSeq(buf, 1, n)) \in Seq(Posting)
         /\ Overwrite(file, cursor, buf) \in Seq(Posting)
         /\ SubSeq(buf, n + 1, Len(buf)) \in Seq(Posting)
         /\ Len(buf) \in Nat
<1>1. buf \in Seq(Posting) /\ Len(buf) \in Nat /\ file \in Seq(Posting) /\ cursor \in Nat
  BY DEF TypeOK
<1>2. \A i \in 1 .. Len(buf) : buf[i] \in Posting
  BY <1>1
<1>3. SubSeq(buf, 1, n) \in Seq(Posting)
  BY <1>1, <1>2, SubSeqProperties
<1>4. SubSeq(buf, n + 1, Len(buf)) \in Seq(Posting)
  BY <1>1, <1>2, SubSeqProperties
<1>. QED
  BY <1>1, <1>3, <1>4, OverwriteType

\* One iteration of a flush loop keeps the types.
LEMMA FlushScannedType ==
  ASSUME TypeOK, NEW least \in Nat, FlushScanned(least)
  PROVE  /\ terms' \in TermInfo /\ mem' \in TermMem
         /\ buf' \in Seq(Posting) /\ pos' \in Nat
         /\ scan' \in 0 .. NumTerms
<1>1. scan \in Terms /\ scan' \in 0 .. NumTerms
  BY DEF FlushScanned, TypeOK, Terms
<1>2. CASE Flush(scan, terms[scan], mem[scan]) /\ Len(mem[scan].held) >= Larger(least, 1)
  <2>1. terms[scan] \in [pages : Seq(Page), length : Nat, maxVal : Nat, maxDoc : Nat]
    BY <1>1 DEF TypeOK, TermInfo
  <2>2. mem[scan] \in [held : Seq(Posting), maxVal : Nat]
    BY <1>1 DEF TypeOK, TermMem
  <2>3. Len(mem[scan].held) > 0
    BY <1>2, <2>2 DEF Larger
  <2>. QED
    BY <1>1, <1>2, <2>1, <2>2, <2>3, FlushType
<1>3. CASE UNCHANGED postings
  BY <1>1, <1>3 DEF postings, TypeOK
<1>. QED
  BY <1>2, <1>3 DEF FlushScanned

\* A posting added to a term keeps the types.
LEMMA AddType ==
  ASSUME TypeOK, NEW t \in Terms, NEW d \in Nat, NEW val \in Nat
  PROVE  /\ CountPosting(terms[t], d, val)
              \in [pages : Seq(Page), length : Nat, maxVal : Nat, maxDoc : Nat]
         /\ HoldPosting(mem[t], d, val) \in [held : Seq(Posting), maxVal : Nat]
         /\ Len(HoldPosting(mem[t], d, val).held) = Len(mem[t].held) + 1
         /\ Len(mem[t].held) \in Nat
<1>1. terms[t] \in [pages : Seq(Page), length : Nat, maxVal : Nat, maxDoc : Nat]
  BY DEF TypeOK, TermInfo
<1>2. mem[t] \in [held : Seq(Posting), maxVal : Nat]
  BY DEF TypeOK, TermMem
<1>3. [doc |-> d, val |-> val] \in Posting
  BY DEF Posting
<1>. QED
  BY <1>1, <1>2, <1>3 DEF CountPosting, HoldPosting, Larger

\* Every step keeps the types and Shape.
LEMMA TypeStep == TypeInv /\ [Next]_vars => TypeInv'
<1> SUFFICES ASSUME TypeInv, [Next]_vars PROVE TypeInv'
  OBVIOUS
<1> USE DEF TypeInv
<1>1. ASSUME NEW f \in Frequencies, Start(f) PROVE TypeInv'
  <2>1. Open(f) /\ UNCHANGED <<source, crashes, ckpt, tmp, info, manifest>>
    BY <1>1 DEF Start, caller, disk
  <2>2. file' \in Seq(Posting)
    BY <1>1 DEF Start, TypeOK
  <2>3. /\ phase' = "idle" /\ freq' \in Nat /\ ckptDoc' \in Nat \cup {NoDoc}
        /\ terms' \in TermInfo /\ mem' \in TermMem
        /\ pos' \in Nat /\ cursor' \in Nat /\ buf' = <<>>
        /\ todo' = {} /\ scan' = 0 /\ next' \in 0 .. Len(source)
    BY <2>1, OpenType
  <2>. QED
    BY <2>1, <2>2, <2>3 DEF TypeOK, Shape, Phases
<1>2. ASSUME NEW f \in Frequencies, Reopen(f) PROVE TypeInv'
  <2>1. Open(f) /\ UNCHANGED <<source, ckpt, tmp, info, manifest>>
    BY <1>2 DEF Reopen, disk
  <2>2. file' \in Seq(Posting)
    <3>1. (IF f = 0 THEN <<>> ELSE file) \in Seq(Posting)
      BY DEF TypeOK
    <3>. QED
      BY <1>2, <3>1, OverwriteType DEF Reopen, TypeOK
  <2>3. crashes' \in 0 .. MaxCrashes
    BY <1>2 DEF Reopen, TypeOK
  <2>4. /\ phase' = "idle" /\ freq' \in Nat /\ ckptDoc' \in Nat \cup {NoDoc}
        /\ terms' \in TermInfo /\ mem' \in TermMem
        /\ pos' \in Nat /\ cursor' \in Nat /\ buf' = <<>>
        /\ todo' = {} /\ scan' = 0 /\ next' \in 0 .. Len(source)
    BY <2>1, OpenType
  <2>. QED
    BY <2>1, <2>2, <2>3, <2>4 DEF TypeOK, Shape, Phases
<1>3. ASSUME NEW n \in 1 .. Len(buf), Spill(n) PROVE TypeInv'
  <2>1. file' \in Seq(Posting) /\ buf' \in Seq(Posting) /\ Len(buf) \in Nat
    BY <1>3, WriteType DEF Spill, TypeOK
  <2>2. cursor' \in Nat
    BY <1>3, <2>1 DEF Spill, TypeOK
  <2>. QED
    BY <1>3, <2>1, <2>2 DEF Spill, caller, disk, TypeOK, Shape, Snapshot
<1>4. ASSUME NEW d \in Documents, BeginAdd(d) PROVE TypeInv'
  <2>1. /\ source' \in Seq(Documents) /\ Len(source') >= Len(source)
        /\ Len(source) \in Nat /\ Len(source') \in Nat /\ next < Len(source')
    <3>1. source \in Seq(Documents) /\ Len(source) \in Nat /\ next \in 0 .. Len(source)
      BY DEF TypeOK
    <3>2. CASE next < Len(source) /\ UNCHANGED source
      BY <3>1, <3>2
    <3>3. CASE ~(next < Len(source)) /\ source' = Append(source, d)
      BY <3>1, <3>3
    <3>. QED
      BY <1>4, <3>2, <3>3 DEF BeginAdd
  <2>2. UNCHANGED <<next, crashes, file, ckpt, tmp, info, manifest, freq, ckptDoc,
                    terms, mem, pos, buf, cursor, scan>>
    BY <1>4 DEF BeginAdd, disk, postings
  <2>3. phase' = "adding" /\ todo' \subseteq Terms
    BY <1>4 DEF BeginAdd
  <2>4. TypeOK'
    BY <2>1, <2>2, <2>3 DEF TypeOK, Phases
  <2>5. (ckpt.state = "complete" => ckpt.doc < Len(source))'
    BY <2>1, <2>2, CheckpointType DEF Shape, Checkpoint
  <2>6. (tmp.state = "complete" => tmp.doc < Len(source))'
    BY <2>1, <2>2, CheckpointType DEF Shape, Checkpoint
  <2>. QED
    BY <2>1, <2>2, <2>3, <2>4, <2>5, <2>6 DEF Shape
<1>5. ASSUME NEW t \in Terms, AddImpact(t) PROVE TypeInv'
  <2> DEFINE val == source[next + 1][t]
             ti == CountPosting(terms[t], next, val)
             m == HoldPosting(mem[t], next, val)
  <2>1. val \in Nat /\ next \in Nat
    <3>1. next \in 0 .. Len(source) - 1
      BY <1>5 DEF AddImpact, TypeOK, Shape
    <3>. QED
      BY <3>1, ImpactType
  <2>2. /\ ti \in [pages : Seq(Page), length : Nat, maxVal : Nat, maxDoc : Nat]
        /\ m \in [held : Seq(Posting), maxVal : Nat]
        /\ Len(m.held) = Len(mem[t].held) + 1
        /\ Len(mem[t].held) \in Nat
    BY <2>1, AddType
  <2>3. terms' \in TermInfo /\ mem' \in TermMem /\ buf' \in Seq(Posting) /\ pos' \in Nat
    <3> HIDE DEF ti, m
    <3>1. CASE Flush(t, ti, m)
      BY <2>2, <3>1, FlushType
    <3>2. CASE /\ terms' = [terms EXCEPT ![t] = ti]
               /\ mem' = [mem EXCEPT ![t] = m]
               /\ UNCHANGED <<pos, buf>>
      BY <2>2, <3>2 DEF TypeOK, TermInfo, TermMem
    <3>. QED
      BY <1>5, <3>1, <3>2 DEF AddImpact, ti, m
  <2>4. UNCHANGED <<source, crashes, next, file, ckpt, tmp, info, manifest, phase,
                    freq, ckptDoc, cursor, scan>> /\ todo' \subseteq Terms
    BY <1>5 DEF AddImpact, caller, disk, TypeOK
  <2>5. phase = "adding"
    BY <1>5 DEF AddImpact
  <2>. QED
    BY <2>3, <2>4, <2>5 DEF TypeOK, Shape
<1>6. CASE EndAdd
  <2>1. next' = next + 1 /\ phase = "adding" /\ phase' \in {"ckpt_flush", "idle"} /\ scan' = 0
    BY <1>6 DEF EndAdd
  <2>2. UNCHANGED <<source, crashes, file, ckpt, tmp, info, manifest, freq, ckptDoc,
                    terms, mem, pos, buf, cursor, todo>>
    BY <1>6 DEF EndAdd, caller, disk, postings
  <2>. QED
    BY <2>1, <2>2 DEF TypeOK, Shape, Phases
<1>7. CASE CheckpointFlush
  <2>1. /\ terms' \in TermInfo /\ mem' \in TermMem
        /\ buf' \in Seq(Posting) /\ pos' \in Nat
        /\ scan' \in 0 .. NumTerms
    BY <1>7, FlushScannedType DEF CheckpointFlush
  <2>2. UNCHANGED <<source, crashes, next, file, ckpt, tmp, info, manifest, phase, freq,
                    ckptDoc, cursor, todo>> /\ phase = "ckpt_flush"
    BY <1>7 DEF CheckpointFlush, caller, disk
  <2>. QED
    BY <2>1, <2>2 DEF TypeOK, Shape
<1>8. CASE CheckpointCreate
  <2>1. file' \in Seq(Posting) /\ buf' \in Seq(Posting) /\ Len(buf) \in Nat
    BY <1>8, WriteType DEF CheckpointCreate, Sync
  <2>2. cursor' \in Nat
    BY <1>8, <2>1 DEF CheckpointCreate, Sync, TypeOK
  <2>. QED
    BY <1>8, <2>1, <2>2 DEF CheckpointCreate, caller, TypeOK, Shape, Phases, Torn
<1>9. CASE CheckpointWrite
  <2>1. next - 1 \in Nat /\ next - 1 < Len(source)
    BY <1>9 DEF CheckpointWrite, TypeOK, Shape
  <2>2. tmp' = Snapshot /\ Snapshot \in Checkpoint
    BY <1>9, <2>1 DEF CheckpointWrite, Snapshot, Checkpoint, TypeOK
  <2>3. /\ UNCHANGED <<source, crashes, next, file, ckpt, info, manifest, freq, ckptDoc,
                       terms, mem, pos, buf, cursor, todo, scan>>
        /\ phase = "ckpt_write" /\ phase' = "ckpt_rename"
    BY <1>9 DEF CheckpointWrite, caller, postings
  <2>4. TypeOK'
    BY <2>2, <2>3 DEF TypeOK, Phases
  <2>5. Snapshot' = Snapshot
    BY <2>3 DEF Snapshot
  <2>. QED
    BY <2>1, <2>2, <2>3, <2>4, <2>5 DEF Shape, Snapshot
<1>10. CASE CheckpointRename
  <2>1. tmp = Snapshot /\ next - 1 \in Nat /\ next - 1 < Len(source)
    BY <1>10 DEF CheckpointRename, TypeOK, Shape
  <2>2. Snapshot \in Checkpoint /\ Snapshot.doc = next - 1
    BY <2>1 DEF Snapshot, Checkpoint, TypeOK
  <2>3. /\ UNCHANGED <<source, crashes, next, file, info, manifest, freq,
                       terms, mem, pos, buf, cursor, todo, scan>>
        /\ ckpt' = tmp /\ tmp' = Absent /\ ckptDoc' = next - 1 /\ phase' = "idle"
    BY <1>10 DEF CheckpointRename, caller, postings
  <2>4. TypeOK'
    BY <2>1, <2>2, <2>3 DEF TypeOK, Phases
  <2>. QED
    BY <2>1, <2>2, <2>3, <2>4 DEF Shape, Absent
<1>11. CASE BeginBuild
  BY <1>11 DEF BeginBuild, caller, disk, postings, TypeOK, Shape, Phases
<1>12. CASE BuildFlush
  <2>1. /\ terms' \in TermInfo /\ mem' \in TermMem
        /\ buf' \in Seq(Posting) /\ pos' \in Nat
        /\ scan' \in 0 .. NumTerms
    BY <1>12, FlushScannedType DEF BuildFlush
  <2>2. UNCHANGED <<source, crashes, next, file, ckpt, tmp, info, manifest, phase, freq,
                    ckptDoc, cursor, todo>> /\ phase = "build_flush"
    BY <1>12 DEF BuildFlush, caller, disk
  <2>. QED
    BY <2>1, <2>2 DEF TypeOK, Shape
<1>13. CASE BuildCreate
  <2>1. file' \in Seq(Posting) /\ buf' \in Seq(Posting) /\ Len(buf) \in Nat
    BY <1>13, WriteType DEF BuildCreate, Sync
  <2>2. cursor' \in Nat
    BY <1>13, <2>1 DEF BuildCreate, Sync, TypeOK
  <2>. QED
    BY <1>13, <2>1, <2>2 DEF BuildCreate, caller, TypeOK, Shape, Phases, Torn
<1>14. CASE BuildWrite
  <2>1. [state |-> "complete", terms |-> terms] \in Metadata
    BY DEF TypeOK, Metadata
  <2>. QED
    BY <1>14, <2>1 DEF BuildWrite, caller, postings, TypeOK, Shape, Phases
<1>15. CASE BuildClean
  BY <1>15 DEF BuildClean, caller, postings, TypeOK, Shape, Phases, Absent
<1>16. CASE BuildManifest
  BY <1>16 DEF BuildManifest, caller, postings, TypeOK, Shape, Phases
<1>17. CASE Crash
  <2>1. /\ terms' \in TermInfo /\ mem' \in TermMem /\ buf' = <<>> /\ phase' = "down"
        /\ next' = 0 /\ freq' = 0 /\ ckptDoc' = NoDoc /\ pos' = 0 /\ cursor' = 0
        /\ todo' = {} /\ scan' = 0
    BY <1>17, EmptyType DEF Crash
  <2>2. UNCHANGED <<source, file, ckpt, tmp, info, manifest>> /\ crashes' \in 0 .. MaxCrashes
    BY <1>17 DEF Crash, disk, TypeOK
  <2>. QED
    BY <2>1, <2>2 DEF TypeOK, Shape, Phases
<1>18. CASE UNCHANGED vars
  BY <1>18 DEF vars, TypeOK, Shape, Snapshot
<1>. QED
  BY <1>1, <1>2, <1>3, <1>4, <1>5, <1>6, <1>7, <1>8, <1>9, <1>10, <1>11, <1>12, <1>13,
     <1>14, <1>15, <1>16, <1>17, <1>18 DEF Next, Checkpointing, Building, Finished

\* The state of the indexer and of its files keeps its types forever.
THEOREM TypeCorrect == Spec => []TypeOK
<1>1. TypeInv => TypeOK
  BY DEF TypeInv
<1>. QED
  BY <1>1, TypeInit, TypeStep, PTL DEF Spec

-----------------------------------------------------------------------------
(***************************************************************************)
(* A checkpoint never goes back                                            *)
(***************************************************************************)

\* In a session with checkpoints, checkpoint_doc_id is the document of the one
\* on disk, and the one being written is about a later document.
AdvanceInv ==
  /\ Running /\ freq > 0 /\ ckpt.state = "complete" => ckptDoc = ckpt.doc
  /\ phase \in {"ckpt_flush", "ckpt_write", "ckpt_rename"} =>
       freq > 0 /\ (ckpt.state = "complete" => ckpt.doc < next - 1)

\* Steps that leave checkpoint.cbor, the document it names and the place in
\* the checkpoint alone.
LEMMA AdvanceKept ==
  ASSUME AdvanceInv, UNCHANGED <<ckpt, ckptDoc, freq>>, Running,
         \/ phase' \notin {"ckpt_flush", "ckpt_write", "ckpt_rename"}
         \/ phase \in {"ckpt_flush", "ckpt_write", "ckpt_rename"} /\ next' = next
  PROVE  AdvanceInv'
BY DEF AdvanceInv

\* Every step keeps AdvanceInv.
LEMMA AdvanceStep == TypeInv /\ AdvanceInv /\ [Next]_vars => AdvanceInv'
<1> SUFFICES ASSUME TypeInv, AdvanceInv, [Next]_vars PROVE AdvanceInv'
  OBVIOUS
<1>1. ASSUME NEW f \in Frequencies, Start(f) \/ Reopen(f) PROVE AdvanceInv'
  <2>1. Open(f) /\ ckpt' = ckpt
    BY <1>1 DEF Start, Reopen, disk
  <2>. QED
    BY <2>1 DEF Open, OpenCheckpoint, OpenFresh, AdvanceInv
<1>2. ASSUME NEW n \in 1 .. Len(buf), Spill(n) PROVE AdvanceInv'
  BY <1>2 DEF Spill, disk, AdvanceInv, Running
<1>3. CASE (\E d \in Documents : BeginAdd(d)) \/ (\E t \in Terms : AddImpact(t))
  BY <1>3, AdvanceKept DEF BeginAdd, AddImpact, disk, Running
<1>4. CASE EndAdd
  <2>1. /\ phase = "adding" /\ next' = next + 1 /\ UNCHANGED <<ckpt, ckptDoc, freq>>
        /\ phase' = IF CheckpointDue THEN "ckpt_flush" ELSE "idle"
        /\ next \in Nat /\ freq \in Nat /\ Running
    BY <1>4 DEF EndAdd, disk, TypeInv, TypeOK, Running
  <2>2. CASE CheckpointDue
    <3>1. freq > 0 /\ next >= freq + LastCheckpoint
      BY <2>2 DEF CheckpointDue
    <3>2. ASSUME ckpt.state = "complete" PROVE ckpt.doc < next
      <4>1. ckpt.doc \in Nat
        BY <3>2, CheckpointType DEF TypeInv, Checkpoint
      <4>2. LastCheckpoint = ckpt.doc
        BY <2>1, <3>1, <3>2, <4>1 DEF AdvanceInv, LastCheckpoint, NoDoc
      <4>. QED
        BY <2>1, <3>1, <4>1, <4>2
    <3>. QED
      BY <2>1, <2>2, <3>1, <3>2 DEF AdvanceInv
  <2>3. CASE ~CheckpointDue
    BY <2>1, <2>3, AdvanceKept
  <2>. QED
    BY <2>2, <2>3
<1>5. CASE CheckpointFlush \/ CheckpointCreate \/ CheckpointWrite
  BY <1>5, AdvanceKept DEF CheckpointFlush, CheckpointCreate, CheckpointWrite, disk, Running
<1>6. CASE CheckpointRename
  BY <1>6 DEF CheckpointRename, TypeInv, Shape, Snapshot, AdvanceInv
<1>7. CASE BeginBuild \/ BuildFlush \/ BuildCreate \/ BuildWrite \/ BuildManifest
  <2>1. /\ UNCHANGED <<ckpt, ckptDoc, freq>> /\ Running
        /\ phase' \notin {"ckpt_flush", "ckpt_write", "ckpt_rename"}
    BY <1>7 DEF BeginBuild, BuildFlush, BuildCreate, BuildWrite, BuildManifest, disk, Running
  <2>. QED
    BY <2>1, AdvanceKept
<1>8. CASE BuildClean
  BY <1>8 DEF BuildClean, AdvanceInv, Absent, Running
<1>9. CASE Crash
  BY <1>9 DEF Crash, AdvanceInv, Running
<1>10. CASE UNCHANGED vars
  BY <1>10 DEF vars, AdvanceInv, Running
<1>. QED
  BY <1>1, <1>2, <1>3, <1>4, <1>5, <1>6, <1>7, <1>8, <1>9, <1>10
     DEF Next, Checkpointing, Building, Finished

\* A checkpoint is only ever replaced by one of a later document, whatever
\* frequencies the sessions choose and whatever they die in the middle of.
THEOREM CheckpointOnlyAdvances == Spec => CheckpointAdvances
<1>1. Init => AdvanceInv
  BY DEF Init, AdvanceInv, Running
<1>2. TypeInv /\ AdvanceInv /\ [Next]_vars =>
        [ckpt.state = "complete" /\ ckpt'.state = "complete" /\ ckpt' # ckpt
           => ckpt'.doc > ckpt.doc]_vars
  <2> SUFFICES ASSUME TypeInv, AdvanceInv, Next, ckpt' # ckpt,
                      ckpt.state = "complete", ckpt'.state = "complete"
               PROVE  ckpt'.doc > ckpt.doc
    OBVIOUS
  <2>1. CheckpointRename \/ BuildClean
    BY DEF Next, Start, Reopen, Spill, BeginAdd, AddImpact, EndAdd, Checkpointing,
       CheckpointFlush, CheckpointCreate, CheckpointWrite, Building, BeginBuild, BuildFlush,
       BuildCreate, BuildWrite, BuildManifest, Crash, Finished, vars, disk
  <2>2. CheckpointRename
    BY <2>1 DEF BuildClean, Absent
  <2>3. ckpt'.doc = next - 1 /\ ckpt.doc < next - 1
    BY <2>2 DEF CheckpointRename, TypeInv, Shape, Snapshot, AdvanceInv
  <2>4. ckpt.doc \in Nat /\ next \in Nat
    BY CheckpointType DEF TypeInv, TypeOK, Checkpoint
  <2>. QED
    BY <2>3, <2>4
<1>. QED
  BY <1>1, <1>2, TypeInit, TypeStep, AdvanceStep, PTL DEF Spec, CheckpointAdvances

-----------------------------------------------------------------------------
(***************************************************************************)
(* What it takes for pages to stay faithful                                *)
(***************************************************************************)

TermRecord == [pages : Seq(Page), length : Nat, maxVal : Nat, maxDoc : Nat]
HeldRecord == [held : Seq(Posting), maxVal : Nat]

\* The records a described page covers lie within the file.
LEMMA PageWithin ==
  ASSUME NEW f \in Seq(Posting), NEW ti \in TermRecord, Described(f, ti.pages, ti.maxVal),
         NEW k \in 1 .. Len(ti.pages)
  PROVE  /\ ti.pages[k] \in Page
         /\ ti.pages[k].length \in 1 .. Len(f)
         /\ \A i \in 1 .. ti.pages[k].length : ti.pages[k].pos + i \in 1 .. Len(f)
<1>1. ti.pages[k] \in Page
  BY DEF TermRecord
<1>2. /\ ti.pages[k].length > 0
      /\ ti.pages[k].pos + ti.pages[k].length <= Len(f)
  BY DEF Described
<1>3. ti.pages[k].length \in Nat /\ ti.pages[k].pos \in Nat /\ Len(f) \in Nat
  BY <1>1 DEF Page
<1>4. ASSUME NEW i \in 1 .. ti.pages[k].length PROVE ti.pages[k].pos + i \in 1 .. Len(f)
  <2> DEFINE at == ti.pages[k].pos
             length == ti.pages[k].length
             n == Len(f)
  <2>1. at \in Nat /\ length \in Nat /\ n \in Nat /\ at + length <= n /\ i \in 1 .. length
    BY <1>2, <1>3
  <2> HIDE DEF at, length, n
  <2>2. at + i \in 1 .. n
    BY <2>1
  <2>. QED
    BY <2>2, Zenon DEF at, n
<1>. QED
  BY <1>1, <1>2, <1>3, <1>4

\* Pages stay faithful in a file that agrees with theirs and may be longer.
LEMMA FaithfulExtend ==
  ASSUME NEW f \in Seq(Posting), NEW g \in Seq(Posting), NEW ti \in TermRecord,
         NEW m \in HeldRecord, NEW t \in Terms, NEW n \in Nat,
         Len(f) <= Len(g), \A i \in 1 .. Len(f) : g[i] = f[i],
         Faithful(f, ti, m, t, n)
  PROVE  Faithful(g, ti, m, t, n)
<1> DEFINE pages == ti.pages
<1>1. \A k \in 1 .. Len(pages) : /\ pages[k] \in Page
                                 /\ pages[k].length \in 1 .. Len(f)
                                 /\ \A i \in 1 .. pages[k].length :
                                      g[pages[k].pos + i] = f[pages[k].pos + i]
  BY PageWithin DEF Faithful
<1>2. Described(g, pages, ti.maxVal)
  <2>1. Described(f, pages, ti.maxVal)
    BY DEF Faithful
  <2>2. ASSUME NEW k \in 1 .. Len(pages)
        PROVE  /\ pages[k].length > 0
               /\ pages[k].pos + pages[k].length <= Len(g)
               /\ pages[k].maxDoc = g[pages[k].pos + pages[k].length].doc
               /\ pages[k].maxVal <= ti.maxVal
               /\ \A i \in 1 .. pages[k].length : g[pages[k].pos + i].val <= pages[k].maxVal
    <3>1. /\ pages[k] \in Page
          /\ pages[k].length \in 1 .. pages[k].length
          /\ \A i \in 1 .. pages[k].length : g[pages[k].pos + i] = f[pages[k].pos + i]
      BY <1>1
    <3>2. g[pages[k].pos + pages[k].length] = f[pages[k].pos + pages[k].length]
      BY <3>1
    <3>3. Len(f) \in Nat /\ Len(g) \in Nat /\ pages[k].pos \in Nat /\ pages[k].length \in Nat
      BY <3>1 DEF Page
    <3>4. /\ pages[k].length > 0
          /\ pages[k].pos + pages[k].length <= Len(f)
          /\ pages[k].maxDoc = f[pages[k].pos + pages[k].length].doc
          /\ pages[k].maxVal <= ti.maxVal
          /\ \A i \in 1 .. pages[k].length : f[pages[k].pos + i].val <= pages[k].maxVal
      BY <2>1, Zenon DEF Described
    <3>5. pages[k].pos + pages[k].length <= Len(g)
      BY <3>3, <3>4
    <3>6. \A i \in 1 .. pages[k].length : g[pages[k].pos + i].val <= pages[k].maxVal
      BY <3>1, <3>4
    <3>. QED
      BY <3>2, <3>4, <3>5, <3>6
  <2>. QED
    BY <2>2 DEF Described
<1>3. Sound(g, pages, m.held, t, n)
  BY <1>1 DEF Faithful, Sound
<1>4. Complete(g, pages, m.held, t, n)
  <2>1. Complete(f, pages, m.held, t, n)
    BY DEF Faithful
  <2>2. ASSUME NEW d \in Occurs(t, n)
        PROVE  \/ \E k \in 1 .. Len(pages) : \E i \in 1 .. pages[k].length :
                    g[pages[k].pos + i].doc = d
               \/ \E i \in 1 .. Len(m.held) : m.held[i].doc = d
    <3>1. CASE \E i \in 1 .. Len(m.held) : m.held[i].doc = d
      BY <3>1, Zenon
    <3>2. CASE \E k \in 1 .. Len(pages) : \E i \in 1 .. pages[k].length :
                 f[pages[k].pos + i].doc = d
      <4>1. PICK k \in 1 .. Len(pages) : \E i \in 1 .. pages[k].length :
                   f[pages[k].pos + i].doc = d
        BY <3>2, Zenon
      <4>2. PICK i \in 1 .. pages[k].length : f[pages[k].pos + i].doc = d
        BY <4>1, Zenon
      <4>3. g[pages[k].pos + i].doc = d
        BY <1>1, <4>2, Zenon
      <4>. QED
        BY <4>2, <4>3, Zenon
    <3>. QED
      BY <2>1, <3>1, <3>2, Zenon DEF Complete
  <2> HIDE DEF pages
  <2>. QED
    BY <2>2, Zenon DEF Complete
<1>5. Ordered(g, pages, m.held)
  <2>1. Ordered(f, pages, m.held)
    BY DEF Faithful
  <2> HIDE DEF pages
  <2>. QED
    BY <1>1, <2>1 DEF Ordered
<1>. QED
  BY <1>2, <1>3, <1>4, <1>5 DEF Faithful

\* The documents in which a term occurs, with one more document considered.
LEMMA OccursNext ==
  ASSUME NEW t \in Terms, NEW n \in Nat
  PROVE  /\ source[n + 1][t] > 0 => Occurs(t, n + 1) = Occurs(t, n) \cup {n}
         /\ ~(source[n + 1][t] > 0) => Occurs(t, n + 1) = Occurs(t, n)
         /\ Occurs(t, n) \subseteq Occurs(t, n + 1)
         /\ Occurs(t, n) \subseteq 0 .. n - 1
<1>1. 0 .. (n + 1) - 1 = (0 .. n - 1) \cup {n}
  OBVIOUS
<1>. QED
  BY <1>1 DEF Occurs

\* Every document of a faithful page, or held, is below the document to come.
LEMMA DocsBelow ==
  ASSUME NEW f \in Seq(Posting), NEW ti \in TermRecord, NEW m \in HeldRecord,
         NEW t \in Terms, NEW n \in Nat, Faithful(f, ti, m, t, n)
  PROVE  /\ \A k \in 1 .. Len(ti.pages) : ti.pages[k].maxDoc < n
         /\ \A i \in 1 .. Len(m.held) : m.held[i].doc < n
<1>1. Occurs(t, n) \subseteq 0 .. n - 1
  BY OccursNext
<1>2. ASSUME NEW k \in 1 .. Len(ti.pages) PROVE ti.pages[k].maxDoc < n
  <2>1. ti.pages[k].length \in 1 .. ti.pages[k].length
    BY PageWithin DEF Faithful
  <2>2. IsPosting(f[ti.pages[k].pos + ti.pages[k].length], t, n)
    BY <2>1 DEF Faithful, Sound
  <2>3. ti.pages[k].maxDoc = f[ti.pages[k].pos + ti.pages[k].length].doc
    BY DEF Faithful, Described
  <2>. QED
    BY <1>1, <2>2, <2>3 DEF IsPosting
<1>3. ASSUME NEW i \in 1 .. Len(m.held) PROVE m.held[i].doc < n
  <2>1. IsPosting(m.held[i], t, n)
    BY DEF Faithful, Sound
  <2>. QED
    BY <1>1, <2>1 DEF IsPosting
<1>. QED
  BY <1>2, <1>3

\* Only the documents below n matter to what is faithful below n.
LEMMA FaithfulSource ==
  ASSUME NEW f, NEW ti, NEW m, NEW t \in Terms, NEW n \in Nat,
         \A e \in 0 .. n - 1 : source'[e + 1] = source[e + 1]
  PROVE  Faithful(f, ti, m, t, n)' <=> Faithful(f, ti, m, t, n)
<1>1. Occurs(t, n)' = Occurs(t, n)
  BY DEF Occurs
<1>2. \A x : IsPosting(x, t, n)' <=> IsPosting(x, t, n)
  BY <1>1 DEF IsPosting, Occurs
<1>. QED
  BY <1>1, <1>2 DEF Faithful, Sound, Complete

\* A document in which the term does not occur changes nothing.
LEMMA FaithfulSkip ==
  ASSUME NEW f, NEW ti, NEW m, NEW t \in Terms, NEW n \in Nat,
         \A e \in 0 .. n - 1 : source'[e + 1] = source[e + 1],
         ~(source'[n + 1][t] > 0), Faithful(f, ti, m, t, n)
  PROVE  Faithful(f, ti, m, t, n + 1)'
<1>1. Occurs(t, n + 1)' = Occurs(t, n)
  <2>1. 0 .. (n + 1) - 1 = (0 .. n - 1) \cup {n}
    OBVIOUS
  <2>. QED
    BY <2>1 DEF Occurs
<1>2. \A x : IsPosting(x, t, n) => IsPosting(x, t, n + 1)'
  BY <1>1 DEF IsPosting, Occurs
<1>. QED
  BY <1>1, <1>2 DEF Faithful, Sound, Complete

\* The posting of the document to come joins those held.
LEMMA FaithfulPush ==
  ASSUME NEW f \in Seq(Posting), NEW ti \in TermRecord, NEW m \in HeldRecord,
         NEW t \in Terms, NEW n \in Nat, NEW val \in Nat,
         val = source[n + 1][t], val > 0, Faithful(f, ti, m, t, n)
  PROVE  Faithful(f, CountPosting(ti, n, val), HoldPosting(m, n, val), t, n + 1)
<1> DEFINE tj == CountPosting(ti, n, val)
           l == HoldPosting(m, n, val)
           r == [doc |-> n, val |-> val]
<1>1. /\ m.held \in Seq(Posting) /\ m.maxVal \in Nat /\ ti.maxVal \in Nat
      /\ Len(m.held) \in Nat /\ Len(l.held) = Len(m.held) + 1
      /\ r \in Posting
      /\ \A i \in 1 .. Len(m.held) : l.held[i] = m.held[i]
      /\ l.held[Len(m.held) + 1] = r
  BY DEF HeldRecord, TermRecord, HoldPosting, Posting
<1>2. Occurs(t, n + 1) = Occurs(t, n) \cup {n}
  BY OccursNext
<1>3. \A i \in 1 .. Len(l.held) : i \in 1 .. Len(m.held) \/ i = Len(m.held) + 1
  BY <1>1
<1>4. tj.pages = ti.pages /\ tj.maxVal = Larger(ti.maxVal, val) /\ l.maxVal = Larger(m.maxVal, val)
  BY DEF CountPosting, HoldPosting
<1>5. r.doc = n /\ r.val = val
  OBVIOUS
<1>6. Faithful(f, tj, l, t, n + 1)
  <2> HIDE DEF tj, l, r
  <2>5. Described(f, tj.pages, tj.maxVal)
    <3>1. \A k \in 1 .. Len(ti.pages) : ti.pages[k].maxVal \in Nat
      <4>1. ti.pages \in Seq(Page)
        BY DEF TermRecord
      <4>2. \A k \in 1 .. Len(ti.pages) : ti.pages[k] \in Page
        BY <4>1
      <4>. QED
        BY <4>2 DEF Page
    <3>3. Described(f, ti.pages, ti.maxVal)
      BY DEF Faithful
    <3>2. ASSUME NEW k \in 1 .. Len(ti.pages) PROVE ti.pages[k].maxVal <= tj.maxVal
      <4>1. ti.pages[k].maxVal <= ti.maxVal
        BY <3>3, Zenon DEF Described
      <4>2. ti.maxVal \in Nat /\ ti.maxVal <= tj.maxVal /\ tj.maxVal \in Nat
        BY <1>4 DEF TermRecord, Larger
      <4>. QED
        BY <3>1, <4>1, <4>2
    <3>. QED
      BY <1>4, <3>2, <3>3, Zenon DEF Described
  <2>6. HeldBounded(l, tj.maxVal)
    <3>1. m.maxVal <= ti.maxVal /\ \A i \in 1 .. Len(m.held) : m.held[i].val <= m.maxVal
      BY DEF Faithful, HeldBounded
    <3>2. l.maxVal <= tj.maxVal /\ m.maxVal <= l.maxVal /\ val <= l.maxVal
      BY <1>1, <1>4, <3>1 DEF Larger
    <3>3. ASSUME NEW i \in 1 .. Len(l.held) PROVE l.held[i].val <= l.maxVal
      <4>1. CASE i \in 1 .. Len(m.held)
        <5>1. m.held[i] \in Posting
          BY <1>1, <4>1
        <5>2. m.held[i].val \in Nat /\ m.held[i].val <= m.maxVal /\ l.held[i] = m.held[i]
          BY <1>1, <3>1, <4>1, <5>1 DEF Posting
        <5>3. l.maxVal \in Nat /\ m.maxVal \in Nat
          BY <1>1, <1>4 DEF Larger, HeldRecord
        <5>. QED
          <6> HIDE DEF l
          <6>. QED
            BY <3>2, <5>2, <5>3
      <4>2. CASE i = Len(m.held) + 1
        BY <1>1, <1>5, <3>2, <4>2
      <4>. QED
        BY <1>3, <4>1, <4>2
    <3>. QED
      BY <3>2, <3>3 DEF HeldBounded
  <2>7. Sound(f, tj.pages, l.held, t, n + 1)
    <3>1. IsPosting(r, t, n + 1)
      BY <1>2, <1>5 DEF IsPosting
    <3>2. \A x : IsPosting(x, t, n) => IsPosting(x, t, n + 1)
      BY <1>2 DEF IsPosting
    <3>. QED
      BY <1>1, <1>3, <1>4, <3>1, <3>2 DEF Faithful, Sound
  <2>8. Complete(f, tj.pages, l.held, t, n + 1)
    <3>1. ASSUME NEW d \in Occurs(t, n + 1)
          PROVE  \/ \E k \in 1 .. Len(ti.pages) : \E i \in 1 .. ti.pages[k].length :
                      f[ti.pages[k].pos + i].doc = d
                 \/ \E i \in 1 .. Len(l.held) : l.held[i].doc = d
      <4>1. CASE d = n
        <5>1. Len(m.held) + 1 \in 1 .. Len(l.held)
          BY <1>1
        <5>. QED
          BY <1>1, <1>5, <4>1, <5>1
      <4>2. CASE d \in Occurs(t, n)
        <5>1. \A i \in 1 .. Len(m.held) : i \in 1 .. Len(l.held) /\ l.held[i] = m.held[i]
          BY <1>1
        <5>. QED
          <6>1. Complete(f, ti.pages, m.held, t, n)
            BY DEF Faithful
          <6>2. ASSUME NEW i \in 1 .. Len(m.held), m.held[i].doc = d
                PROVE  i \in 1 .. Len(l.held) /\ l.held[i].doc = d
            BY <5>1, <6>2, Zenon
          <6>. QED
            BY <4>2, <6>1, <6>2, Zenon DEF Complete
      <4>. QED
        BY <1>2, <4>1, <4>2
    <3>2. tj.pages = ti.pages
      BY <1>4
    <3> HIDE DEF tj, l
    <3>3. \A d \in Occurs(t, n + 1) :
            \/ \E k \in 1 .. Len(tj.pages) : \E i \in 1 .. tj.pages[k].length :
                 f[tj.pages[k].pos + i].doc = d
            \/ \E i \in 1 .. Len(l.held) : l.held[i].doc = d
      BY <3>1, <3>2, SMTT(20)
    <3>. QED
      BY <3>3, Zenon DEF Complete
  <2>9. Ordered(f, tj.pages, l.held)
    <3>1. /\ \A k \in 1 .. Len(ti.pages) : ti.pages[k].maxDoc < n
          /\ \A i \in 1 .. Len(m.held) : m.held[i].doc < n
      BY DocsBelow
    <3>2. \A k \in 1 .. Len(ti.pages) : \A j \in 1 .. Len(l.held) :
             ti.pages[k].maxDoc < l.held[j].doc
      BY <1>1, <1>3, <1>5, <3>1 DEF Faithful, Ordered
    <3>3. ASSUME NEW i \in 1 .. Len(l.held), NEW j \in 1 .. Len(l.held), i < j
          PROVE  l.held[i].doc < l.held[j].doc
      <4>1. i \in 1 .. Len(m.held)
        BY <1>1, <3>3
      <4>2. CASE j \in 1 .. Len(m.held)
        BY <1>1, <3>3, <4>1, <4>2 DEF Faithful, Ordered
      <4>3. CASE j = Len(m.held) + 1
        BY <1>1, <1>5, <3>1, <4>1, <4>3
      <4>. QED
        BY <1>3, <4>2, <4>3
    <3>. QED
      BY <1>4, <3>2, <3>3 DEF Faithful, Ordered
  <2>. QED
    BY <2>5, <2>6, <2>7, <2>8, <2>9 DEF Faithful
<1>. QED
  BY <1>6

\* What is held becomes a page at the end of the file.
LEMMA FaithfulPage ==
  ASSUME NEW f \in Seq(Posting), NEW ti \in TermRecord, NEW m \in HeldRecord,
         NEW t \in Terms, NEW n \in Nat, NEW p,
         p = [pos |-> Len(f), length |-> Len(m.held), maxVal |-> m.maxVal,
              maxDoc |-> m.held[Len(m.held)].doc],
         Len(m.held) > 0, Faithful(f, ti, m, t, n)
  PROVE  Faithful(f \o m.held, AddPage(ti, p), NewMem, t, n)
<1> DEFINE g == f \o m.held
           tj == AddPage(ti, p)
           K == Len(ti.pages)
           H == Len(m.held)
<1>1. /\ m.held \in Seq(Posting) /\ m.maxVal \in Nat /\ ti.maxVal \in Nat
      /\ ti.pages \in Seq(Page) /\ K \in Nat /\ H \in Nat /\ Len(f) \in Nat
  BY DEF HeldRecord, TermRecord
<1>2. \A i \in 1 .. H : m.held[i] \in Posting
  BY <1>1
<1>3. /\ g \in Seq(Posting) /\ Len(g) = Len(f) + H
      /\ \A i \in 1 .. Len(f) : g[i] = f[i]
      /\ \A i \in 1 .. H : g[Len(f) + i] = m.held[i]
  <2>1. /\ g \in Seq(Posting) /\ Len(g) = Len(f) + H
        /\ \A i \in 1 .. Len(f) + H :
             g[i] = IF i <= Len(f) THEN f[i] ELSE m.held[i - Len(f)]
    BY <1>1, ConcatProperties
  <2>. HIDE DEF g, H
  <2>2. \A i \in 1 .. Len(f) : i \in 1 .. Len(f) + H /\ i <= Len(f)
    BY <1>1
  <2>3. \A i \in 1 .. H : /\ Len(f) + i \in 1 .. Len(f) + H
                          /\ ~(Len(f) + i <= Len(f)) /\ (Len(f) + i) - Len(f) = i
    BY <1>1
  <2>. QED
    BY <2>1, <2>2, <2>3
<1>4. Faithful(g, ti, m, t, n)
  <2>. HIDE DEF g
  <2>1. Len(f) <= Len(g)
    BY <1>1, <1>3
  <2>. QED
    BY <1>3, <2>1, FaithfulExtend
<1>5. /\ p.pos = Len(f) /\ p.length = H /\ p.maxVal = m.maxVal /\ p.maxDoc = m.held[H].doc
      /\ \A i \in 1 .. p.length : g[p.pos + i] = m.held[i]
  BY <1>3
<1>6. tj.pages = Append(ti.pages, p) /\ tj.maxVal = ti.maxVal
  BY DEF AddPage
<1>7. /\ Len(tj.pages) = K + 1 /\ tj.pages[K + 1] = p
      /\ \A k \in 1 .. K : tj.pages[k] = ti.pages[k]
      /\ \A k \in 1 .. Len(tj.pages) : k \in 1 .. K \/ k = K + 1
  <2>1. H \in 1 .. H /\ m.held[H] \in Posting
    BY <1>1, <1>2
  <2>2. p \in Page
    BY <1>1, <2>1 DEF Page, Posting
  <2>3. /\ Len(Append(ti.pages, p)) = K + 1 /\ Append(ti.pages, p)[K + 1] = p
        /\ \A k \in 1 .. K : Append(ti.pages, p)[k] = ti.pages[k]
    BY <1>1, <2>2, AppendProperties
  <2>4. K \in Nat
    BY <1>1
  <2>. HIDE DEF tj, K
  <2>5. \A k \in 1 .. K + 1 : k \in 1 .. K \/ k = K + 1
    BY <2>4
  <2>. QED
    BY <1>6, <2>3, <2>5
<1>8. NewMem.held = <<>> /\ NewMem.maxVal = 0 /\ \A i \in 1 .. Len(NewMem.held) : FALSE
  BY DEF NewMem
<1>9. Faithful(g, tj, NewMem, t, n)
  <2> HIDE DEF g, tj, K, H
  <2>1. Described(g, tj.pages, tj.maxVal)
    <3>1. ASSUME NEW k \in 1 .. Len(tj.pages)
          PROVE  /\ tj.pages[k].length > 0
                 /\ tj.pages[k].pos + tj.pages[k].length <= Len(g)
                 /\ tj.pages[k].maxDoc = g[tj.pages[k].pos + tj.pages[k].length].doc
                 /\ tj.pages[k].maxVal <= tj.maxVal
                 /\ \A i \in 1 .. tj.pages[k].length : g[tj.pages[k].pos + i].val <= tj.pages[k].maxVal
      <4>1. CASE k \in 1 .. K
        <5>1. tj.pages[k] = ti.pages[k]
          BY <1>7, <4>1
        <5>2. Described(g, ti.pages, ti.maxVal)
          BY <1>4 DEF Faithful
        <5>3. /\ ti.pages[k].length > 0
              /\ ti.pages[k].pos + ti.pages[k].length <= Len(g)
              /\ ti.pages[k].maxDoc = g[ti.pages[k].pos + ti.pages[k].length].doc
              /\ ti.pages[k].maxVal <= ti.maxVal
              /\ \A i \in 1 .. ti.pages[k].length : g[ti.pages[k].pos + i].val <= ti.pages[k].maxVal
          BY <4>1, <5>2, Zenon DEF Described, K
        <5>. QED
          BY <1>6, <5>1, <5>3
      <4>2. CASE k = K + 1
        <5>1. tj.pages[k] = p /\ H > 0
          BY <1>7, <4>2 DEF H
        <5>2. HeldBounded(m, ti.maxVal)
          BY DEF Faithful
        <5>0. p.pos + p.length = Len(g)
          BY <1>3, <1>5
        <5>3. H \in 1 .. H
          BY <1>1, <5>1
        <5>4. g[p.pos + p.length] = m.held[H]
          BY <1>5, <5>3
        <5>5. \A i \in 1 .. p.length : g[p.pos + i].val <= p.maxVal
          BY <1>5, <5>2 DEF HeldBounded, H
        <5>6. p.maxVal <= tj.maxVal
          BY <1>5, <1>6, <5>2 DEF HeldBounded
        <5>7. Len(g) <= Len(g)
          BY <1>3
        <5>. QED
          BY <1>5, <5>0, <5>1, <5>4, <5>5, <5>6, <5>7
      <4>. QED
        BY <1>7, <4>1, <4>2
    <3>. QED
      BY <3>1 DEF Described
  <2>2. HeldBounded(NewMem, tj.maxVal)
    BY <1>1, <1>6, <1>8 DEF HeldBounded
  <2>3. Sound(g, tj.pages, NewMem.held, t, n)
    <3>1. ASSUME NEW k \in 1 .. Len(tj.pages), NEW i \in 1 .. tj.pages[k].length
          PROVE  IsPosting(g[tj.pages[k].pos + i], t, n)
      <4>1. CASE k \in 1 .. K
        <5>1. tj.pages[k] = ti.pages[k]
          BY <1>7, <4>1
        <5>. QED
          BY <1>4, <4>1, <5>1 DEF Faithful, Sound, K
      <4>2. CASE k = K + 1
        <5>1. i \in 1 .. H /\ g[tj.pages[k].pos + i] = m.held[i]
          BY <1>5, <1>7, <4>2
        <5>. QED
          BY <5>1 DEF Faithful, Sound, H
      <4>. QED
        BY <1>7, <4>1, <4>2
    <3>. QED
      BY <1>8, <3>1 DEF Sound
  <2>4. Complete(g, tj.pages, NewMem.held, t, n)
    <3>1. ASSUME NEW d \in Occurs(t, n)
          PROVE  \E k \in 1 .. Len(tj.pages) : \E i \in 1 .. tj.pages[k].length :
                   g[tj.pages[k].pos + i].doc = d
      <4>1. CASE \E k \in 1 .. K : \E i \in 1 .. ti.pages[k].length :
                   g[ti.pages[k].pos + i].doc = d
        <5>1. PICK k \in 1 .. K : \E i \in 1 .. ti.pages[k].length :
                g[ti.pages[k].pos + i].doc = d
          BY <4>1
        <5>2. k \in 1 .. Len(tj.pages) /\ tj.pages[k] = ti.pages[k]
          BY <1>1, <1>7
        <5>. QED
          BY <5>1, <5>2
      <4>2. CASE \E i \in 1 .. H : m.held[i].doc = d
        <5>1. PICK i \in 1 .. H : m.held[i].doc = d
          BY <4>2
        <5>2. K + 1 \in 1 .. Len(tj.pages)
          BY <1>1, <1>7
        <5>3. i \in 1 .. tj.pages[K + 1].length /\ g[tj.pages[K + 1].pos + i].doc = d
          BY <1>5, <1>7, <5>1
        <5>. QED
          BY <5>2, <5>3
      <4>. QED
        BY <1>4, <4>1, <4>2 DEF Faithful, Complete, K, H
    <3>. QED
      BY <3>1 DEF Complete
  <2>5. Ordered(g, tj.pages, NewMem.held)
    <3>1. ASSUME NEW k \in 1 .. Len(tj.pages), NEW i \in 1 .. tj.pages[k].length,
                 NEW j \in 1 .. tj.pages[k].length, i < j
          PROVE  g[tj.pages[k].pos + i].doc < g[tj.pages[k].pos + j].doc
      <4>1. CASE k \in 1 .. K
        <5>1. tj.pages[k] = ti.pages[k]
          BY <1>7, <4>1
        <5>. QED
          BY <1>4, <3>1, <4>1, <5>1 DEF Faithful, Ordered, K
      <4>2. CASE k = K + 1
        <5>1. /\ i \in 1 .. H /\ g[tj.pages[k].pos + i] = m.held[i]
              /\ j \in 1 .. H /\ g[tj.pages[k].pos + j] = m.held[j]
          BY <1>5, <1>7, <4>2
        <5>. QED
          BY <3>1, <5>1 DEF Faithful, Ordered, H
      <4>. QED
        BY <1>7, <4>1, <4>2
    <3>2. ASSUME NEW k \in 1 .. Len(tj.pages), NEW l \in 1 .. Len(tj.pages),
                 NEW j \in 1 .. tj.pages[l].length, k < l
          PROVE  tj.pages[k].maxDoc < g[tj.pages[l].pos + j].doc
      <4>1. k \in 1 .. K
        BY <1>1, <1>7, <3>2
      <4>2. tj.pages[k] = ti.pages[k]
        BY <1>7, <4>1
      <4>3. CASE l \in 1 .. K
        <5>1. tj.pages[l] = ti.pages[l]
          BY <1>7, <4>3
        <5>. QED
          BY <1>4, <3>2, <4>1, <4>2, <4>3, <5>1 DEF Faithful, Ordered, K
      <4>4. CASE l = K + 1
        <5>1. j \in 1 .. H /\ g[tj.pages[l].pos + j] = m.held[j]
          BY <1>5, <1>7, <4>4
        <5>. QED
          BY <4>1, <4>2, <5>1 DEF Faithful, Ordered, K, H
      <4>. QED
        BY <1>7, <4>3, <4>4
    <3>. QED
      BY <1>8, <3>1, <3>2 DEF Ordered
  <2>. QED
    BY <2>1, <2>2, <2>3, <2>4, <2>5 DEF Faithful
<1>. QED
  BY <1>9

-----------------------------------------------------------------------------
(***************************************************************************)
(* What it takes for a write to leave the rest of the file alone           *)
(***************************************************************************)

\* The beginning of a file.
LEMMA Prefix ==
  ASSUME NEW f \in Seq(Posting), NEW q \in 0 .. Len(f)
  PROVE  /\ SubSeq(f, 1, q) \in Seq(Posting)
         /\ Len(SubSeq(f, 1, q)) = q
         /\ \A i \in 1 .. q : SubSeq(f, 1, q)[i] = f[i]
<1>1. Len(f) \in Nat /\ q \in Nat /\ \A i \in 1 .. q : f[i] \in Posting
  OBVIOUS
<1>2. /\ SubSeq(f, 1, q) \in Seq(Posting)
      /\ Len(SubSeq(f, 1, q)) = IF 1 <= q THEN q - 1 + 1 ELSE 0
      /\ \A i \in 1 .. q - 1 + 1 : SubSeq(f, 1, q)[i] = f[1 + i - 1]
  BY <1>1, SubSeqProperties
<1>3. (IF 1 <= q THEN q - 1 + 1 ELSE 0) = q /\ q - 1 + 1 = q
  BY <1>1
<1>4. \A i \in 1 .. q : 1 + i - 1 = i
  BY <1>1
<1>. QED
  BY <1>2, <1>3, <1>4

\* Writing records at an offset within the file.
LEMMA OverwriteProperties ==
  ASSUME NEW f \in Seq(Posting), NEW at \in 0 .. Len(f), NEW s \in Seq(Posting)
  PROVE  /\ Overwrite(f, at, s) \in Seq(Posting)
         /\ Len(Overwrite(f, at, s)) = Larger(Len(f), at + Len(s))
         /\ \A i \in 1 .. at : Overwrite(f, at, s)[i] = f[i]
         /\ \A i \in 1 .. Len(s) : Overwrite(f, at, s)[at + i] = s[i]
<1> DEFINE N == Larger(Len(f), at + Len(s))
<1>1. Len(f) \in Nat /\ Len(s) \in Nat /\ at \in Nat /\ at <= Len(f)
  OBVIOUS
<1>2. Overwrite(f, at, s) \in Seq(Posting)
  BY <1>1, OverwriteType
<1>3. N \in Nat /\ Len(f) <= N /\ at + Len(s) <= N
  BY <1>1 DEF Larger
<1>4. Len(Overwrite(f, at, s)) = N
  <2>. HIDE DEF N
  <2>. QED
    BY <1>3 DEF Overwrite, N
<1>5. ASSUME NEW i \in 1 .. at PROVE Overwrite(f, at, s)[i] = f[i]
  <2>1. i \in 1 .. N /\ i <= Len(f) /\ ~(at < i)
    BY <1>1, <1>3
  <2>. QED
    BY <2>1 DEF Overwrite
<1>6. ASSUME NEW i \in 1 .. Len(s) PROVE Overwrite(f, at, s)[at + i] = s[i]
  <2>1. at + i \in 1 .. N /\ at < at + i /\ at + i <= at + Len(s) /\ (at + i) - at = i
    BY <1>1, <1>3
  <2>. QED
    BY <2>1 DEF Overwrite
<1>. QED
  BY <1>2, <1>4, <1>5, <1>6

\* A write leaves what is before its offset.
LEMMA OverwritePrefix ==
  ASSUME NEW f \in Seq(Posting), NEW at \in 0 .. Len(f), NEW s \in Seq(Posting),
         NEW q \in 0 .. at
  PROVE  /\ SubSeq(Overwrite(f, at, s), 1, q) = SubSeq(f, 1, q)
         /\ q <= Len(Overwrite(f, at, s))
<1> DEFINE g == Overwrite(f, at, s)
<1>1. Len(f) \in Nat /\ Len(s) \in Nat /\ at \in Nat /\ at <= Len(f) /\ q \in Nat /\ q <= at
  OBVIOUS
<1>2. /\ g \in Seq(Posting) /\ Len(g) = Larger(Len(f), at + Len(s))
      /\ \A i \in 1 .. at : g[i] = f[i]
  BY OverwriteProperties
<1> HIDE DEF g
<1>3. q \in 0 .. Len(g) /\ q \in 0 .. Len(f)
  BY <1>1, <1>2 DEF Larger
<1>4. /\ SubSeq(g, 1, q) \in Seq(Posting) /\ Len(SubSeq(g, 1, q)) = q
      /\ \A i \in 1 .. q : SubSeq(g, 1, q)[i] = g[i]
  BY <1>2, <1>3, Prefix
<1>5. /\ SubSeq(f, 1, q) \in Seq(Posting) /\ Len(SubSeq(f, 1, q)) = q
      /\ \A i \in 1 .. q : SubSeq(f, 1, q)[i] = f[i]
  BY <1>3, Prefix
<1>6. \A i \in 1 .. q : i \in 1 .. at
  BY <1>1
<1>7. SubSeq(g, 1, q) = SubSeq(f, 1, q)
  BY <1>2, <1>4, <1>5, <1>6, SeqEqual
<1>. QED
  BY <1>1, <1>3, <1>7 DEF g

\* Handing the first n records of the buffer to the file moves the end of what
\* was written nowhere: the file up to the new offset, then the buffer, read alike.
LEMMA SpillWritten ==
  ASSUME NEW f \in Seq(Posting), NEW at \in 0 .. Len(f), NEW b \in Seq(Posting),
         NEW n \in 0 .. Len(b)
  PROVE  /\ SubSeq(Overwrite(f, at, SubSeq(b, 1, n)), 1, at + n) \o SubSeq(b, n + 1, Len(b))
               = SubSeq(f, 1, at) \o b
         /\ at + n <= Len(Overwrite(f, at, SubSeq(b, 1, n)))
         /\ Len(SubSeq(b, n + 1, Len(b))) = Len(b) - n
<1> DEFINE w == SubSeq(b, 1, n)
           g == Overwrite(f, at, w)
           c == SubSeq(b, n + 1, Len(b))
           x == SubSeq(g, 1, at + n)
           y == SubSeq(f, 1, at)
<1>1. /\ Len(f) \in Nat /\ Len(b) \in Nat /\ at \in Nat /\ at <= Len(f)
      /\ n \in Nat /\ n <= Len(b) /\ \A i \in 1 .. Len(b) : b[i] \in Posting
  OBVIOUS
<1>2. w \in Seq(Posting) /\ Len(w) = n /\ \A i \in 1 .. n : w[i] = b[i]
  BY Prefix
<1> HIDE DEF w
<1>3. c \in Seq(Posting) /\ Len(c) = Len(b) - n /\ \A i \in 1 .. Len(b) - n : c[i] = b[n + i]
  <2>1. \A i \in n + 1 .. Len(b) : b[i] \in Posting
    BY <1>1
  <2>2. /\ c \in Seq(Posting)
        /\ Len(c) = IF n + 1 <= Len(b) THEN Len(b) - (n + 1) + 1 ELSE 0
        /\ \A i \in 1 .. Len(b) - (n + 1) + 1 : c[i] = b[n + 1 + i - 1]
    BY <1>1, <2>1, SubSeqProperties
  <2>3. /\ (IF n + 1 <= Len(b) THEN Len(b) - (n + 1) + 1 ELSE 0) = Len(b) - n
        /\ Len(b) - (n + 1) + 1 = Len(b) - n
        /\ \A i \in 1 .. Len(b) - n : n + 1 + i - 1 = n + i
    BY <1>1
  <2>. HIDE DEF c
  <2>. QED
    BY <2>2, <2>3
<1>4. /\ g \in Seq(Posting) /\ Len(g) = Larger(Len(f), at + n)
      /\ \A i \in 1 .. at : g[i] = f[i]
      /\ \A i \in 1 .. n : g[at + i] = b[i]
  <2>1. /\ g \in Seq(Posting) /\ Len(g) = Larger(Len(f), at + Len(w))
        /\ \A i \in 1 .. at : g[i] = f[i]
        /\ \A i \in 1 .. Len(w) : g[at + i] = w[i]
    BY <1>2, OverwriteProperties, Zenon
  <2> HIDE DEF g
  <2>. QED
    BY <1>2, <2>1, Zenon
<1> HIDE DEF g, c
<1>5. at + n \in 0 .. Len(g)
  <2>1. at \in Nat /\ n \in Nat /\ Len(f) \in Nat
    BY <1>1
  <2>. QED
    BY <1>4, <2>1 DEF Larger
<1>6. /\ x \in Seq(Posting) /\ Len(x) = at + n /\ \A i \in 1 .. at + n : x[i] = g[i]
  BY <1>4, <1>5, Prefix
<1>7. /\ y \in Seq(Posting) /\ Len(y) = at /\ \A i \in 1 .. at : y[i] = f[i]
  BY Prefix
<1> HIDE DEF x, y
<1>8. /\ x \o c \in Seq(Posting) /\ Len(x \o c) = at + Len(b)
      /\ \A i \in 1 .. at + Len(b) :
           (x \o c)[i] = IF i <= at + n THEN x[i] ELSE c[i - (at + n)]
  <2>1. Len(x) + Len(c) = at + Len(b)
    BY <1>1, <1>3, <1>6
  <2>2. /\ x \o c \in Seq(Posting) /\ Len(x \o c) = Len(x) + Len(c)
        /\ \A i \in 1 .. Len(x) + Len(c) :
             (x \o c)[i] = IF i <= Len(x) THEN x[i] ELSE c[i - Len(x)]
    BY <1>3, <1>6, ConcatProperties
  <2>. QED
    BY <1>6, <2>1, <2>2, Zenon
<1>9. /\ y \o b \in Seq(Posting) /\ Len(y \o b) = at + Len(b)
      /\ \A i \in 1 .. at + Len(b) : (y \o b)[i] = IF i <= at THEN y[i] ELSE b[i - at]
  BY <1>7, ConcatProperties
<1>10. ASSUME NEW i \in 1 .. at + Len(b) PROVE (x \o c)[i] = (y \o b)[i]
  <2>1. CASE i <= at
    <3>1. i \in 1 .. at /\ i \in 1 .. at + n /\ i <= at + n
      BY <1>1, <2>1
    <3>. QED
      BY <1>4, <1>6, <1>7, <1>8, <1>9, <2>1, <3>1
  <2>2. CASE at < i /\ i <= at + n
    <3>1. i - at \in 1 .. n /\ i \in 1 .. at + n /\ at + (i - at) = i /\ ~(i <= at)
      BY <1>1, <2>2
    <3>2. x[i] = b[i - at]
      BY <1>4, <1>6, <3>1
    <3>. QED
      BY <1>8, <1>9, <2>2, <3>1, <3>2
  <2>3. CASE at + n < i
    <3>1. /\ i - (at + n) \in 1 .. Len(b) - n /\ ~(i <= at + n) /\ ~(i <= at)
          /\ n + (i - (at + n)) = i - at
      BY <1>1, <2>3
    <3>2. c[i - (at + n)] = b[i - at]
      BY <1>3, <3>1
    <3>. QED
      BY <1>8, <1>9, <3>1, <3>2
  <2>4. i <= at \/ (at < i /\ i <= at + n) \/ at + n < i
    BY <1>1
  <2>. QED
    BY <2>1, <2>2, <2>3, <2>4
<1>11. x \o c = y \o b
  BY <1>8, <1>9, <1>10, SeqEqual
<1>12. at + n <= Len(g)
  BY <1>1, <1>4, <1>5
<1>. QED
  BY <1>3, <1>11, <1>12, Zenon DEF x, y, c, g, w

-----------------------------------------------------------------------------
(***************************************************************************)
(* What survives the death of the process                                  *)
(***************************************************************************)

\* Every session uses checkpoints, or none does.
SteadyFrequency == 0 \notin Frequencies \/ Frequencies = {0}

-----------------------------------------------------------------------------
(***************************************************************************)
(* The inductive invariant                                                 *)
(***************************************************************************)

\* What postings.dat reads once the BufWriter is written out, up to its end.
Written == SubSeq(file, 1, cursor) \o buf

\* The tracked position is the end of what was written.
Tracked == cursor <= Len(file) /\ pos = cursor + Len(buf)

\* The first document whose posting for t was not added yet.
Upto(t) == IF phase = "adding" /\ t \notin todo THEN next + 1 ELSE next

\* A running process: the pages in what was written, with what is held, are the
\* postings of the documents added.
MemoryInv ==
  Running =>
    /\ Tracked
    /\ \A t \in Terms : Faithful(Written, terms[t], mem[t], t, Upto(t))
    /\ \A t \in Terms : terms[t].length = 0 \/ terms[t].maxDoc < Upto(t)
    /\ phase = "adding" => \A t \in todo : source[next + 1][t] > 0

\* A checkpoint is resumable, and no write of the running process is below it.
CheckpointInv ==
  ckpt.state = "complete" =>
    /\ Resumable
    /\ \A t \in Terms : ckpt.terms[t].length = 0 \/ ckpt.terms[t].maxDoc <= ckpt.doc
    /\ Running => ckpt.pos <= cursor
    /\ 0 \notin Frequencies

\* The checkpoint being written, and the frequency that asked for it.
WritingInv ==
  /\ Running => freq \in Frequencies
  /\ phase \in {"ckpt_flush", "ckpt_write", "ckpt_rename"} => freq > 0
  /\ phase \in {"ckpt_write", "ckpt_rename"} => buf = <<>>

BuildPhases == {"build_flush", "build_write", "build_clean", "build_clean_tmp",
                "build_manifest", "built"}

\* A build: which terms are flushed, and from when on the metadata can be read.
BuildInv ==
  /\ phase \in BuildPhases => next = Len(source)
  /\ phase = "build_flush" => \A t \in Terms : t < scan => mem[t].held = <<>>
  /\ phase \in BuildPhases \ {"build_flush"} =>
       buf = <<>> /\ \A t \in Terms : mem[t].held = <<>>
  /\ phase \in BuildPhases \ {"build_flush", "build_write"} => Readable(Len(source))
  /\ manifest <=> phase = "built"

Inv == TypeInv /\ MemoryInv /\ CheckpointInv /\ WritingInv /\ BuildInv

-----------------------------------------------------------------------------
(***************************************************************************)
(* The steps and the memory of the process                                 *)
(***************************************************************************)

\* The parts of a well-typed state the lemmas above ask for.
LEMMA TypeParts ==
  ASSUME TypeOK
  PROVE  /\ file \in Seq(Posting) /\ buf \in Seq(Posting) /\ Len(file) \in Nat /\ Len(buf) \in Nat
         /\ pos \in Nat /\ cursor \in Nat /\ next \in Nat /\ Len(source) \in Nat
         /\ next <= Len(source)
         /\ \A t \in Terms : terms[t] \in TermRecord /\ mem[t] \in HeldRecord
         /\ ckpt.state = "complete" =>
              /\ ckpt.pos \in Nat /\ ckpt.doc \in Nat
              /\ \A t \in Terms : ckpt.terms[t] \in TermRecord /\ ckpt.mem[t] \in HeldRecord
<1>1. ckpt.state = "complete" => ckpt \in Checkpoint
  BY CheckpointType
<1>2. /\ file \in Seq(Posting) /\ buf \in Seq(Posting)
      /\ pos \in Nat /\ cursor \in Nat /\ next \in 0 .. Len(source) /\ source \in Seq(Documents)
      /\ terms \in TermInfo /\ mem \in TermMem
  BY DEF TypeOK
<1>3. Len(source) \in Nat /\ next \in Nat /\ next <= Len(source)
  BY <1>2
<1>4. \A t \in Terms : terms[t] \in TermRecord /\ mem[t] \in HeldRecord
  BY <1>2 DEF TermInfo, TermMem, TermRecord, HeldRecord
<1>5. ckpt.state = "complete" => ckpt.pos \in Nat /\ ckpt.doc \in Nat
                                /\ ckpt.terms \in TermInfo /\ ckpt.mem \in TermMem
  BY <1>1 DEF Checkpoint
<1>6. ckpt.state = "complete" =>
        \A t \in Terms : ckpt.terms[t] \in TermRecord /\ ckpt.mem[t] \in HeldRecord
  BY <1>5 DEF TermInfo, TermMem, TermRecord, HeldRecord
<1>7. Len(file) \in Nat /\ Len(buf) \in Nat
  BY <1>2
<1>. QED
  BY <1>2, <1>3, <1>4, <1>5, <1>6, <1>7

\* What was written is a file, as long as the two parts of it.
LEMMA WrittenType ==
  ASSUME TypeOK, Tracked
  PROVE  Written \in Seq(Posting) /\ Len(Written) = pos
<1>1. /\ file \in Seq(Posting) /\ buf \in Seq(Posting) /\ Len(file) \in Nat
      /\ cursor \in 0 .. Len(file) /\ pos = cursor + Len(buf)
  BY TypeParts DEF Tracked
<1>2. SubSeq(file, 1, cursor) \in Seq(Posting) /\ Len(SubSeq(file, 1, cursor)) = cursor
  BY <1>1, Prefix
<1>. QED
  BY <1>1, <1>2, ConcatProperties DEF Written

\* Nothing is faithful to no document.
LEMMA FaithfulEmpty ==
  ASSUME NEW f, NEW t \in Terms
  PROVE  Faithful(f, NewTerm, NewMem, t, 0)
<1>1. NewTerm.pages = <<>> /\ NewMem.held = <<>> /\ NewMem.maxVal = 0 /\ NewTerm.maxVal = 0
  BY DEF NewTerm, NewMem
<1>2. Occurs(t, 0) = {}
  BY DEF Occurs
<1>3. 1 .. Len(<<>>) = {}
  OBVIOUS
<1>. QED
  BY <1>1, <1>2, <1>3 DEF Faithful, Described, HeldBounded, Sound, Complete, Ordered

\* Writing records in two goes or in one.
LEMMA AppendedTwice ==
  \A a, b, c \in Seq(Posting) : (a \o b) \o c = a \o (b \o c)
<1> SUFFICES ASSUME NEW a \in Seq(Posting), NEW b \in Seq(Posting), NEW c \in Seq(Posting)
             PROVE  (a \o b) \o c = a \o (b \o c)
  OBVIOUS
<1>. QED
  BY ConcatAssociative

\* A flush of term t, known with what is held of it to be faithful below n,
\* keeps every term faithful to what is written.
LEMMA FlushMemory ==
  ASSUME TypeOK, Tracked,
         NEW t \in Terms, NEW ti \in TermRecord, NEW m \in HeldRecord, NEW n \in Nat,
         Len(m.held) > 0, Faithful(Written, ti, m, t, n),
         UNCHANGED <<source, file, cursor>>, Flush(t, ti, m)
  PROVE  /\ Tracked'
         /\ Faithful(Written', terms'[t], mem'[t], t, n)
         /\ \A u \in Terms \ {t} : \A l \in Nat :
              Faithful(Written, terms[u], mem[u], u, l)
                => Faithful(Written', terms'[u], mem'[u], u, l)
         /\ terms'[t].maxDoc = ti.maxDoc /\ terms'[t].length = ti.length
         /\ \A u \in Terms \ {t} : terms'[u] = terms[u] /\ mem'[u] = mem[u]
         /\ mem'[t] = NewMem
<1>1. /\ Written \in Seq(Posting) /\ Len(Written) = pos
  BY WrittenType
<1>2. /\ m.held \in Seq(Posting) /\ Len(m.held) \in Nat /\ buf \in Seq(Posting)
      /\ Len(buf) \in Nat /\ cursor \in Nat /\ SubSeq(file, 1, cursor) \in Seq(Posting)
  <2>1. /\ file \in Seq(Posting) /\ buf \in Seq(Posting) /\ Len(file) \in Nat
        /\ cursor \in 0 .. Len(file) /\ cursor \in Nat /\ Len(buf) \in Nat
    BY TypeParts DEF Tracked
  <2>. QED
    BY <2>1, Prefix DEF HeldRecord
<1>3. Written' = Written \o m.held
  <2>1. Written' = SubSeq(file, 1, cursor) \o (buf \o m.held)
    BY DEF Flush, Written
  <2>2. (SubSeq(file, 1, cursor) \o buf) \o m.held = SubSeq(file, 1, cursor) \o (buf \o m.held)
    BY <1>2, AppendedTwice, Zenon
  <2>. QED
    BY <2>1, <2>2 DEF Written
<1>4. Tracked'
  <2> DEFINE B == Len(buf)
             H == Len(m.held)
  <2>1. Len(buf \o m.held) = B + H
    BY <1>2, ConcatProperties
  <2>2. Len(buf') = B + H /\ pos' = pos + H /\ cursor' = cursor /\ file' = file
    BY <2>1, Zenon DEF Flush
  <2>3. B \in Nat /\ H \in Nat /\ cursor \in Nat
    BY <1>2
  <2>4. pos = cursor + B /\ cursor <= Len(file)
    BY DEF Tracked
  <2> HIDE DEF B, H
  <2>5. pos' = cursor' + Len(buf')
    BY <2>2, <2>3, <2>4
  <2>. QED
    BY <2>2, <2>4, <2>5 DEF Tracked
<1>5. /\ terms'[t] = AddPage(ti, PageOf(m)) /\ mem'[t] = NewMem
      /\ \A u \in Terms \ {t} : terms'[u] = terms[u] /\ mem'[u] = mem[u]
  BY DEF Flush, TypeOK, TermInfo, TermMem
<1>6. Faithful(Written', terms'[t], mem'[t], t, n)
  BY <1>1, <1>3, <1>5, FaithfulPage DEF PageOf
<1>7. /\ Written \o m.held \in Seq(Posting) /\ Len(Written) <= Len(Written \o m.held)
      /\ \A i \in 1 .. Len(Written) : (Written \o m.held)[i] = Written[i]
  BY <1>1, <1>2, ConcatProperties
<1>8. ASSUME NEW u \in Terms \ {t}, NEW l \in Nat, Faithful(Written, terms[u], mem[u], u, l)
      PROVE  Faithful(Written', terms'[u], mem'[u], u, l)
  <2>1. terms[u] \in TermRecord /\ mem[u] \in HeldRecord
    BY TypeParts
  <2>. QED
    BY <1>1, <1>3, <1>5, <1>7, <1>8, <2>1, FaithfulExtend
<1>. QED
  BY <1>4, <1>5, <1>6, <1>8 DEF AddPage

\* Opening the directory, with postings.dat as long and, up to the offset of the
\* checkpoint, as it was.
LEMMA OpenMemory ==
  ASSUME Inv, TypeInv', NEW f \in Frequencies, Open(f), source' = source,
         ckpt.state = "complete" => /\ SubSeq(file', 1, ckpt.pos) = SubSeq(file, 1, ckpt.pos)
                                    /\ ckpt.pos <= Len(file')
  PROVE  MemoryInv' /\ (ckpt.state = "complete" => cursor' = ckpt.pos)
<1>1. phase' = "idle" /\ buf' = <<>> /\ \A t \in Terms : Upto(t)' = next'
  BY DEF Open, Upto
<1>2. CASE OpenCheckpoint /\ f > 0 /\ ckpt.state = "complete"
  <2>1. /\ ckpt.pos \in Nat /\ ckpt.doc \in Nat
        /\ \A t \in Terms : Faithful(SubSeq(file, 1, ckpt.pos), ckpt.terms[t], ckpt.mem[t], t, ckpt.doc + 1)
        /\ \A t \in Terms : ckpt.terms[t].length = 0 \/ ckpt.terms[t].maxDoc <= ckpt.doc
    BY <1>2, TypeParts DEF Inv, TypeInv, CheckpointInv, Resumable
  <2>2. /\ file' \in Seq(Posting) /\ ckpt.pos \in 0 .. Len(file')
    BY <1>2, <2>1 DEF TypeInv, TypeOK
  <2>3. SubSeq(file', 1, ckpt.pos) \in Seq(Posting)
    BY <2>2, Prefix
  <2>4. Written' = SubSeq(file, 1, ckpt.pos)
    BY <1>1, <1>2, <2>3, ConcatEmptySeq DEF OpenCheckpoint, Written
  <2>5. Tracked'
    BY <1>1, <1>2, <2>1 DEF OpenCheckpoint, Tracked
  <2>6. ASSUME NEW t \in Terms
        PROVE  /\ Faithful(Written, terms[t], mem[t], t, Upto(t))'
               /\ terms'[t].length = 0 \/ terms'[t].maxDoc < Upto(t)'
    <3>1. ckpt.doc + 1 \in Nat /\ \A e \in 0 .. (ckpt.doc + 1) - 1 : source'[e + 1] = source[e + 1]
      BY <2>1
    <3>2. Faithful(SubSeq(file, 1, ckpt.pos), ckpt.terms[t], ckpt.mem[t], t, ckpt.doc + 1)
      BY <2>1
    <3>3. /\ terms'[t] = ckpt.terms[t] /\ mem'[t] = ckpt.mem[t] /\ Upto(t)' = ckpt.doc + 1
      BY <1>1, <1>2 DEF OpenCheckpoint
    <3>4. Faithful(Written', terms'[t], mem'[t], t, Upto(t)')
      BY <2>4, <3>2, <3>3
    <3>5. Faithful(Written, terms[t], mem[t], t, Upto(t))'
      BY <3>1, <3>3, <3>4, FaithfulSource
    <3>6. ckpt.terms[t].maxDoc \in Nat
      BY <1>2, TypeParts DEF Inv, TypeInv, TermRecord
    <3>7. ckpt.terms[t].length = 0 \/ ckpt.terms[t].maxDoc < ckpt.doc + 1
      BY <2>1, <3>6
    <3>. QED
      BY <3>3, <3>5, <3>7
  <2>. QED
    BY <1>1, <1>2, <2>5, <2>6 DEF MemoryInv, OpenCheckpoint
<1>3. CASE OpenFresh /\ (f = 0 \/ ckpt.state # "complete")
  <2>1. ckpt.state # "complete"
    BY <1>3 DEF Inv, CheckpointInv
  <2>2. Tracked'
    BY <1>1, <1>3 DEF OpenFresh, Tracked, TypeInv, TypeOK
  <2>3. ASSUME NEW t \in Terms
        PROVE  /\ Faithful(Written, terms[t], mem[t], t, Upto(t))'
               /\ terms'[t].length = 0
    <3>1. terms'[t] = NewTerm /\ mem'[t] = NewMem /\ Upto(t)' = 0
      BY <1>1, <1>3 DEF OpenFresh
    <3>2. Faithful(Written', NewTerm, NewMem, t, 0)
      BY FaithfulEmpty
    <3>3. Faithful(Written, terms[t], mem[t], t, Upto(t))'
      BY <3>1, <3>2, FaithfulSource
    <3>. QED
      BY <3>1, <3>3 DEF NewTerm
  <2>. QED
    BY <1>1, <2>1, <2>2, <2>3 DEF MemoryInv
<1>. QED
  BY <1>2, <1>3 DEF Open

\* A step that leaves the collection, the files' postings and the memory alone.
LEMMA MemoryKept ==
  ASSUME TypeOK, MemoryInv, Running, phase # "adding", phase' # "adding",
         UNCHANGED <<source, next, file, terms, mem, pos, cursor, buf>>
  PROVE  MemoryInv'
<1>1. \A t \in Terms : Upto(t) = next /\ Upto(t)' = next
  BY DEF Upto
<1>2. Written' = Written /\ (Tracked => Tracked')
  BY DEF Written, Tracked
<1>3. ASSUME NEW t \in Terms, Faithful(Written, terms[t], mem[t], t, Upto(t))
      PROVE  Faithful(Written, terms[t], mem[t], t, Upto(t))'
  <2>1. terms'[t] = terms[t] /\ mem'[t] = mem[t] /\ Upto(t)' = Upto(t)
    BY <1>1, Zenon
  <2>2. \A e \in 0 .. Upto(t) - 1 : source'[e + 1] = source[e + 1]
    OBVIOUS
  <2>3. Upto(t) \in Nat
    BY TypeParts DEF Upto
  <2>4. Faithful(Written', terms'[t], mem'[t], t, Upto(t)')
    BY <1>2, <1>3, <2>1, Zenon
  <2>. QED
    BY <2>1, <2>2, <2>3, <2>4, FaithfulSource
<1>. QED
  BY <1>1, <1>2, <1>3 DEF MemoryInv

\* The BufWriter hands over the first n records it holds.
HandOver(n) ==
  /\ file' = Overwrite(file, cursor, SubSeq(buf, 1, n))
  /\ cursor' = cursor + n
  /\ buf' = SubSeq(buf, n + 1, Len(buf))

\* Handing over records leaves what was written, and what is before the offset.
LEMMA SpillMemory ==
  ASSUME TypeOK, MemoryInv, Running, NEW n \in 0 .. Len(buf), HandOver(n),
         UNCHANGED <<source, next, terms, mem, pos, todo>>,
         phase' = phase \/ {phase, phase'} \cap {"adding"} = {}
  PROVE  /\ MemoryInv'
         /\ \A q \in 0 .. cursor : SubSeq(file', 1, q) = SubSeq(file, 1, q) /\ q <= Len(file')
<1>1. /\ file \in Seq(Posting) /\ buf \in Seq(Posting) /\ cursor \in 0 .. Len(file)
      /\ cursor \in Nat /\ Len(buf) \in Nat /\ SubSeq(buf, 1, n) \in Seq(Posting)
  BY TypeParts, Prefix DEF MemoryInv, Tracked
<1>2. /\ Written' = Written
      /\ cursor + n <= Len(file')
      /\ Len(buf') = Len(buf) - n
  <2>1. /\ SubSeq(file', 1, cursor + n) \o buf' = SubSeq(file, 1, cursor) \o buf
        /\ cursor + n <= Len(file')
        /\ Len(buf') = Len(buf) - n
    <3> DEFINE g == Overwrite(file, cursor, SubSeq(buf, 1, n))
               c == SubSeq(buf, n + 1, Len(buf))
    <3>1. /\ SubSeq(g, 1, cursor + n) \o c = SubSeq(file, 1, cursor) \o buf
          /\ cursor + n <= Len(g)
          /\ Len(c) = Len(buf) - n
      BY <1>1, SpillWritten, Zenon
    <3>. QED
      BY <3>1, Zenon DEF HandOver
  <2>. QED
    BY <2>1, Zenon DEF Written, HandOver
<1>3. Tracked'
  <2> DEFINE B == Len(buf)
  <2>1. pos' = cursor + B /\ Len(buf') = B - n /\ cursor' = cursor + n /\ cursor + n <= Len(file')
    BY <1>2 DEF MemoryInv, Tracked, HandOver
  <2>2. B \in Nat /\ n \in Nat /\ cursor \in Nat
    BY <1>1
  <2> HIDE DEF B
  <2>3. pos' = cursor' + Len(buf')
    BY <2>1, <2>2
  <2>. QED
    BY <2>1, <2>3 DEF Tracked
<1>4. \A t \in Terms : Upto(t)' = Upto(t)
  BY DEF Upto
<1>5. ASSUME NEW t \in Terms, Faithful(Written, terms[t], mem[t], t, Upto(t))
      PROVE  Faithful(Written, terms[t], mem[t], t, Upto(t))'
  <2>1. Upto(t) \in Nat
    BY TypeParts DEF Upto
  <2>2. Faithful(Written', terms'[t], mem'[t], t, Upto(t)')
    BY <1>2, <1>4, <1>5, Zenon
  <2>3. \A e \in 0 .. Upto(t) - 1 : source'[e + 1] = source[e + 1]
    OBVIOUS
  <2>4. Upto(t)' = Upto(t)
    BY <1>4
  <2>. QED
    BY <2>1, <2>2, <2>3, <2>4, FaithfulSource
<1>6. ASSUME NEW q \in 0 .. cursor
      PROVE  SubSeq(file', 1, q) = SubSeq(file, 1, q) /\ q <= Len(file')
  <2>1. q \in 0 .. cursor /\ cursor \in 0 .. Len(file)
    BY <1>1
  <2>. QED
    <3> DEFINE s == SubSeq(buf, 1, n)
    <3>1. s \in Seq(Posting) /\ file \in Seq(Posting) /\ file' = Overwrite(file, cursor, s)
      BY <1>1 DEF HandOver
    <3> HIDE DEF s
    <3>. QED
      BY <2>1, <3>1, OverwritePrefix
<1>. QED
  BY <1>3, <1>4, <1>5, <1>6 DEF MemoryInv

\* The whole BufWriter is written out.
LEMMA SyncMemory ==
  ASSUME TypeOK, MemoryInv, Running, Sync, UNCHANGED <<source, next, terms, mem, pos, todo>>,
         phase # "adding", phase' # "adding"
  PROVE  /\ MemoryInv'
         /\ \A q \in 0 .. cursor : SubSeq(file', 1, q) = SubSeq(file, 1, q) /\ q <= Len(file')
         /\ buf' = <<>> /\ cursor' = cursor + Len(buf)
<1>1. buf \in Seq(Posting) /\ Len(buf) \in Nat
  BY TypeParts
<1>2. SubSeq(buf, 1, Len(buf)) = buf /\ SubSeq(buf, Len(buf) + 1, Len(buf)) = <<>>
  BY <1>1, SubSeqFull, SubSeqEmpty
<1>3. HandOver(Len(buf))
  BY <1>2, Zenon DEF Sync, HandOver
<1>4. Len(buf) \in 0 .. Len(buf)
  BY <1>1
<1>5. {phase, phase'} \cap {"adding"} = {}
  OBVIOUS
<1>. QED
  BY <1>2, <1>3, <1>5, <1>4, SpillMemory DEF HandOver

\* The flush loops run over the terms.
LEMMA ScanInTerms ==
  ASSUME TypeOK, scan < NumTerms
  PROVE  scan \in Terms
BY IndexerAssumption DEF TypeOK, Terms

\* An iteration of a flush loop.
LEMMA FlushScannedMemory ==
  ASSUME TypeOK, MemoryInv, Running, phase # "adding", phase' = phase,
         NEW least \in Nat, FlushScanned(least), UNCHANGED <<source, next, file, cursor>>
  PROVE  /\ MemoryInv'
         /\ \A t \in Terms \ {scan} : mem'[t] = mem[t]
         /\ scan \in Terms /\ scan' = scan + 1
         /\ Len(mem[scan].held) < Larger(least, 1) => mem' = mem
         /\ Len(mem[scan].held) >= Larger(least, 1) => mem'[scan] = NewMem
<1>1. scan \in Terms /\ scan' = scan + 1
  BY ScanInTerms, Zenon DEF FlushScanned
<1>2. /\ \A t \in Terms : Upto(t) = next /\ Upto(t)' = next
      /\ next \in Nat /\ terms[scan] \in TermRecord /\ mem[scan] \in HeldRecord
      /\ Len(mem[scan].held) \in Nat
  BY <1>1, TypeParts DEF Upto, HeldRecord
<1>3. CASE Len(mem[scan].held) >= Larger(least, 1) /\ Flush(scan, terms[scan], mem[scan])
  <2>1. Len(mem[scan].held) > 0
    BY <1>2, <1>3 DEF Larger
  <2>2. Tracked /\ Faithful(Written, terms[scan], mem[scan], scan, next)
    BY <1>1, <1>2 DEF MemoryInv
  <2>3. /\ Tracked'
        /\ Faithful(Written', terms'[scan], mem'[scan], scan, next)
        /\ \A u \in Terms \ {scan} : \A l \in Nat :
              Faithful(Written, terms[u], mem[u], u, l)
                => Faithful(Written', terms'[u], mem'[u], u, l)
        /\ terms'[scan].maxDoc = terms[scan].maxDoc /\ terms'[scan].length = terms[scan].length
        /\ \A u \in Terms \ {scan} : terms'[u] = terms[u] /\ mem'[u] = mem[u]
        /\ mem'[scan] = NewMem
    BY <1>1, <1>2, <1>3, <2>1, <2>2, FlushMemory
  <2>4. ASSUME NEW t \in Terms
        PROVE  /\ Faithful(Written, terms[t], mem[t], t, Upto(t))'
               /\ terms'[t].length = 0 \/ terms'[t].maxDoc < Upto(t)'
    <3>1. Faithful(Written, terms[t], mem[t], t, next)
      BY <1>2 DEF MemoryInv
    <3>2. Faithful(Written', terms'[t], mem'[t], t, next)
      BY <1>2, <2>3, <3>1
    <3>3. \A e \in 0 .. next - 1 : source'[e + 1] = source[e + 1]
      OBVIOUS
    <3>4. Faithful(Written, terms[t], mem[t], t, Upto(t))'
      BY <1>2, <3>2, <3>3, FaithfulSource
    <3>5. terms[t].length = 0 \/ terms[t].maxDoc < next
      BY <1>2 DEF MemoryInv
    <3>. QED
      BY <1>2, <2>3, <3>4, <3>5
  <2>5. Larger(least, 1) \in Nat
    BY DEF Larger
  <2>. QED
    BY <1>1, <1>2, <1>3, <2>3, <2>4, <2>5 DEF MemoryInv
<1>4. CASE ~(Len(mem[scan].held) >= Larger(least, 1)) /\ UNCHANGED postings
  <2>1. MemoryInv'
    BY <1>4, MemoryKept DEF postings
  <2>. QED
    BY <1>1, <1>4, <2>1 DEF postings
<1>. QED
  BY <1>3, <1>4 DEF FlushScanned

\* The caller hands over a document.
LEMMA BeginAddMemory ==
  ASSUME TypeInv, MemoryInv, NEW d \in Documents, BeginAdd(d)
  PROVE  /\ MemoryInv'
         /\ \A e \in 1 .. Len(source) : source'[e] = source[e]
<1>1. /\ phase = "idle" /\ phase' = "adding" /\ Running /\ todo' = {t \in Terms : d[t] > 0}
      /\ UNCHANGED <<next, file, terms, mem, pos, cursor, buf>>
  BY DEF BeginAdd, Running, postings
<1>2. /\ source \in Seq(Documents) /\ next \in 0 .. Len(source) /\ Len(source) \in Nat /\ next \in Nat
  BY DEF TypeInv, TypeOK
<1>3. source'[next + 1] = d /\ \A e \in 1 .. Len(source) : source'[e] = source[e]
  <2>1. CASE next < Len(source) /\ d = source[next + 1] /\ UNCHANGED source
    BY <2>1
  <2>2. CASE ~(next < Len(source)) /\ source' = Append(source, d)
    <3>1. next = Len(source)
      BY <1>2, <2>2
    <3>. QED
      BY <1>2, <2>2, <3>1, AppendProperties
  <2>. QED
    BY <2>1, <2>2 DEF BeginAdd
<1>4. \A e \in 0 .. next - 1 : source'[e + 1] = source[e + 1]
  <2>1. \A e \in 0 .. next - 1 : e + 1 \in 1 .. Len(source)
    BY <1>2
  <2>. QED
    BY <1>3, <2>1
<1>5. Written' = Written /\ (Tracked => Tracked')
  BY <1>1 DEF Written, Tracked
<1>6. ASSUME NEW t \in Terms
      PROVE  /\ Faithful(Written, terms[t], mem[t], t, Upto(t))'
             /\ terms'[t].length = 0 \/ terms'[t].maxDoc < Upto(t)'
  <2>1. /\ Faithful(Written, terms[t], mem[t], t, next)
        /\ terms[t].length = 0 \/ terms[t].maxDoc < next
    BY <1>1 DEF MemoryInv, Upto
  <2>2. terms[t].maxDoc \in Nat
    BY TypeParts DEF TypeInv, TermRecord
  <2>3. CASE t \in todo'
    <3>1. Upto(t)' = next
      BY <1>1, <2>3 DEF Upto
    <3>2. Faithful(Written', terms'[t], mem'[t], t, next)
      BY <1>1, <1>5, <2>1
    <3>3. Faithful(Written, terms[t], mem[t], t, Upto(t))'
      BY <1>2, <1>4, <3>1, <3>2, FaithfulSource
    <3>. QED
      BY <1>1, <2>1, <3>1, <3>3
  <2>4. CASE ~(t \in todo')
    <3>1. Upto(t)' = next + 1 /\ ~(source'[next + 1][t] > 0)
      BY <1>1, <1>3, <2>4 DEF Upto
    <3>2. Faithful(Written', terms'[t], mem'[t], t, next)
      BY <1>1, <1>5, <2>1
    <3>3. Faithful(Written, terms[t], mem[t], t, Upto(t))'
      BY <1>2, <1>4, <3>1, <3>2, FaithfulSkip
    <3>4. terms[t].length = 0 \/ terms[t].maxDoc < next + 1
      BY <1>2, <2>1, <2>2
    <3>. QED
      BY <1>1, <3>1, <3>3, <3>4
  <2>. QED
    BY <2>3, <2>4
<1>7. \A t \in todo' : source'[next' + 1][t] > 0
  BY <1>1, <1>3
<1>. QED
  BY <1>1, <1>3, <1>5, <1>6, <1>7 DEF MemoryInv

\* A posting is added to one of the terms of the document.
LEMMA AddImpactMemory ==
  ASSUME TypeInv, MemoryInv, NEW t \in Terms, AddImpact(t)
  PROVE  MemoryInv'
<1> DEFINE val == source[next + 1][t]
           ti == CountPosting(terms[t], next, val)
           m == HoldPosting(mem[t], next, val)
<1>1. /\ phase = "adding" /\ phase' = "adding" /\ Running /\ t \in todo /\ todo' = todo \ {t}
      /\ UNCHANGED <<source, next, file, cursor>>
  BY DEF AddImpact, Running, caller
<1>2. next \in Nat /\ val \in Nat /\ val > 0 /\ next + 1 \in Nat
  <2>1. next \in 0 .. Len(source) - 1 /\ next \in Nat
    BY <1>1 DEF TypeInv, TypeOK, Shape
  <2>2. source[next + 1][t] \in Nat
    BY <2>1, ImpactType DEF TypeInv
  <2>. QED
    BY <1>1, <2>1, <2>2 DEF MemoryInv
<1>3. /\ ti \in TermRecord /\ m \in HeldRecord
      /\ Len(m.held) = Len(mem[t].held) + 1 /\ Len(mem[t].held) \in Nat
      /\ ti.maxDoc = next
  <2>1. ti.maxDoc = next
    BY DEF CountPosting
  <2>. QED
    BY <1>2, <2>1, AddType DEF TypeInv, TermRecord, HeldRecord
<1>4. Written \in Seq(Posting) /\ Tracked /\ terms[t] \in TermRecord /\ mem[t] \in HeldRecord
  BY <1>1, WrittenType, TypeParts DEF MemoryInv, TypeInv
<1>5. Faithful(Written, ti, m, t, next + 1)
  <2>1. Faithful(Written, terms[t], mem[t], t, next)
    BY <1>1 DEF MemoryInv, Upto
  <2>. QED
    BY <1>2, <1>4, <2>1, FaithfulPush
<1>6. /\ Upto(t)' = next + 1
      /\ \A u \in Terms \ {t} : Upto(u)' = Upto(u) /\ Upto(u) \in Nat
  BY <1>1, <1>2 DEF Upto
<1>7. /\ Tracked'
      /\ Faithful(Written', terms'[t], mem'[t], t, next + 1)
      /\ \A u \in Terms \ {t} : \A l \in Nat :
           Faithful(Written, terms[u], mem[u], u, l)
             => Faithful(Written', terms'[u], mem'[u], u, l)
      /\ terms'[t].maxDoc = next
      /\ \A u \in Terms \ {t} : terms'[u] = terms[u]
  <2> HIDE DEF ti, m
  <2>1. CASE Flush(t, ti, m)
    <3>1. Len(m.held) > 0
      BY <1>3
    <3>. QED
      BY <1>1, <1>2, <1>3, <1>4, <1>5, <2>1, <3>1, FlushMemory DEF TypeInv
  <2>2. CASE /\ terms' = [terms EXCEPT ![t] = ti]
             /\ mem' = [mem EXCEPT ![t] = m]
             /\ UNCHANGED <<pos, buf>>
    <3>1. Written' = Written /\ Tracked'
      BY <1>1, <1>4, <2>2 DEF Written, Tracked
    <3>2. /\ terms'[t] = ti /\ mem'[t] = m
          /\ \A u \in Terms \ {t} : terms'[u] = terms[u] /\ mem'[u] = mem[u]
      BY <2>2 DEF TypeInv, TypeOK, TermInfo, TermMem
    <3>. QED
      BY <1>3, <1>5, <3>1, <3>2
  <2>. QED
    BY <2>1, <2>2 DEF AddImpact, ti, m
<1>8. ASSUME NEW u \in Terms
      PROVE  /\ Faithful(Written, terms[u], mem[u], u, Upto(u))'
             /\ terms'[u].length = 0 \/ terms'[u].maxDoc < Upto(u)'
  <2>1. Upto(u)' \in Nat
    BY <1>2, <1>6
  <2>2. Faithful(Written', terms'[u], mem'[u], u, Upto(u)')
    <3>1. CASE u = t
      BY <1>6, <1>7, <3>1
    <3>2. CASE u # t
      <4>1. Faithful(Written, terms[u], mem[u], u, Upto(u))
        BY <1>1 DEF MemoryInv
      <4>. QED
        BY <1>6, <1>7, <3>2, <4>1
    <3>. QED
      BY <3>1, <3>2
  <2>3. \A e \in 0 .. Upto(u)' - 1 : source'[e + 1] = source[e + 1]
    BY <1>1
  <2>4. Faithful(Written, terms[u], mem[u], u, Upto(u))'
    BY <2>1, <2>2, <2>3, FaithfulSource
  <2>5. terms'[u].length = 0 \/ terms'[u].maxDoc < Upto(u)'
    <3>1. CASE u = t
      BY <1>2, <1>6, <1>7, <3>1
    <3>2. CASE u # t
      BY <1>1, <1>6, <1>7, <3>2 DEF MemoryInv
    <3>. QED
      BY <3>1, <3>2
  <2>. QED
    BY <2>4, <2>5
<1>9. \A u \in todo' : source'[next' + 1][u] > 0
  BY <1>1 DEF MemoryInv
<1>. QED
  BY <1>1, <1>7, <1>8, <1>9 DEF MemoryInv

\* The document is in.
LEMMA EndAddMemory ==
  ASSUME TypeInv, MemoryInv, EndAdd
  PROVE  MemoryInv'
<1>1. /\ phase = "adding" /\ phase' # "adding" /\ Running /\ todo = {} /\ next' = next + 1
      /\ UNCHANGED <<source, file, terms, mem, pos, cursor, buf>>
  BY DEF EndAdd, Running, caller, postings
<1>2. next \in Nat /\ \A t \in Terms : Upto(t) = next + 1 /\ Upto(t)' = next + 1
  BY <1>1, TypeParts DEF Upto, TypeInv
<1>3. Written' = Written /\ (Tracked => Tracked')
  BY <1>1 DEF Written, Tracked
<1>4. ASSUME NEW t \in Terms
      PROVE  Faithful(Written, terms[t], mem[t], t, Upto(t))'
  <2>1. Faithful(Written', terms'[t], mem'[t], t, next + 1)
    BY <1>1, <1>2, <1>3 DEF MemoryInv
  <2>2. \A e \in 0 .. (next + 1) - 1 : source'[e + 1] = source[e + 1]
    BY <1>1
  <2>. QED
    BY <1>2, <2>1, <2>2, FaithfulSource
<1>. QED
  BY <1>1, <1>2, <1>3, <1>4 DEF MemoryInv

-----------------------------------------------------------------------------
(***************************************************************************)
(* The steps and the rest of the invariant                                 *)
(***************************************************************************)

\* A checkpoint stays resumable while the part of postings.dat below its
\* offset, and the documents it counts, stay as they are.
LEMMA CheckpointKept ==
  ASSUME TypeInv, CheckpointInv, ckpt' = ckpt,
         \A e \in 1 .. Len(source) : source'[e] = source[e],
         Len(source') \in Nat, Len(source) <= Len(source'),
         ckpt.state = "complete" => /\ SubSeq(file', 1, ckpt.pos) = SubSeq(file, 1, ckpt.pos)
                                    /\ ckpt.pos <= Len(file')
                                    /\ Running' => ckpt.pos <= cursor'
  PROVE  CheckpointInv'
<1> SUFFICES ASSUME ckpt.state = "complete"
             PROVE  /\ Resumable'
                    /\ \A t \in Terms : ckpt.terms[t].length = 0 \/ ckpt.terms[t].maxDoc <= ckpt.doc
                    /\ 0 \notin Frequencies
  BY DEF CheckpointInv
<1>1. /\ Resumable
      /\ \A t \in Terms : ckpt.terms[t].length = 0 \/ ckpt.terms[t].maxDoc <= ckpt.doc
      /\ 0 \notin Frequencies
  BY DEF CheckpointInv
<1>2. ckpt.doc \in Nat /\ ckpt.doc < Len(source) /\ Len(source) \in Nat
  BY <1>1, TypeParts DEF TypeInv, Resumable
<1>3. ASSUME NEW t \in Terms
      PROVE  Faithful(SubSeq(file, 1, ckpt.pos), ckpt.terms[t], ckpt.mem[t], t, ckpt.doc + 1)'
  <2>1. Faithful(SubSeq(file', 1, ckpt'.pos), ckpt'.terms[t], ckpt'.mem[t], t, ckpt'.doc + 1)
    BY <1>1 DEF Resumable
  <2>2. \A e \in 0 .. (ckpt.doc + 1) - 1 : source'[e + 1] = source[e + 1]
    <3>1. \A e \in 0 .. (ckpt.doc + 1) - 1 : e + 1 \in 1 .. Len(source)
      BY <1>2
    <3>. QED
      BY <3>1
  <2>3. ckpt'.doc + 1 \in Nat /\ ckpt'.doc = ckpt.doc
    BY <1>2
  <2>. QED
    BY <2>1, <2>2, <2>3, FaithfulSource
<1>4. ckpt'.doc < Len(source') /\ ckpt'.pos <= Len(file')
  BY <1>2
<1>. QED
  BY <1>1, <1>3, <1>4 DEF Resumable

\* Outside a build there is nothing to say of it.
LEMMA NotBuilding ==
  ASSUME BuildInv, phase # "built", manifest' = manifest, phase' \notin BuildPhases
  PROVE  BuildInv'
BY DEF BuildInv, BuildPhases

\* Within a build, metadata that can be read stays so while the files do.
LEMMA ReadableKept ==
  ASSUME TypeOK, UNCHANGED <<source, file, info>>, Readable(Len(source))
  PROVE  Readable(Len(source))'
<1>1. Len(source) \in Nat
  BY TypeParts
<1>2. ASSUME NEW t \in Terms PROVE Faithful(file, info.terms[t], NewMem, t, Len(source))'
  <2>1. Faithful(file', info'.terms[t], NewMem, t, Len(source'))
    BY DEF Readable
  <2>2. \A e \in 0 .. Len(source) - 1 : source'[e + 1] = source[e + 1]
    OBVIOUS
  <2>. QED
    BY <1>1, <2>1, <2>2, FaithfulSource
<1>. QED
  BY <1>2 DEF Readable

\* The initial state satisfies the invariant.
LEMMA InvInit == Init => Inv
<1> SUFFICES ASSUME Init PROVE Inv
  OBVIOUS
<1>1. ~Running /\ phase = "down" /\ ckpt.state # "complete" /\ manifest = FALSE
  BY DEF Init, Running, Absent
<1>. QED
  BY <1>1, TypeInit DEF Inv, MemoryInv, CheckpointInv, WritingInv, BuildInv, BuildPhases

\* Opening the directory keeps the invariant.
LEMMA OpenStep ==
  ASSUME Inv, TypeInv', NEW f \in Frequencies, Start(f) \/ Reopen(f)
  PROVE  Inv'
<1>1. /\ Open(f) /\ phase' = "idle" /\ freq' = f /\ phase \in {"down", "idle"}
      /\ UNCHANGED <<source, ckpt, tmp, info, manifest>>
  BY DEF Start, Reopen, Open, caller, disk
<1>2. ASSUME ckpt.state = "complete"
      PROVE  SubSeq(file', 1, ckpt.pos) = SubSeq(file, 1, ckpt.pos) /\ ckpt.pos <= Len(file')
  <2>1. f # 0 /\ ckpt.pos \in Nat /\ ckpt.pos <= Len(file) /\ Len(file) \in Nat
    BY <1>2, TypeParts DEF Inv, TypeInv, CheckpointInv, Resumable
  <2>2. CASE file' = file
    BY <2>1, <2>2
  <2>3. CASE Reopen(f) /\ buf # <<>> /\ file' = Overwrite(file, cursor, buf)
    <3>1. /\ cursor \in 0 .. Len(file) /\ ckpt.pos \in 0 .. cursor
          /\ file \in Seq(Posting) /\ buf \in Seq(Posting)
      <4>1. Running /\ Tracked /\ ckpt.pos <= cursor
        BY <1>2, <2>3 DEF Reopen, Running, Inv, MemoryInv, CheckpointInv
      <4>. QED
        BY <2>1, <4>1, TypeParts DEF Tracked, Inv, TypeInv
    <3>. QED
      BY <2>3, <3>1, OverwritePrefix
  <2>. QED
    BY <2>1, <2>2, <2>3 DEF Start, Reopen
<1>3. MemoryInv' /\ (ckpt.state = "complete" => cursor' = ckpt.pos)
  BY <1>1, <1>2, OpenMemory
<1>4. CheckpointInv'
  <2>1. Len(source') \in Nat /\ Len(source) <= Len(source')
    BY <1>1, TypeParts DEF Inv, TypeInv
  <2>2. ckpt.state = "complete" => ckpt.pos <= cursor'
    BY <1>3, TypeParts DEF Inv, TypeInv
  <2>. QED
    BY <1>1, <1>2, <2>1, <2>2, CheckpointKept DEF Inv
<1>5. WritingInv'
  BY <1>1 DEF WritingInv
<1>6. BuildInv'
  BY <1>1, NotBuilding DEF Inv, BuildPhases
<1>. QED
  BY <1>3, <1>4, <1>5, <1>6 DEF Inv

\* A write of the running process, at or after the offset of its file, keeps
\* the checkpoint.
LEMMA WriteKeepsCheckpoint ==
  ASSUME Inv, TypeInv', Running, UNCHANGED <<ckpt, source>>, cursor <= cursor',
         \A q \in 0 .. cursor : SubSeq(file', 1, q) = SubSeq(file, 1, q) /\ q <= Len(file')
  PROVE  CheckpointInv'
<1>1. Len(source') \in Nat /\ Len(source) <= Len(source')
  BY TypeParts DEF Inv, TypeInv
<1>2. ASSUME ckpt.state = "complete"
      PROVE  /\ SubSeq(file', 1, ckpt.pos) = SubSeq(file, 1, ckpt.pos)
             /\ ckpt.pos <= Len(file')
             /\ Running' => ckpt.pos <= cursor'
  <2>1. cursor \in Nat /\ cursor' \in Nat /\ ckpt.pos \in Nat /\ ckpt.pos <= cursor
    BY <1>2, TypeParts DEF Inv, TypeInv, TypeOK, CheckpointInv
  <2>. QED
    BY <2>1
<1>. QED
  BY <1>1, <1>2, CheckpointKept DEF Inv

\* The BufWriter writing out part of what it holds keeps the invariant.
LEMMA SpillStep ==
  ASSUME Inv, TypeInv', NEW n \in 1 .. Len(buf), Spill(n)
  PROVE  Inv'
<1>1. /\ Running /\ HandOver(n) /\ phase' = phase
      /\ UNCHANGED <<source, next, ckpt, info, manifest, freq, terms, mem, pos, todo, scan>>
  BY DEF Spill, HandOver, caller, disk
<1>2. buf # <<>> /\ n \in 0 .. Len(buf) /\ n \in Nat /\ cursor \in Nat
  BY TypeParts DEF Inv, TypeInv
<1>3. /\ MemoryInv'
      /\ \A q \in 0 .. cursor : SubSeq(file', 1, q) = SubSeq(file, 1, q) /\ q <= Len(file')
  BY <1>1, <1>2, SpillMemory DEF Inv, TypeInv
<1>4. cursor <= cursor'
  BY <1>1, <1>2 DEF HandOver
<1>5. CheckpointInv'
  BY <1>1, <1>3, <1>4, WriteKeepsCheckpoint
<1>6. Running' /\ phase \notin {"ckpt_write", "ckpt_rename"} /\ phase \notin BuildPhases \ {"build_flush"}
  BY <1>1, <1>2 DEF Inv, WritingInv, BuildInv, Running
<1>7. WritingInv'
  BY <1>1, <1>6 DEF Inv, WritingInv
<1>8. BuildInv'
  BY <1>1, <1>6 DEF Inv, BuildInv
<1>. QED
  BY <1>3, <1>5, <1>7, <1>8 DEF Inv

\* Adding a document keeps the invariant.
LEMMA AddStep ==
  ASSUME Inv, TypeInv',
         (\E d \in Documents : BeginAdd(d)) \/ (\E t \in Terms : AddImpact(t)) \/ EndAdd
  PROVE  Inv'
<1>1. /\ phase \in {"idle", "adding"} /\ phase' \in {"adding", "idle", "ckpt_flush"}
      /\ phase' = "ckpt_flush" => freq > 0
      /\ Running /\ UNCHANGED <<file, ckpt, info, manifest, freq, cursor>>
  BY DEF BeginAdd, AddImpact, EndAdd, CheckpointDue, Running, caller, disk, postings
<1>2. MemoryInv'
  BY BeginAddMemory, AddImpactMemory, EndAddMemory DEF Inv
<1>3. /\ \A e \in 1 .. Len(source) : source'[e] = source[e]
      /\ Len(source') \in Nat /\ Len(source) <= Len(source')
  <2>1. CASE source' = source
    BY <2>1, TypeParts DEF Inv, TypeInv
  <2>2. ASSUME NEW d \in Documents, source' = Append(source, d)
        PROVE  /\ \A e \in 1 .. Len(source) : source'[e] = source[e]
               /\ Len(source') \in Nat /\ Len(source) <= Len(source')
    <3>1. source \in Seq(Documents)
      BY DEF Inv, TypeInv, TypeOK
    <3>. QED
      BY <2>2, <3>1, AppendProperties
  <2>3. source' = source \/ \E d \in Documents : source' = Append(source, d)
    BY DEF BeginAdd, AddImpact, EndAdd, caller
  <2>. QED
    BY <2>1, <2>2, <2>3
<1>4. CheckpointInv'
  <2>1. ckpt.state = "complete" => ckpt.pos <= Len(file) /\ ckpt.pos <= cursor
    BY <1>1 DEF Inv, CheckpointInv, Resumable
  <2>. QED
    BY <1>1, <1>3, <2>1, CheckpointKept DEF Inv
<1>5. WritingInv'
  BY <1>1 DEF Inv, WritingInv
<1>6. BuildInv'
  BY <1>1, NotBuilding DEF Inv, BuildPhases
<1>. QED
  BY <1>2, <1>4, <1>5, <1>6 DEF Inv

\* A checkpoint keeps the invariant, and leaves one that is resumable.
LEMMA CheckpointStep ==
  ASSUME SteadyFrequency, Inv, TypeInv', Checkpointing
  PROVE  Inv'
<1> USE DEF Inv
<1>1. CASE CheckpointFlush
  <2>1. /\ Running /\ phase = "ckpt_flush" /\ phase' = phase
        /\ UNCHANGED <<source, next, file, ckpt, info, manifest, freq, cursor>>
        /\ FlushScanned(CkptThreshold) /\ CkptThreshold \in Nat
    BY <1>1, IndexerAssumption DEF CheckpointFlush, Running, caller, disk
  <2>2. MemoryInv'
    BY <2>1, FlushScannedMemory DEF TypeInv
  <2>3. CheckpointInv'
    <3>1. ckpt.state = "complete" => ckpt.pos <= Len(file) /\ ckpt.pos <= cursor
      BY <2>1 DEF CheckpointInv, Resumable
    <3>2. Len(source') \in Nat /\ Len(source) <= Len(source')
      BY <2>1, TypeParts DEF TypeInv
    <3>. QED
      BY <2>1, <3>1, <3>2, CheckpointKept
  <2>4. WritingInv'
    BY <2>1 DEF WritingInv, Running
  <2>5. BuildInv'
    BY <2>1, NotBuilding DEF BuildPhases
  <2>. QED
    BY <2>2, <2>3, <2>4, <2>5
<1>2. CASE CheckpointCreate
  <2>1. /\ Running /\ Running' /\ phase = "ckpt_flush" /\ phase' = "ckpt_write" /\ Sync
        /\ UNCHANGED <<source, next, ckpt, info, manifest, freq, terms, mem, pos, todo>>
    BY <1>2 DEF CheckpointCreate, Running, caller
  <2>2. /\ MemoryInv' /\ buf' = <<>> /\ cursor' = cursor + Len(buf)
        /\ \A q \in 0 .. cursor : SubSeq(file', 1, q) = SubSeq(file, 1, q) /\ q <= Len(file')
    BY <2>1, SyncMemory DEF TypeInv
  <2>3. cursor <= cursor'
    BY <2>2, TypeParts DEF TypeInv
  <2>4. CheckpointInv'
    BY <2>1, <2>2, <2>3, WriteKeepsCheckpoint
  <2>5. WritingInv'
    BY <2>1, <2>2 DEF WritingInv
  <2>6. BuildInv'
    BY <2>1, NotBuilding DEF BuildPhases
  <2>. QED
    BY <2>2, <2>4, <2>5, <2>6
<1>3. CASE CheckpointWrite
  <2>1. /\ Running /\ Running' /\ phase = "ckpt_write" /\ phase' = "ckpt_rename"
        /\ UNCHANGED <<source, next, file, ckpt, info, manifest, freq, terms, mem, pos, cursor, buf>>
    BY <1>3 DEF CheckpointWrite, Running, caller, postings
  <2>2. MemoryInv'
    BY <2>1, MemoryKept DEF TypeInv
  <2>3. CheckpointInv'
    <3>1. ckpt.state = "complete" => ckpt.pos <= Len(file) /\ ckpt.pos <= cursor
      BY <2>1 DEF CheckpointInv, Resumable
    <3>2. Len(source') \in Nat /\ Len(source) <= Len(source')
      BY <2>1, TypeParts DEF TypeInv
    <3>. QED
      BY <2>1, <3>1, <3>2, CheckpointKept
  <2>4. WritingInv'
    BY <2>1 DEF WritingInv
  <2>5. BuildInv'
    BY <2>1, NotBuilding DEF BuildPhases
  <2>. QED
    BY <2>2, <2>3, <2>4, <2>5
<1>4. CASE CheckpointRename
  <2>1. /\ Running /\ Running' /\ phase = "ckpt_rename" /\ phase' = "idle" /\ ckpt' = tmp
        /\ UNCHANGED <<source, next, file, info, manifest, freq, terms, mem, pos, cursor, buf>>
    BY <1>4 DEF CheckpointRename, Running, caller, postings
  <2>2. MemoryInv'
    BY <2>1, MemoryKept DEF TypeInv
  <2>3. /\ ckpt'.pos = pos /\ ckpt'.doc = next - 1 /\ ckpt'.terms = terms /\ ckpt'.mem = mem
        /\ next > 0 /\ next \in Nat
    BY <2>1, TypeParts DEF TypeInv, Shape, Snapshot
  <2>4. ckpt'.doc < Len(source') /\ next = ckpt'.doc + 1
    BY <2>1, <2>3, TypeParts DEF TypeInv
  <2>5. /\ cursor <= Len(file) /\ pos = cursor /\ Written = SubSeq(file, 1, pos)
    <3>1. buf = <<>> /\ cursor <= Len(file) /\ pos = cursor + Len(buf)
      BY <2>1 DEF WritingInv, MemoryInv, Tracked
    <3>2. pos = cursor
      BY <3>1, TypeParts DEF TypeInv
    <3>3. file \in Seq(Posting) /\ cursor \in 0 .. Len(file)
      BY <3>1, TypeParts DEF TypeInv
    <3>4. SubSeq(file, 1, cursor) \in Seq(Posting)
      BY <3>3, Prefix
    <3>. QED
      BY <3>1, <3>2, <3>4, ConcatEmptySeq DEF Written
  <2>6. ASSUME NEW t \in Terms
        PROVE  /\ Faithful(SubSeq(file, 1, ckpt.pos), ckpt.terms[t], ckpt.mem[t], t, ckpt.doc + 1)'
               /\ ckpt'.terms[t].length = 0 \/ ckpt'.terms[t].maxDoc <= ckpt'.doc
    <3>1. /\ Faithful(Written, terms[t], mem[t], t, next)
          /\ terms[t].length = 0 \/ terms[t].maxDoc < next
      BY <2>1 DEF MemoryInv, Upto
    <3>2. Faithful(SubSeq(file', 1, ckpt'.pos), ckpt'.terms[t], ckpt'.mem[t], t, ckpt'.doc + 1)
      BY <2>1, <2>3, <2>4, <2>5, <3>1
    <3>3. \A e \in 0 .. (ckpt'.doc + 1) - 1 : source'[e + 1] = source[e + 1]
      BY <2>1
    <3>4. ckpt'.doc + 1 \in Nat
      BY <2>3, <2>4
    <3>5. Faithful(SubSeq(file, 1, ckpt.pos), ckpt.terms[t], ckpt.mem[t], t, ckpt.doc + 1)'
      BY <3>2, <3>3, <3>4, FaithfulSource
    <3>6. terms[t].maxDoc \in Nat
      BY TypeParts DEF TypeInv, TermRecord
    <3>. QED
      BY <2>3, <3>1, <3>5, <3>6
  <2>7. 0 \notin Frequencies
    BY <2>1 DEF SteadyFrequency, WritingInv
  <2>8. CheckpointInv'
    <3>1. ckpt'.pos <= Len(file') /\ ckpt'.pos <= cursor'
      BY <2>1, <2>3, <2>5, TypeParts DEF TypeInv
    <3>. QED
      BY <2>4, <2>6, <2>7, <3>1 DEF CheckpointInv, Resumable
  <2>9. WritingInv'
    BY <2>1 DEF WritingInv
  <2>10. BuildInv'
    BY <2>1, NotBuilding DEF BuildPhases
  <2>. QED
    BY <2>2, <2>8, <2>9, <2>10
<1>. QED
  BY <1>1, <1>2, <1>3, <1>4 DEF Checkpointing

\* The steps of build before the metadata is complete keep the invariant.
LEMMA BuildFlushStep ==
  ASSUME Inv, TypeInv', BeginBuild \/ BuildFlush \/ BuildCreate
  PROVE  Inv'
<1> USE DEF Inv
<1>1. CASE BeginBuild
  <2>1. /\ Running /\ Running' /\ phase = "idle" /\ phase' = "build_flush" /\ next = Len(source)
        /\ scan' = 0
        /\ UNCHANGED <<source, next, file, ckpt, info, manifest, freq, terms, mem, pos, cursor, buf>>
    BY <1>1 DEF BeginBuild, Running, caller, disk, postings
  <2>2. MemoryInv'
    BY <2>1, MemoryKept DEF TypeInv
  <2>3. CheckpointInv'
    <3>1. ckpt.state = "complete" => ckpt.pos <= Len(file) /\ ckpt.pos <= cursor
      BY <2>1 DEF CheckpointInv, Resumable
    <3>2. Len(source') \in Nat /\ Len(source) <= Len(source')
      BY <2>1, TypeParts DEF TypeInv
    <3>. QED
      BY <2>1, <3>1, <3>2, CheckpointKept
  <2>4. WritingInv'
    BY <2>1 DEF WritingInv
  <2>5. \A t \in Terms : ~(t < 0)
    BY IndexerAssumption DEF Terms
  <2>6. BuildInv'
    BY <2>1, <2>5 DEF BuildInv, BuildPhases
  <2>. QED
    BY <2>2, <2>3, <2>4, <2>6
<1>2. CASE BuildFlush
  <2>1. /\ Running /\ phase = "build_flush" /\ phase' = phase
        /\ UNCHANGED <<source, next, file, ckpt, info, manifest, freq, cursor>>
        /\ FlushScanned(1)
    BY <1>2 DEF BuildFlush, Running, caller, disk
  <2>2. /\ MemoryInv'
        /\ \A t \in Terms \ {scan} : mem'[t] = mem[t]
        /\ scan \in Terms /\ scan' = scan + 1
        /\ Len(mem[scan].held) < Larger(1, 1) => mem' = mem
        /\ Len(mem[scan].held) >= Larger(1, 1) => mem'[scan] = NewMem
    BY <2>1, FlushScannedMemory DEF TypeInv
  <2>3. CheckpointInv'
    <3>1. ckpt.state = "complete" => ckpt.pos <= Len(file) /\ ckpt.pos <= cursor
      BY <2>1 DEF CheckpointInv, Resumable
    <3>2. Len(source') \in Nat /\ Len(source) <= Len(source')
      BY <2>1, TypeParts DEF TypeInv
    <3>. QED
      BY <2>1, <3>1, <3>2, CheckpointKept
  <2>4. WritingInv'
    BY <2>1 DEF WritingInv, Running
  <2>5. mem'[scan].held = <<>>
    <3>1. mem[scan] \in HeldRecord
      BY <2>2, TypeParts DEF TypeInv
    <3>2. mem[scan].held \in Seq(Posting) /\ Len(mem[scan].held) \in Nat
      BY <3>1 DEF HeldRecord
    <3>3. Larger(1, 1) = 1
      BY DEF Larger
    <3>4. CASE Len(mem[scan].held) < 1
      BY <2>2, <3>2, <3>3, <3>4
    <3>5. CASE Len(mem[scan].held) >= 1
      BY <2>2, <3>3, <3>5 DEF NewMem
    <3>. QED
      BY <3>2, <3>4, <3>5
  <2>6. ASSUME NEW t \in Terms, t < scan'
        PROVE  mem'[t].held = <<>>
    <3>1. t \in Int /\ scan \in Int
      BY <2>2, IndexerAssumption DEF Terms
    <3>2. t = scan \/ t < scan
      BY <2>2, <2>6, <3>1
    <3>. QED
      BY <2>1, <2>2, <2>5, <3>2 DEF BuildInv
  <2>7. BuildInv'
    BY <2>1, <2>6 DEF BuildInv, BuildPhases
  <2>. QED
    BY <2>2, <2>3, <2>4, <2>7
<1>3. CASE BuildCreate
  <2>1. /\ Running /\ Running' /\ phase = "build_flush" /\ phase' = "build_write" /\ Sync
        /\ UNCHANGED <<source, next, ckpt, manifest, freq, terms, mem, pos, todo>>
        /\ scan = NumTerms
    BY <1>3 DEF BuildCreate, Sync, Running, caller
  <2>2. /\ MemoryInv' /\ buf' = <<>> /\ cursor' = cursor + Len(buf)
        /\ \A q \in 0 .. cursor : SubSeq(file', 1, q) = SubSeq(file, 1, q) /\ q <= Len(file')
    BY <2>1, SyncMemory DEF TypeInv
  <2>3. cursor <= cursor'
    BY <2>2, TypeParts DEF TypeInv
  <2>4. CheckpointInv'
    BY <2>1, <2>2, <2>3, WriteKeepsCheckpoint
  <2>5. WritingInv'
    BY <2>1, <2>2 DEF WritingInv
  <2>6. \A t \in Terms : t < scan
    BY <2>1, IndexerAssumption DEF Terms
  <2>7. \A t \in Terms : mem'[t].held = <<>>
    BY <2>1, <2>6 DEF BuildInv
  <2>8. BuildInv'
    BY <2>1, <2>2, <2>7 DEF BuildInv, BuildPhases
  <2>. QED
    BY <2>2, <2>4, <2>5, <2>8
<1>. QED
  BY <1>1, <1>2, <1>3

\* Once every held posting is in postings.dat, the metadata of the terms reads
\* back the collection.
LEMMA MetadataReadable ==
  ASSUME Inv, phase = "build_write",
         UNCHANGED <<source, file>>, info' = [state |-> "complete", terms |-> terms]
  PROVE  Readable(Len(source))'
<1>1. /\ Running /\ next = Len(source) /\ buf = <<>> /\ \A t \in Terms : mem[t].held = <<>>
  BY DEF Inv, BuildInv, BuildPhases, Running
<1>2. /\ Tracked /\ cursor \in 0 .. Len(file) /\ file \in Seq(Posting)
      /\ SubSeq(file, 1, cursor) \in Seq(Posting)
      /\ Len(SubSeq(file, 1, cursor)) = cursor
      /\ \A i \in 1 .. cursor : SubSeq(file, 1, cursor)[i] = file[i]
  <2>1. Tracked
    BY <1>1 DEF Inv, MemoryInv
  <2>2. cursor \in 0 .. Len(file) /\ file \in Seq(Posting)
    BY <2>1, TypeParts DEF Inv, TypeInv, Tracked
  <2>. QED
    BY <2>1, <2>2, Prefix
<1>3. Written = SubSeq(file, 1, cursor)
  BY <1>1, <1>2, ConcatEmptySeq DEF Written
<1>4. ASSUME NEW t \in Terms
      PROVE  Faithful(file, info.terms[t], NewMem, t, Len(source))'
  <2>1. Faithful(Written, terms[t], mem[t], t, next)
    BY <1>1 DEF Inv, MemoryInv, Upto
  <2>2. terms[t] \in TermRecord /\ mem[t] \in HeldRecord /\ next \in Nat
    BY TypeParts DEF Inv, TypeInv
  <2>3. Faithful(file, terms[t], mem[t], t, next)
    <3>1. Len(Written) <= Len(file) /\ \A i \in 1 .. Len(Written) : file[i] = Written[i]
      BY <1>2, <1>3
    <3>2. Written \in Seq(Posting)
      BY <1>2, <1>3
    <3>. QED
      BY <1>2, <2>1, <2>2, <3>1, <3>2, FaithfulExtend
  <2>4. Faithful(file, terms[t], NewMem, t, next)
    <3>1. mem[t].held = NewMem.held /\ HeldBounded(NewMem, terms[t].maxVal)
      BY <1>1, <2>2 DEF NewMem, HeldBounded, TermRecord
    <3>. QED
      BY <2>3, <3>1 DEF Faithful
  <2>5. Faithful(file', info'.terms[t], NewMem, t, Len(source'))
    BY <1>1, <2>4
  <2>6. \A e \in 0 .. Len(source) - 1 : source'[e + 1] = source[e + 1]
    OBVIOUS
  <2>7. Len(source) \in Nat
    BY TypeParts DEF Inv, TypeInv
  <2>. QED
    BY <2>5, <2>6, <2>7, FaithfulSource
<1>. QED
  BY <1>4 DEF Readable

\* The steps of build once postings.dat is complete keep the invariant.
LEMMA BuildPublishStep ==
  ASSUME Inv, TypeInv', BuildWrite \/ BuildClean \/ BuildManifest
  PROVE  Inv'
<1> USE DEF Inv
<1>1. /\ Running /\ phase # "adding" /\ phase' # "adding"
      /\ phase \in {"build_write", "build_clean", "build_clean_tmp", "build_manifest"}
      /\ phase' \in {"build_clean", "build_clean_tmp", "build_manifest", "built"}
      /\ UNCHANGED <<source, next, file, freq, terms, mem, pos, cursor, buf>>
      /\ ckpt' = ckpt \/ ckpt' = Absent
  BY DEF BuildWrite, BuildClean, BuildManifest, Running, caller, postings
<1>2. MemoryInv'
  BY <1>1, MemoryKept DEF TypeInv
<1>3. CheckpointInv'
  <2>1. CASE ckpt' = ckpt
    <3>1. ckpt.state = "complete" => ckpt.pos <= Len(file) /\ ckpt.pos <= cursor
      BY <1>1 DEF CheckpointInv, Resumable
    <3>2. Len(source') \in Nat /\ Len(source) <= Len(source')
      BY <1>1, TypeParts DEF TypeInv
    <3>. QED
      BY <1>1, <2>1, <3>1, <3>2, CheckpointKept
  <2>2. CASE ckpt' = Absent
    BY <2>2 DEF CheckpointInv, Absent
  <2>. QED
    BY <1>1, <2>1, <2>2
<1>4. WritingInv'
  BY <1>1 DEF WritingInv
<1>5. Readable(Len(source))'
  <2>1. CASE BuildWrite
    BY <1>1, <2>1, MetadataReadable DEF BuildWrite
  <2>2. CASE BuildClean \/ BuildManifest
    <3>1. info' = info /\ phase \in BuildPhases \ {"build_flush", "build_write"}
      BY <2>2 DEF BuildClean, BuildManifest, BuildPhases
    <3>2. Readable(Len(source))
      BY <3>1 DEF BuildInv
    <3>. QED
      BY <1>1, <3>1, <3>2, ReadableKept DEF TypeInv
  <2>. QED
    BY <2>1, <2>2
<1>6. manifest' <=> phase' = "built"
  <2>1. ~manifest
    BY <1>1 DEF BuildInv
  <2>. QED
    BY <2>1 DEF BuildWrite, BuildClean, BuildManifest
<1>7. BuildInv'
  <2>1. phase \in BuildPhases \ {"build_flush"}
    BY <1>1 DEF BuildPhases
  <2>2. next = Len(source) /\ buf = <<>> /\ \A t \in Terms : mem[t].held = <<>>
    BY <2>1 DEF BuildInv
  <2>3. next' = Len(source') /\ buf' = <<>> /\ \A t \in Terms : mem'[t].held = <<>>
    BY <1>1, <2>2
  <2>. QED
    BY <1>1, <1>5, <1>6, <2>3 DEF BuildInv
<1>. QED
  BY <1>2, <1>3, <1>4, <1>7

\* The loss of the process keeps what the files say.
LEMMA CrashStep ==
  ASSUME Inv, TypeInv', Crash
  PROVE  Inv'
<1>1. /\ Running /\ ~Running' /\ phase' = "down"
      /\ UNCHANGED <<source, file, ckpt, info, manifest>>
  BY DEF Crash, Running, disk
<1>2. MemoryInv'
  BY <1>1 DEF MemoryInv
<1>3. CheckpointInv'
  <2>1. ckpt.state = "complete" => ckpt.pos <= Len(file)
    BY DEF Inv, CheckpointInv, Resumable
  <2>2. Len(source') \in Nat /\ Len(source) <= Len(source')
    BY <1>1, TypeParts DEF Inv, TypeInv
  <2>. QED
    BY <1>1, <2>1, <2>2, CheckpointKept DEF Inv
<1>4. WritingInv'
  BY <1>1 DEF WritingInv
<1>5. BuildInv'
  BY <1>1, NotBuilding DEF Inv, BuildPhases, Running
<1>. QED
  BY <1>2, <1>3, <1>4, <1>5 DEF Inv

\* Nothing changes, nothing is lost.
LEMMA IdleStep ==
  ASSUME Inv, TypeInv', UNCHANGED vars
  PROVE  Inv'
<1> USE DEF Inv
<1>1. UNCHANGED <<source, next, file, ckpt, info, manifest, phase, freq, terms, mem, pos,
                  cursor, buf, todo, scan>>
  BY DEF vars
<1>2. MemoryInv'
  <2>1. ASSUME Running, NEW t \in Terms
        PROVE  Faithful(Written, terms[t], mem[t], t, Upto(t))'
    <3>1. Upto(t)' = Upto(t) /\ Upto(t) \in Nat /\ Written' = Written
      BY <1>1, TypeParts DEF Upto, Written, TypeInv
    <3>2. Faithful(Written', terms'[t], mem'[t], t, Upto(t))
      BY <1>1, <2>1, <3>1 DEF MemoryInv
    <3>3. \A e \in 0 .. Upto(t) - 1 : source'[e + 1] = source[e + 1]
      BY <1>1
    <3>. QED
      BY <3>1, <3>2, <3>3, FaithfulSource
  <2>2. Running' = Running /\ (Tracked => Tracked')
    BY <1>1 DEF Running, Tracked
  <2>3. \A t \in Terms : Upto(t)' = Upto(t)
    BY <1>1 DEF Upto
  <2>. QED
    BY <1>1, <2>1, <2>2, <2>3 DEF MemoryInv
<1>3. CheckpointInv'
  <2>1. ckpt.state = "complete" => ckpt.pos <= Len(file) /\ (Running => ckpt.pos <= cursor)
    BY DEF CheckpointInv, Resumable
  <2>2. Len(source') \in Nat /\ Len(source) <= Len(source')
    BY <1>1, TypeParts DEF TypeInv
  <2>3. Running' <=> Running
    BY <1>1 DEF Running
  <2>. QED
    BY <1>1, <2>1, <2>2, <2>3, CheckpointKept
<1>4. WritingInv'
  BY <1>1 DEF WritingInv, Running
<1>5. BuildInv'
  <2>1. Readable(Len(source)) => Readable(Len(source))'
    BY <1>1, ReadableKept DEF TypeInv
  <2>. QED
    BY <1>1, <2>1 DEF BuildInv
<1>. QED
  BY <1>2, <1>3, <1>4, <1>5

\* Every step keeps the invariant.
LEMMA InvStep == SteadyFrequency /\ Inv /\ [Next]_vars => Inv'
<1> SUFFICES ASSUME SteadyFrequency, Inv, [Next]_vars PROVE Inv'
  OBVIOUS
<1>1. TypeInv'
  BY TypeStep DEF Inv
<1>2. ASSUME NEW f \in Frequencies, Start(f) \/ Reopen(f) PROVE Inv'
  BY <1>1, <1>2, OpenStep
<1>3. ASSUME NEW n \in 1 .. Len(buf), Spill(n) PROVE Inv'
  BY <1>1, <1>3, SpillStep
<1>4. CASE (\E d \in Documents : BeginAdd(d)) \/ (\E t \in Terms : AddImpact(t)) \/ EndAdd
  BY <1>1, <1>4, AddStep
<1>5. CASE Checkpointing
  BY <1>1, <1>5, CheckpointStep
<1>6. CASE BeginBuild \/ BuildFlush \/ BuildCreate
  BY <1>1, <1>6, BuildFlushStep
<1>7. CASE BuildWrite \/ BuildClean \/ BuildManifest
  BY <1>1, <1>7, BuildPublishStep
<1>8. CASE Crash
  BY <1>1, <1>8, CrashStep
<1>9. CASE UNCHANGED vars
  BY <1>1, <1>9, IdleStep
<1>. QED
  BY <1>2, <1>3, <1>4, <1>5, <1>6, <1>7, <1>8, <1>9 DEF Next, Building, Finished

-----------------------------------------------------------------------------
(***************************************************************************)
(* The theorems                                                            *)
(***************************************************************************)

\* What build publishes is exactly the collection, whatever the crashes.
THEOREM BuildIsFaithful == SteadyFrequency => (Spec => []PublishedFaithful)
<1> SUFFICES ASSUME SteadyFrequency PROVE Spec => []PublishedFaithful
  OBVIOUS
<1>1. Inv /\ [Next]_vars => Inv'
  BY InvStep
<1>2. Inv => PublishedFaithful
  BY DEF Inv, BuildInv, BuildPhases, PublishedFaithful
<1>. QED
  BY <1>1, <1>2, InvInit, PTL DEF Spec

\* A checkpoint on disk can be resumed at every moment, whatever the crashes.
THEOREM CheckpointIsRecoverable == SteadyFrequency => (Spec => []CheckpointRecoverable)
<1> SUFFICES ASSUME SteadyFrequency PROVE Spec => []CheckpointRecoverable
  OBVIOUS
<1>1. Inv /\ [Next]_vars => Inv'
  BY InvStep
<1>2. Inv => CheckpointRecoverable
  BY DEF Inv, CheckpointInv, CheckpointRecoverable
<1>. QED
  BY <1>1, <1>2, InvInit, PTL DEF Spec

\* A caller that resumes where it is told never adds a document id too low.
THEOREM ResumeIsAccepted == SteadyFrequency => (Spec => []ResumeAccepted)
<1> SUFFICES ASSUME SteadyFrequency PROVE Spec => []ResumeAccepted
  OBVIOUS
<1>1. Inv /\ [Next]_vars => Inv'
  BY InvStep
<1>2. Inv => ResumeAccepted
  <2> SUFFICES ASSUME Inv, phase = "adding", NEW t \in todo PROVE DocIncreasing(t)
    BY DEF ResumeAccepted
  <2>1. Running /\ t \in Terms
    BY DEF Running, Inv, TypeInv, TypeOK
  <2>. QED
    BY <2>1 DEF Inv, MemoryInv, Upto, DocIncreasing
<1>. QED
  BY <1>1, <1>2, InvInit, PTL DEF Spec

\* build removes the checkpoint only once the metadata reads back the whole.
THEOREM BuildKeepsOne == SteadyFrequency => (Spec => CheckpointOutlivesBuild)
<1> SUFFICES ASSUME SteadyFrequency PROVE Spec => CheckpointOutlivesBuild
  OBVIOUS
<1>1. Inv /\ [Next]_vars => Inv'
  BY InvStep
<1>2. Inv /\ [Next]_vars =>
        [ckpt.state = "complete" /\ ckpt'.state # "complete" => Readable(Len(source))]_vars
  <2> SUFFICES ASSUME Inv, Next, ckpt.state = "complete", ckpt'.state # "complete"
               PROVE  Readable(Len(source))
    OBVIOUS
  <2>1. ckpt' # ckpt
    OBVIOUS
  <2>2. BuildClean \/ CheckpointRename
    BY <2>1 DEF Next, Start, Reopen, Spill, BeginAdd, AddImpact, EndAdd, Checkpointing,
       CheckpointFlush, CheckpointCreate, CheckpointWrite, Building, BeginBuild, BuildFlush,
       BuildCreate, BuildWrite, BuildManifest, Crash, Finished, vars, disk
  <2>3. CASE CheckpointRename
    BY <2>3 DEF CheckpointRename, Inv, TypeInv, Shape, Snapshot
  <2>4. CASE BuildClean
    BY <2>1, <2>4 DEF BuildClean, Inv, BuildInv, BuildPhases
  <2>. QED
    BY <2>2, <2>3, <2>4
<1>. QED
  BY <1>1, <1>2, InvInit, PTL DEF Spec, CheckpointOutlivesBuild

-----------------------------------------------------------------------------
(***************************************************************************)
(* The refinement                                                          *)
(***************************************************************************)

\* A posting is determined by its document.
LEMMA PostingOf ==
  ASSUME NEW r \in Posting, NEW t \in Terms, NEW n \in Nat, IsPosting(r, t, n)
  PROVE  /\ r.doc \in Occurs(t, n)
         /\ r = [doc |-> r.doc, val |-> source[r.doc + 1][t]]
BY DEF IsPosting, Posting

\* What a reader collects of one term are the postings of that term.
LEMMA ReadBackTerm ==
  ASSUME TypeOK, Readable(Len(source)), NEW t \in Terms
  PROVE  UNION {{file[info.terms[t].pages[k].pos + i] : i \in 1 .. info.terms[t].pages[k].length} :
                  k \in 1 .. Len(info.terms[t].pages)}
           = {[doc |-> d, val |-> source[d + 1][t]] : d \in Occurs(t, Len(source))}
<1> DEFINE ti == info.terms[t]
           n == Len(source)
           L == UNION {{file[ti.pages[k].pos + i] : i \in 1 .. ti.pages[k].length} :
                         k \in 1 .. Len(ti.pages)}
           R == {[doc |-> d, val |-> source[d + 1][t]] : d \in Occurs(t, n)}
<1>1. /\ ti \in TermRecord /\ file \in Seq(Posting) /\ n \in Nat /\ Faithful(file, ti, NewMem, t, n)
  <2>1. info.state = "complete" /\ Faithful(file, ti, NewMem, t, n)
    BY DEF Readable
  <2>2. info \in Metadata
    BY <2>1, CheckpointType
  <2>. QED
    BY <2>1, <2>2, TypeParts DEF Metadata, TermInfo, TermRecord
<1> HIDE DEF ti, n
<1>2. /\ Described(file, ti.pages, ti.maxVal)
      /\ Sound(file, ti.pages, NewMem.held, t, n)
      /\ Complete(file, ti.pages, NewMem.held, t, n)
  BY <1>1 DEF Faithful
<1>3. ASSUME NEW k \in 1 .. Len(ti.pages), NEW i \in 1 .. ti.pages[k].length
      PROVE  /\ file[ti.pages[k].pos + i] \in Posting
             /\ IsPosting(file[ti.pages[k].pos + i], t, n)
  <2>1. ti.pages[k].pos + i \in 1 .. Len(file)
    BY <1>1, <1>2, PageWithin
  <2>. QED
    BY <1>1, <1>2, <2>1 DEF Sound
<1>4. ASSUME NEW r \in L PROVE r \in R
  <2>1. PICK k \in 1 .. Len(ti.pages) : r \in {file[ti.pages[k].pos + i] : i \in 1 .. ti.pages[k].length}
    BY <1>4
  <2>2. PICK i \in 1 .. ti.pages[k].length : r = file[ti.pages[k].pos + i]
    BY <2>1
  <2>. QED
    BY <1>1, <1>3, <2>2, PostingOf
<1>5. ASSUME NEW r \in R PROVE r \in L
  <2>1. PICK d \in Occurs(t, n) : r = [doc |-> d, val |-> source[d + 1][t]]
    BY <1>5
  <2>2. PICK k \in 1 .. Len(ti.pages) : \E i \in 1 .. ti.pages[k].length : file[ti.pages[k].pos + i].doc = d
    <3>1. ~ \E i \in 1 .. Len(NewMem.held) : NewMem.held[i].doc = d
      BY DEF NewMem
    <3>. QED
      BY <1>2, <3>1 DEF Complete
  <2>3. PICK i \in 1 .. ti.pages[k].length : file[ti.pages[k].pos + i].doc = d
    BY <2>2
  <2>4. file[ti.pages[k].pos + i] = r
    <3>1. /\ file[ti.pages[k].pos + i] \in Posting
          /\ IsPosting(file[ti.pages[k].pos + i], t, n)
      BY <1>3
    <3>2. file[ti.pages[k].pos + i]
            = [doc |-> file[ti.pages[k].pos + i].doc,
               val |-> source[file[ti.pages[k].pos + i].doc + 1][t]]
      BY <1>1, <3>1, PostingOf
    <3>. QED
      BY <2>1, <2>3, <3>2
  <2>5. r \in {file[ti.pages[k].pos + j] : j \in 1 .. ti.pages[k].length}
    BY <2>4
  <2>. QED
    BY <2>5
<1>6. L = R
  BY <1>4, <1>5
<1>. QED
  BY <1>6 DEF ti, n

\* What a reader collects are the postings of the collection.
LEMMA ReadBackIsPostings ==
  ASSUME TypeOK, Readable(Len(source))
  PROVE  ReadBack = Contract!Postings
<1>1. \A t \in Terms :
        {[doc |-> d, val |-> source[d + 1][t]] : d \in Occurs(t, Len(source))}
          = {[doc |-> d, val |-> source[d + 1][t]] :
               d \in {e \in 0 .. Len(source) - 1 : source[e + 1][t] > 0}}
  BY DEF Occurs
<1>2. \A t \in Terms : ReadBack[t] = Contract!Postings[t]
  BY <1>1, ReadBackTerm DEF ReadBack, Contract!Postings
<1>. QED
  BY <1>2 DEF ReadBack, Contract!Postings

\* Construction implements the contract: a reader sees nothing until the end of
\* build, and from then on exactly the postings of the collection, whatever
\* crashes, resumptions and overwritten attempts led there.
THEOREM BuildImplementsContract == SteadyFrequency => (Spec => ImplementsContract)
<1> SUFFICES ASSUME SteadyFrequency PROVE Spec => ImplementsContract
  OBVIOUS
<1>1. Init => Contract!Init
  BY DEF Init, Contract!Init
<1>2. Inv /\ Inv' /\ [Next]_vars => [Contract!Next]_Contract!vars
  <2> SUFFICES ASSUME Inv, Inv', [Next]_vars PROVE Contract!Next \/ UNCHANGED Contract!vars
    OBVIOUS
  <2>1. CASE \E d \in Documents : BeginAdd(d)
    <3>1. ~manifest /\ ~manifest'
      BY <2>1 DEF BeginAdd, disk, Inv, BuildInv
    <3>2. CASE source' = source
      BY <3>1, <3>2 DEF Contract!vars
    <3>3. CASE \E d \in Documents : source' = Append(source, d)
      BY <3>1, <3>3 DEF Contract!Next, Contract!Collect
    <3>. QED
      BY <2>1, <3>2, <3>3 DEF BeginAdd
  <2>2. CASE BuildManifest
    <3>1. ~manifest /\ manifest' /\ UNCHANGED <<source, file, info>>
      BY <2>2 DEF BuildManifest, Inv, BuildInv, caller
    <3>2. ReadBack' = ReadBack
      BY <3>1 DEF ReadBack
    <3>3. Readable(Len(source))
      BY <2>2 DEF BuildManifest, Inv, BuildInv, BuildPhases
    <3>4. ReadBack = Contract!Postings
      BY <3>3, ReadBackIsPostings DEF Inv, TypeInv
    <3>. QED
      BY <3>1, <3>2, <3>4 DEF Contract!Next, Contract!Publish
  <2>3. CASE ~(\E d \in Documents : BeginAdd(d)) /\ ~BuildManifest
    <3>1. source' = source /\ manifest' = manifest /\ (manifest => UNCHANGED vars)
      BY <2>3 DEF Next, Start, Reopen, Spill, AddImpact, EndAdd, Checkpointing,
         CheckpointFlush, CheckpointCreate, CheckpointWrite, CheckpointRename, Building,
         BeginBuild, BuildFlush, BuildCreate, BuildWrite, BuildClean, Crash, Finished,
         vars, disk, caller, Inv, BuildInv, Running
    <3>2. manifest => ReadBack' = ReadBack
      BY <3>1 DEF vars, ReadBack
    <3>. QED
      BY <3>1, <3>2 DEF Contract!vars
  <2>. QED
    BY <2>1, <2>2, <2>3
<1>3. Inv /\ [Next]_vars => Inv'
  BY InvStep
<1>. QED
  BY <1>1, <1>2, <1>3, InvInit, PTL DEF Spec, ImplementsContract, Contract!Spec

-----------------------------------------------------------------------------
(***************************************************************************)
(* The statistics of the terms                                             *)
(***************************************************************************)

\* The statistics of a term below document n: how many documents it occurs in, the
\* last of them and the largest impact, nothing when there is none.
Counted(ti, t, n) ==
  /\ ti.length = Cardinality(Occurs(t, n))
  /\ \A d \in Occurs(t, n) : d <= ti.maxDoc /\ source[d + 1][t] <= ti.maxVal
  /\ \/ Occurs(t, n) = {} /\ ti.maxVal = 0
     \/ ti.maxDoc \in Occurs(t, n) /\ \E d \in Occurs(t, n) : ti.maxVal = source[d + 1][t]

\* Memory, checkpoint and metadata count each posting once.
CountInv ==
  /\ Running => \A t \in Terms : Counted(terms[t], t, Upto(t))
  /\ phase = "adding" => \A t \in todo : source[next + 1][t] > 0
  /\ ckpt.state = "complete" => \A t \in Terms : Counted(ckpt.terms[t], t, ckpt.doc + 1)
  /\ phase \in BuildPhases => next = Len(source)
  /\ phase \in BuildPhases \ {"build_flush", "build_write"} =>
       \A t \in Terms : Counted(info.terms[t], t, Len(source))
  /\ manifest => phase = "built"

\* The largest of some numbers is known when it is one of them.
LEMMA LargestIs ==
  ASSUME NEW S, S \subseteq Int, NEW x \in S, \A y \in S : y <= x
  PROVE  Max(S) = x
<1>1. /\ Max(S) \in S /\ \A y \in S : Max(S) >= y
  BY DEF Max
<1>2. Max(S) \in Int /\ x \in Int /\ Max(S) <= x /\ Max(S) >= x
  BY <1>1
<1>. QED
  BY <1>2

\* What is counted is what the properties ask for.
LEMMA CountedExact ==
  ASSUME TypeOK, NEW t \in Terms, NEW n \in 0 .. Len(source), NEW ti, Counted(ti, t, n)
  PROVE  Exact(ti, t, n)
<1> DEFINE D == Occurs(t, n)
           W == {source[d + 1][t] : d \in D}
<1>1. n \in Nat /\ Len(source) \in Nat
  BY DEF TypeOK
<1>2. D \subseteq 0 .. n - 1
  BY <1>1, OccursNext
<1>3. \A d \in D : source[d + 1][t] \in Nat
  <2>1. \A d \in 0 .. n - 1 : d \in 0 .. Len(source) - 1
    BY <1>1
  <2>. QED
    BY <1>2, <2>1, ImpactType
<1>4. D # {} => ti.maxDoc = Max(D)
  <2>1. D # {} => D \subseteq Int /\ ti.maxDoc \in D /\ \A d \in D : d <= ti.maxDoc
    BY <1>1, <1>2 DEF Counted
  <2> HIDE DEF D
  <2>. QED
    BY <2>1, LargestIs
<1>5. D # {} => ti.maxVal = Max(W)
  <2>1. D # {} => W \subseteq Int /\ ti.maxVal \in W /\ \A w \in W : w <= ti.maxVal
    BY <1>3 DEF Counted
  <2> HIDE DEF W
  <2>. QED
    BY <2>1, LargestIs
<1>. QED
  BY <1>4, <1>5 DEF Exact, Counted

\* Nothing is counted of no document.
LEMMA CountedEmpty ==
  ASSUME NEW t \in Terms
  PROVE  Counted(NewTerm, t, 0)
<1>1. Occurs(t, 0) = {}
  BY DEF Occurs
<1>2. NewTerm.length = 0 /\ NewTerm.maxVal = 0
  BY DEF NewTerm
<1>. QED
  BY <1>1, <1>2, FS_EmptySet DEF Counted

\* Only the documents below n matter to what is counted below n.
LEMMA CountedSource ==
  ASSUME NEW t \in Terms, NEW n \in Nat,
         \A e \in 0 .. n - 1 : source'[e + 1] = source[e + 1]
  PROVE  \A ti : Counted(ti, t, n) =>
           Counted(ti, t, n)' /\ (~(source'[n + 1][t] > 0) => Counted(ti, t, n + 1)')
<1> SUFFICES ASSUME NEW ti, Counted(ti, t, n)
             PROVE  /\ Counted(ti, t, n)'
                    /\ ~(source'[n + 1][t] > 0) => Counted(ti, t, n + 1)'
  OBVIOUS
<1>1. Occurs(t, n)' = Occurs(t, n)
  BY DEF Occurs
<1>2. ~(source'[n + 1][t] > 0) => Occurs(t, n + 1)' = Occurs(t, n)
  <2>1. 0 .. (n + 1) - 1 = (0 .. n - 1) \cup {n}
    OBVIOUS
  <2>. QED
    BY <2>1 DEF Occurs
<1>3. \A d \in Occurs(t, n) : source'[d + 1] = source[d + 1]
  BY DEF Occurs
<1>4. Counted(ti, t, n)'
  BY <1>1, <1>3 DEF Counted
<1>5. ASSUME ~(source'[n + 1][t] > 0) PROVE Counted(ti, t, n + 1)'
  BY <1>2, <1>3, <1>5 DEF Counted
<1>. QED
  BY <1>4, <1>5

\* The posting of the document to come is counted.
LEMMA CountedPosting ==
  ASSUME TypeOK, NEW t \in Terms, NEW n \in 0 .. Len(source) - 1,
         NEW ti \in TermRecord, source[n + 1][t] > 0, Counted(ti, t, n)
  PROVE  Counted(CountPosting(ti, n, source[n + 1][t]), t, n + 1)
<1> DEFINE val == source[n + 1][t]
           tj == CountPosting(ti, n, val)
           D == Occurs(t, n)
           E == Occurs(t, n + 1)
<1>1. n \in Nat /\ Len(source) \in Nat
  BY DEF TypeOK
<1>2. E = D \cup {n} /\ D \subseteq 0 .. n - 1
  BY <1>1, OccursNext
<1>3. val \in Nat /\ \A d \in D : source[d + 1][t] \in Nat
  <2>1. \A d \in 0 .. n - 1 : d \in 0 .. Len(source) - 1
    BY <1>1
  <2>. QED
    BY <1>2, <2>1, ImpactType
<1>4. /\ tj.length = ti.length + 1 /\ tj.maxDoc = n /\ tj.maxVal = Larger(ti.maxVal, val)
      /\ ti.length \in Nat /\ ti.maxVal \in Nat
  BY DEF CountPosting, TermRecord
<1> HIDE DEF tj
<1>5. tj.length = Cardinality(E)
  <2>1. IsFiniteSet(0 .. n - 1)
    BY <1>1, FS_Interval
  <2>2. IsFiniteSet(D) /\ n \notin D
    BY <1>1, <1>2, <2>1, FS_Subset
  <2>3. Cardinality(E) = Cardinality(D) + 1
    BY <1>2, <2>2, FS_AddElement
  <2>4. ti.length = Cardinality(D)
    BY DEF Counted
  <2>. QED
    BY <1>4, <2>3, <2>4
<1>6. \A d \in E : d <= tj.maxDoc /\ source[d + 1][t] <= tj.maxVal
  <2>1. \A d \in D : source[d + 1][t] <= ti.maxVal
    BY DEF Counted
  <2>. QED
    BY <1>1, <1>2, <1>3, <1>4, <2>1 DEF Larger
<1>7. \E d \in E : tj.maxVal = source[d + 1][t]
  <2>1. CASE tj.maxVal = val
    BY <1>2, <2>1
  <2>2. CASE tj.maxVal # val
    <3>1. tj.maxVal = ti.maxVal /\ ti.maxVal > val
      BY <1>3, <1>4, <2>2 DEF Larger
    <3>2. \E d \in D : ti.maxVal = source[d + 1][t]
      BY <1>3, <3>1 DEF Counted
    <3>. QED
      BY <1>2, <3>1, <3>2
  <2>. QED
    BY <2>1, <2>2
<1>8. tj.maxDoc \in E
  BY <1>2, <1>4
<1>9. Counted(tj, t, n + 1)
  BY <1>5, <1>6, <1>7, <1>8 DEF Counted
<1>. QED
  BY <1>9 DEF tj

\* A page more in a term changes none of its statistics.
LEMMA FlushCounts ==
  ASSUME TypeOK, NEW t \in Terms, NEW ti, NEW m, Flush(t, ti, m)
  PROVE  \A u \in Terms :
           /\ terms'[u].length = IF u = t THEN ti.length ELSE terms[u].length
           /\ terms'[u].maxVal = IF u = t THEN ti.maxVal ELSE terms[u].maxVal
           /\ terms'[u].maxDoc = IF u = t THEN ti.maxDoc ELSE terms[u].maxDoc
<1>1. DOMAIN terms = Terms
  BY DEF TypeOK, TermInfo
<1>. QED
  BY <1>1 DEF Flush, AddPage

\* So does an iteration of a flush loop.
LEMMA FlushScannedCounts ==
  ASSUME TypeOK, NEW least, FlushScanned(least)
  PROVE  \A t \in Terms : /\ terms'[t].length = terms[t].length
                          /\ terms'[t].maxVal = terms[t].maxVal
                          /\ terms'[t].maxDoc = terms[t].maxDoc
<1>1. scan \in Terms
  BY ScanInTerms DEF FlushScanned
<1>2. CASE Flush(scan, terms[scan], mem[scan])
  BY <1>1, <1>2, FlushCounts
<1>3. CASE UNCHANGED postings
  BY <1>3 DEF postings
<1>. QED
  BY <1>2, <1>3 DEF FlushScanned

\* Where the collection stays, so does what is counted of it.
LEMMA CountedSame ==
  ASSUME source' = source
  PROVE  \A ti, t, n : Counted(ti, t, n)' <=> Counted(ti, t, n)
BY DEF Counted, Occurs

\* A step that adds no posting and no document, and leaves the checkpoint and the
\* metadata or writes them from memory.
LEMMA CountKept ==
  ASSUME TypeOK, CountInv, source' = source, Running, phase # "adding", phase' # "adding",
         next' = next,
         \A t \in Terms : /\ terms'[t].length = terms[t].length
                          /\ terms'[t].maxVal = terms[t].maxVal
                          /\ terms'[t].maxDoc = terms[t].maxDoc,
         ckpt'.state = "complete" => ckpt' = ckpt \/ ckpt' = Snapshot,
         phase' \in BuildPhases => next = Len(source),
         phase' \in BuildPhases \ {"build_flush", "build_write"} =>
            \/ info'.terms = terms
            \/ info' = info /\ phase \in BuildPhases \ {"build_flush", "build_write"},
         manifest' => manifest \/ phase' = "built"
  PROVE  CountInv'
<1>1. \A ti, t, n : Counted(ti, t, n)' <=> Counted(ti, t, n)
  BY CountedSame
<1>2. \A t \in Terms : Upto(t) = next /\ Upto(t)' = next
  BY DEF Upto
<1>3. \A t \in Terms : Counted(terms[t], t, next)
  BY <1>2 DEF CountInv
<1>4. \A t \in Terms : Counted(terms'[t], t, next)
  BY <1>3 DEF Counted
<1>5. \A t \in Terms : Counted(terms[t], t, Upto(t))'
  BY <1>1, <1>2, <1>4
<1>6. ckpt'.state = "complete" => \A t \in Terms : Counted(ckpt.terms[t], t, ckpt.doc + 1)'
  <2>1. CASE ckpt' = ckpt
    BY <1>1, <2>1 DEF CountInv
  <2>2. CASE ckpt' = Snapshot
    <3>1. ckpt'.terms = terms /\ ckpt'.doc + 1 = next
      BY <2>2 DEF Snapshot, TypeOK
    <3>. QED
      BY <1>1, <1>3, <3>1
  <2>. QED
    BY <2>1, <2>2
<1>7. phase' \in BuildPhases \ {"build_flush", "build_write"} =>
        \A t \in Terms : Counted(info.terms[t], t, Len(source))'
  <2> SUFFICES ASSUME phase' \in BuildPhases \ {"build_flush", "build_write"}
               PROVE  \A t \in Terms : Counted(info.terms[t], t, Len(source))'
    OBVIOUS
  <2>1. CASE info'.terms = terms
    <3>1. next = Len(source)
      OBVIOUS
    <3>. QED
      BY <1>1, <1>3, <2>1, <3>1
  <2>2. CASE info' = info /\ phase \in BuildPhases \ {"build_flush", "build_write"}
    BY <1>1, <2>2 DEF CountInv
  <2>. QED
    BY <2>1, <2>2
<1>8. manifest' => phase' = "built"
  BY DEF CountInv, Running
<1>. QED
  BY <1>5, <1>6, <1>7, <1>8 DEF CountInv

\* Opening takes the statistics of the checkpoint, or none.
LEMMA CountOpen ==
  ASSUME TypeInv, CountInv, NEW f \in Frequencies, Open(f), phase \notin {"built"},
         UNCHANGED <<source, ckpt, manifest>>
  PROVE  CountInv'
<1>1. \A ti, t, n : Counted(ti, t, n)' <=> Counted(ti, t, n)
  BY CountedSame
<1>2. phase' = "idle" /\ \A t \in Terms : Upto(t)' = next'
  BY DEF Open, Upto
<1>3. \A t \in Terms : Counted(terms'[t], t, next')
  <2>1. CASE ckpt.state = "complete" /\ OpenCheckpoint
    BY <2>1 DEF OpenCheckpoint, CountInv
  <2>2. CASE OpenFresh
    BY <2>2, CountedEmpty DEF OpenFresh
  <2>. QED
    BY <2>1, <2>2 DEF Open
<1>4. \A t \in Terms : Counted(terms[t], t, Upto(t))'
  BY <1>1, <1>2, <1>3
<1>5. ckpt'.state = "complete" => \A t \in Terms : Counted(ckpt.terms[t], t, ckpt.doc + 1)'
  BY <1>1 DEF CountInv
<1>. QED
  BY <1>2, <1>4, <1>5 DEF CountInv, BuildPhases

\* The terms of a document that is handed over are still to be counted, the others
\* are not in it.
LEMMA CountBeginAdd ==
  ASSUME TypeInv, CountInv, NEW d \in Documents, BeginAdd(d)
  PROVE  CountInv'
<1>1. /\ phase = "idle" /\ phase' = "adding" /\ Running /\ todo' = {t \in Terms : d[t] > 0}
      /\ UNCHANGED <<next, terms, ckpt, manifest>>
  BY DEF BeginAdd, Running, postings, disk
<1>2. /\ source \in Seq(Documents) /\ next \in 0 .. Len(source) /\ Len(source) \in Nat /\ next \in Nat
  BY DEF TypeInv, TypeOK
<1>3. source'[next + 1] = d /\ \A e \in 1 .. Len(source) : source'[e] = source[e]
  <2>1. CASE next < Len(source) /\ d = source[next + 1] /\ UNCHANGED source
    BY <2>1
  <2>2. CASE ~(next < Len(source)) /\ source' = Append(source, d)
    <3>1. next = Len(source)
      BY <1>2, <2>2
    <3>. QED
      BY <1>2, <2>2, <3>1, AppendProperties
  <2>. QED
    BY <2>1, <2>2 DEF BeginAdd
<1>4. ASSUME NEW n \in 0 .. Len(source) PROVE \A e \in 0 .. n - 1 : source'[e + 1] = source[e + 1]
  <2>1. \A e \in 0 .. n - 1 : e + 1 \in 1 .. Len(source)
    BY <1>2
  <2>. QED
    BY <1>3, <2>1
<1>5. ASSUME NEW t \in Terms PROVE Counted(terms[t], t, Upto(t))'
  <2>1. Counted(terms'[t], t, next)
    BY <1>1 DEF CountInv, Upto
  <2>2. /\ Counted(terms[t], t, next)'
        /\ ~(source'[next + 1][t] > 0) => Counted(terms[t], t, next + 1)'
    <3>1. \A e \in 0 .. next - 1 : source'[e + 1] = source[e + 1]
      BY <1>2, <1>4
    <3>2. \A ti : Counted(ti, t, next) =>
            Counted(ti, t, next)' /\ (~(source'[next + 1][t] > 0) => Counted(ti, t, next + 1)')
      BY <1>1, <1>2, <3>1, CountedSource
    <3>. QED
      BY <1>1, <2>1, <3>2
  <2>3. Upto(t)' = IF t \in todo' THEN next ELSE next + 1
    BY <1>1 DEF Upto
  <2>4. t \notin todo' => ~(source'[next + 1][t] > 0)
    BY <1>1, <1>3
  <2>. QED
    BY <1>1, <2>2, <2>3, <2>4
<1>6. ckpt'.state = "complete" => \A t \in Terms : Counted(ckpt.terms[t], t, ckpt.doc + 1)'
  <2> SUFFICES ASSUME ckpt.state = "complete", NEW t \in Terms
               PROVE  Counted(ckpt.terms[t], t, ckpt.doc + 1)'
    BY <1>1
  <2>1. ckpt.doc + 1 \in 0 .. Len(source)
    BY <1>2, CheckpointType DEF TypeInv, Shape, Checkpoint
  <2>2. Counted(ckpt.terms[t], t, ckpt.doc + 1)
    BY DEF CountInv
  <2>3. \A n \in 0 .. Len(source) : \A ti : Counted(ti, t, n) => Counted(ti, t, n)'
    BY <1>2, <1>4, CountedSource
  <2>. QED
    BY <1>1, <2>1, <2>2, <2>3
<1>7. \A t \in todo' : source'[next' + 1][t] > 0
  BY <1>1, <1>3
<1>. QED
  BY <1>1, <1>5, <1>6, <1>7 DEF CountInv, BuildPhases

\* A posting is counted once, whether or not it leaves the memory for a page.
LEMMA CountAddImpact ==
  ASSUME TypeInv, CountInv, NEW t \in Terms, AddImpact(t)
  PROVE  CountInv'
<1> DEFINE val == source[next + 1][t]
           ti == CountPosting(terms[t], next, val)
           m == HoldPosting(mem[t], next, val)
<1>1. /\ phase = "adding" /\ phase' = "adding" /\ t \in todo /\ todo' = todo \ {t}
      /\ UNCHANGED <<source, next, ckpt, manifest>>
  BY DEF AddImpact, caller, disk
<1>2. next \in 0 .. Len(source) - 1 /\ terms[t] \in TermRecord /\ DOMAIN terms = Terms
  <2>1. next \in 0 .. Len(source) - 1
    BY <1>1, TypeParts DEF TypeInv, Shape
  <2>2. terms \in [Terms -> TermRecord]
    BY DEF TypeInv, TypeOK, TermInfo, TermRecord
  <2>. QED
    BY <2>1, <2>2
<1>3. Counted(ti, t, next + 1)
  <2>1. val > 0 /\ Counted(terms[t], t, next) /\ Running
    BY <1>1 DEF CountInv, Upto, Running
  <2>. QED
    BY <1>2, <2>1, CountedPosting DEF TypeInv
<1>4. \A u \in Terms :
        /\ terms'[u].length = IF u = t THEN ti.length ELSE terms[u].length
        /\ terms'[u].maxVal = IF u = t THEN ti.maxVal ELSE terms[u].maxVal
        /\ terms'[u].maxDoc = IF u = t THEN ti.maxDoc ELSE terms[u].maxDoc
  <2> HIDE DEF ti, m
  <2>1. CASE Flush(t, ti, m)
    BY <2>1, FlushCounts DEF TypeInv
  <2>2. CASE terms' = [terms EXCEPT ![t] = ti]
    BY <1>2, <2>2
  <2>. QED
    BY <2>1, <2>2 DEF AddImpact, ti, m
<1>5. \A v, u, n : Counted(v, u, n)' <=> Counted(v, u, n)
  BY <1>1, CountedSame
<1> HIDE DEF ti, m
<1>6. ASSUME NEW u \in Terms PROVE Counted(terms[u], u, Upto(u))'
  <2>1. CASE u = t
    <3>1. Upto(u)' = next + 1
      BY <1>1, <2>1 DEF Upto
    <3>2. Counted(terms'[u], u, next + 1)
      BY <1>3, <1>4, <2>1 DEF Counted
    <3>. QED
      BY <1>5, <3>1, <3>2
  <2>2. CASE u # t
    <3>1. Upto(u)' = Upto(u)
      BY <1>1, <2>2 DEF Upto
    <3>2. Counted(terms[u], u, Upto(u))
      BY <1>1 DEF CountInv, Running
    <3>3. Counted(terms'[u], u, Upto(u))
      BY <1>4, <2>2, <3>2 DEF Counted
    <3>. QED
      BY <1>5, <3>1, <3>3
  <2>. QED
    BY <2>1, <2>2
<1>7. ckpt'.state = "complete" => \A u \in Terms : Counted(ckpt.terms[u], u, ckpt.doc + 1)'
  BY <1>1, <1>5 DEF CountInv
<1>8. \A u \in todo' : source'[next' + 1][u] > 0
  BY <1>1 DEF CountInv
<1>. QED
  BY <1>1, <1>6, <1>7, <1>8 DEF CountInv, BuildPhases

\* Every step keeps the invariant.
LEMMA CountStep == TypeInv /\ CountInv /\ [Next]_vars => CountInv'
<1> SUFFICES ASSUME TypeInv, CountInv, [Next]_vars PROVE CountInv'
  OBVIOUS
<1>1. ASSUME NEW f \in Frequencies, Start(f) PROVE CountInv'
  BY <1>1, CountOpen DEF Start, caller, disk
<1>2. ASSUME NEW f \in Frequencies, Reopen(f) PROVE CountInv'
  BY <1>2, CountOpen DEF Reopen, disk
<1>3. ASSUME NEW n \in 1 .. Len(buf), Spill(n) PROVE CountInv'
  <2>1. UNCHANGED <<source, next, ckpt, info, manifest, phase, terms, todo>>
    BY <1>3 DEF Spill, caller, disk
  <2>2. \A ti, t, l : Counted(ti, t, l)' <=> Counted(ti, t, l)
    BY <2>1, CountedSame
  <2>3. Running' = Running /\ \A t : Upto(t)' = Upto(t)
    BY <2>1 DEF Running, Upto
  <2>. QED
    BY <2>1, <2>2, <2>3 DEF CountInv
<1>4. ASSUME NEW d \in Documents, BeginAdd(d) PROVE CountInv'
  BY <1>4, CountBeginAdd
<1>5. ASSUME NEW t \in Terms, AddImpact(t) PROVE CountInv'
  BY <1>5, CountAddImpact
<1>6. CASE EndAdd
  <2>1. /\ UNCHANGED <<source, ckpt, manifest, terms>> /\ next' = next + 1
        /\ phase = "adding" /\ phase' \in {"ckpt_flush", "idle"} /\ todo = {}
    BY <1>6 DEF EndAdd, caller, disk, postings
  <2>2. \A ti, t, l : Counted(ti, t, l)' <=> Counted(ti, t, l)
    BY <2>1, CountedSame
  <2>3. \A t \in Terms : Upto(t) = next + 1 /\ Upto(t)' = next + 1
    BY <2>1 DEF Upto
  <2>4. \A t \in Terms : Counted(terms[t], t, next + 1)
    BY <2>1, <2>3 DEF CountInv, Running
  <2>5. \A t \in Terms : Counted(terms[t], t, Upto(t))'
    BY <2>1, <2>2, <2>3, <2>4
  <2>6. ckpt'.state = "complete" => \A t \in Terms : Counted(ckpt.terms[t], t, ckpt.doc + 1)'
    BY <2>1, <2>2 DEF CountInv
  <2>. QED
    BY <2>1, <2>5, <2>6 DEF CountInv, BuildPhases
<1>7. CASE CheckpointFlush
  <2>1. \A t \in Terms : /\ terms'[t].length = terms[t].length
                         /\ terms'[t].maxVal = terms[t].maxVal
                         /\ terms'[t].maxDoc = terms[t].maxDoc
    BY <1>7, FlushScannedCounts DEF CheckpointFlush, TypeInv
  <2>. QED
    BY <1>7, <2>1, CountKept DEF CheckpointFlush, caller, disk, Running, BuildPhases, TypeInv
<1>8. CASE CheckpointCreate \/ CheckpointWrite
  BY <1>8, CountKept DEF CheckpointCreate, CheckpointWrite, caller, postings, Running,
                            BuildPhases, TypeInv
<1>9. CASE CheckpointRename
  <2>1. tmp = Snapshot
    BY <1>9 DEF CheckpointRename, TypeInv, Shape
  <2>. QED
    BY <1>9, <2>1, CountKept DEF CheckpointRename, caller, postings, Running, BuildPhases, TypeInv
<1>10. CASE BeginBuild
  BY <1>10, CountKept DEF BeginBuild, caller, disk, postings, Running, BuildPhases, TypeInv
<1>11. CASE BuildFlush
  <2>1. \A t \in Terms : /\ terms'[t].length = terms[t].length
                         /\ terms'[t].maxVal = terms[t].maxVal
                         /\ terms'[t].maxDoc = terms[t].maxDoc
    BY <1>11, FlushScannedCounts DEF BuildFlush, TypeInv
  <2>2. phase = "build_flush" => next = Len(source)
    BY DEF CountInv, BuildPhases
  <2>. QED
    BY <1>11, <2>1, <2>2, CountKept DEF BuildFlush, caller, disk, Running, TypeInv
<1>12. CASE BuildCreate \/ BuildWrite \/ BuildClean \/ BuildManifest
  <2>1. phase \in BuildPhases => next = Len(source)
    BY DEF CountInv
  <2>2. /\ phase \in {"build_flush", "build_write", "build_clean", "build_clean_tmp", "build_manifest"}
        /\ UNCHANGED <<source, next, terms>>
    BY <1>12 DEF BuildCreate, BuildWrite, BuildClean, BuildManifest, caller, postings
  <2>3. ckpt' = ckpt \/ ckpt' = Absent
    BY <1>12 DEF BuildCreate, BuildWrite, BuildClean, BuildManifest
  <2>4. phase' \in BuildPhases /\ phase' # "adding" /\ (manifest' => manifest \/ phase' = "built")
    BY <1>12 DEF BuildCreate, BuildWrite, BuildClean, BuildManifest, BuildPhases
  <2>5. phase' \in BuildPhases \ {"build_flush", "build_write"} =>
            \/ info'.terms = terms
            \/ info' = info /\ phase \in BuildPhases \ {"build_flush", "build_write"}
    BY <1>12 DEF BuildCreate, BuildWrite, BuildClean, BuildManifest, BuildPhases
  <2>6. next = Len(source) /\ Running /\ phase # "adding"
    BY <2>1, <2>2 DEF BuildPhases, Running
  <2>7. ckpt'.state = "complete" => ckpt' = ckpt \/ ckpt' = Snapshot
    BY <2>3 DEF Absent
  <2>. QED
    BY <2>2, <2>4, <2>5, <2>6, <2>7, CountKept DEF TypeInv
<1>13. CASE Crash
  <2>1. phase' = "down" /\ UNCHANGED <<source, ckpt, manifest>> /\ Running
    BY <1>13 DEF Crash, disk
  <2>2. \A ti, t, l : Counted(ti, t, l)' <=> Counted(ti, t, l)
    BY <2>1, CountedSame
  <2>3. ckpt'.state = "complete" => \A t \in Terms : Counted(ckpt.terms[t], t, ckpt.doc + 1)'
    BY <2>1, <2>2 DEF CountInv
  <2>. QED
    BY <2>1, <2>3 DEF CountInv, Running, BuildPhases
<1>14. CASE UNCHANGED vars
  <2>1. UNCHANGED <<source, next, ckpt, info, manifest, phase, terms, todo>>
    BY <1>14 DEF vars
  <2>2. \A ti, t, l : Counted(ti, t, l)' <=> Counted(ti, t, l)
    BY <2>1, CountedSame
  <2>3. Running' = Running /\ \A t : Upto(t)' = Upto(t)
    BY <2>1 DEF Running, Upto
  <2>. QED
    BY <2>1, <2>2, <2>3 DEF CountInv
<1>. QED
  BY <1>1, <1>2, <1>3, <1>4, <1>5, <1>6, <1>7, <1>8, <1>9, <1>10, <1>11, <1>12, <1>13,
     <1>14 DEF Next, Checkpointing, Building, Finished

\* A published index and a checkpoint count every posting once, whatever crashes
\* came between: those held in memory at a checkpoint are not counted again.
THEOREM StatisticsAreExact == Spec => []StatisticsExact
<1>1. Init => CountInv
  <2> SUFFICES ASSUME Init PROVE CountInv
    OBVIOUS
  <2>. QED
    BY DEF Init, CountInv, Running, BuildPhases, Absent
<1>2. TypeInv /\ CountInv => StatisticsExact
  <2> SUFFICES ASSUME TypeInv, CountInv PROVE StatisticsExact
    OBVIOUS
  <2>1. Len(source) \in 0 .. Len(source) /\ Len(source) \in Nat
    BY DEF TypeInv, TypeOK
  <2>2. ASSUME manifest, NEW t \in Terms PROVE Exact(info.terms[t], t, Len(source))
    <3>1. Counted(info.terms[t], t, Len(source))
      BY <2>2 DEF CountInv, BuildPhases
    <3>. QED
      BY <2>1, <3>1, CountedExact DEF TypeInv
  <2>3. ASSUME ckpt.state = "complete", NEW t \in Terms
        PROVE  Exact(ckpt.terms[t], t, ckpt.doc + 1)
    <3>1. ckpt.doc + 1 \in 0 .. Len(source)
      BY <2>1, <2>3, CheckpointType DEF TypeInv, Shape, Checkpoint
    <3>2. Counted(ckpt.terms[t], t, ckpt.doc + 1)
      BY <2>3 DEF CountInv
    <3>. QED
      BY <3>1, <3>2, CountedExact DEF TypeInv
  <2>. QED
    BY <2>2, <2>3 DEF StatisticsExact
<1>. QED
  BY <1>1, <1>2, TypeInit, TypeStep, CountStep, PTL DEF Spec
=============================================================================
