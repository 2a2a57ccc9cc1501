-------------------------- MODULE TransformsProofs --------------------------
(***************************************************************************)
(* What holds of the directories transforms and updates write, for any     *)
(* number of calls and crashes, and of the cursor that reads what the      *)
(* split transform cut.                                                    *)
(*                                                                         *)
(* Of updates, for all directories that releases leave behind: IInv is     *)
(* inductive.  It knows of every level the layout of its data, which no    *)
(* update changes, and of the calls under way what they have read and what *)
(* the next version they stamp may promise.                                *)
(*                                                                         *)
(* Of transforms, for all sources and targets: TransformsInv is inductive. *)
(* What the call under way owes is on the disk, or the last write to that  *)
(* file is still to come; what a call that finished owed is on the disk.   *)
(*                                                                         *)
(* Of the cursor that merges the splits of a term, for all lists and       *)
(* calls: SplitInv is inductive.  An entry of the heap never passes the    *)
(* next posting of its cursor, and what has left the heap has none left.   *)
(***************************************************************************)
EXTENDS Directories, SearchLemmas, FiniteSetTheorems, TLAPS

-----------------------------------------------------------------------------
(***************************************************************************)
(* The inductive invariant of updates                                      *)
(***************************************************************************)
\* The directories of an update, the layouts of one, its files but the manifest.
Roots == {"index", "copy"}
Kinds == {"forward", "compressed", "split"}
Data == FileNames \ {"manifest"}

\* What a file may hold.
Contents == Manifests \cup Bins \cup {Absent, Short, "information", "lengths"}

\* Neither missing nor half-written.
Whole(content) == content # Absent /\ content # Short

\* What the index is, which no update changes.
Of(level) == Layout(tree["index"], level)

\* The data are as new as the manifest says.
Faithful(root, level) ==
  Whole(tree[root][level].manifest) /\ Whole(tree[root][level].bin)
    => tree[root][level].bin.version >= Promised(tree[root][level].manifest.version)

\* The block lengths of a list were never read where there are none.
WellRead(root, level) ==
  Whole(tree[root][level].bin) => tree[root][level].bin.lengths # "misread"

\* There is nothing left to bring up to date.
Current(root, level) ==
  Whole(tree[root][level].manifest) /\ tree[root][level].manifest.version = CURRENT_FORMAT_VERSION

\* A split index is current only when the one within is.
Settled(root) == Of("top") = "split" /\ Current(root, "top") => Current(root, "inner")

\* Manifests name the layout of the index, wherever they are.
TreeOK ==
  /\ tree \in [Roots -> [Levels -> [FileNames -> Contents]]]
  /\ \A root \in Roots, level \in Levels :
       /\ tree[root][level].manifest \in Manifests \cup {Absent, Short}
       /\ tree[root][level].bin \in Bins \cup {Absent, Short}
       /\ Whole(tree[root][level].manifest) => tree[root][level].manifest.kind = Of(level)

\* The index keeps one layout with its data, whatever stops an update.
IndexOK ==
  /\ Held(tree["index"], "inner") => Of("top") = "split"
  /\ \A level \in Levels :
       /\ level = "top" \/ Held(tree["index"], "inner")
            => (tree["index"][level].bin # Absent <=> Of(level) = "compressed")
       /\ tree["index"][level].bin # Short
       /\ Faithful("index", level) /\ WellRead("index", level)
  /\ Settled("index")

\* A copy, also one that was left in part, has no files but those of the index
\* and manifests; only if the index has one can an older one replace that of the
\* index within a current copy.
CopyOK ==
  /\ Held(tree["copy"], "inner") => Held(tree["index"], "inner")
  /\ \A level \in Levels, name \in Data :
       tree["index"][level][name] = Absent => tree["copy"][level][name] = Absent
  /\ tree["index"]["inner"].manifest = Absent => Settled("copy")
  /\ ~overwritten => \A level \in Levels : Faithful("copy", level)

\* What was copied is as in the index; over nothing, there is nothing else.
CopyingOK ==
  copying # {} =>
    /\ stack = <<>> /\ target = "copy" /\ outcome = "running"
    /\ \A level \in Levels, name \in FileNames :
         LET from == tree["index"][level][name]
             to == tree["copy"][level][name]
         IN /\ <<level, name>> \in copying => from # Absent
            /\ <<level, name>> \notin copying /\ from # Absent => to = from
            /\ ~overwritten => to \in {Absent, Short, from}
            /\ ~overwritten /\ from = Absent => to = Absent

\* A copy over an earlier one may be left with newer manifests than its data,
\* unless the index replaces them or has nothing to bring up to date.
Trusted ==
  target = "copy" /\ overwritten => ~Unversioned("index") \/ Loads("index")

\* What the next version promises is there.
Ready(level, version) ==
  /\ version < CURRENT_FORMAT_VERSION
  /\ Of(level) = "split" /\ version > 0 => Current(target, "inner")
  /\ Trusted /\ Of(level) = "compressed"
       => tree[target][level].bin.version >= Promised(version + 1)

\* Where a call may be, and the calls.
Nexts == {"enter", "step", "data", "stamp", "within"} \cup Kinds
Frames == [path : Roots \X Levels, version : 0 .. CURRENT_FORMAT_VERSION + 1, next : Nexts]

\* A call under way knows the version of its directory.
FrameOK(f, level) ==
  /\ f \in Frames /\ f.path = <<target, level>>
  /\ f.next \in {"step", "data", "stamp", "within"}
       => Readable(<<target, level>>) /\ Version(<<target, level>>) = f.version
  /\ f.next \in {"data", "within"} => f.version \in 1 .. CURRENT_FORMAT_VERSION - 1
  /\ f.next = "data" => Of(level) = "compressed"
  /\ f.next = "within" => Of(level) = "split"
  /\ f.next \in {"stamp"} \cup Kinds => Ready(level, f.version)
  /\ f.next \in Kinds => f.next = Of(level) /\ tree[target][level].manifest = Short

\* A call for the index, and under it maybe one for the index within.
StackOK ==
  \/ \E f \in Frames : stack = <<f>> /\ f.next # "within" /\ FrameOK(f, "top")
  \/ \E g, f \in Frames :
       /\ stack = <<g, f>> /\ g.next = "within" /\ f.next # "within"
       /\ FrameOK(g, "top") /\ FrameOK(f, "inner")

\* While calls are under way no data are lost, and what may be trusted is.
RunOK ==
  stack # <<>> =>
    /\ copying = {} /\ outcome = "running"
    /\ StackOK
    /\ \A level \in Levels :
         /\ tree[target][level].bin # Short
         /\ \A name \in Data :
              tree["index"][level][name] # Absent => tree[target][level][name] # Absent
    /\ Trusted =>
         /\ \A level \in Levels : Faithful(target, level) /\ WellRead(target, level)
         /\ Settled(target)

\* An update that returned left nothing to do.
UpdatedOK ==
  outcome = "updated" =>
    /\ Idle
    /\ Trusted => /\ Loads(target) /\ ~Unversioned(target)
                  /\ \A level \in Levels : WellRead(target, level)

\* The other variables.
CountersOK ==
  /\ target \in Roots /\ overwritten \in BOOLEAN
  /\ copying \subseteq Levels \X FileNames
  /\ outcome \in {"none", "running", "updated", "error", "crashed"}
  /\ calls \in 0 .. MaxCalls /\ crashes \in 0 .. MaxCrashes

\* The inductive invariant of updates.
IInv ==
  /\ TreeOK /\ IndexOK /\ CopyOK /\ CopyingOK /\ RunOK /\ UpdatedOK /\ CountersOK
  /\ ResumesUnlessManifest

-----------------------------------------------------------------------------
(***************************************************************************)
(* Contents, frames and what is written                                    *)
(***************************************************************************)

\* A whole file is none that is missing or half-written.
LEMMA ContentFacts ==
  /\ Absent # Short
  /\ \A c \in Manifests \cup Bins \cup {"information", "lengths"} : Whole(c)
  /\ {Absent, Short} \cup Manifests \cup Bins \cup {"information", "lengths"} = Contents
BY MigrationAssumption DEF Whole, Contents

\* A manifest is its version and its layout.
LEMMA ManifestFacts ==
  ASSUME NEW v \in 1 .. 4, NEW k \in Kinds
  PROVE  [version |-> v, kind |-> k] \in Manifests
BY DEF Manifests, Kinds, CURRENT_FORMAT_VERSION

\* The fields of a manifest.
LEMMA OfManifest ==
  ASSUME NEW m \in Manifests
  PROVE  m.version \in 1 .. 4 /\ m.kind \in Kinds
BY DEF Manifests, Kinds, CURRENT_FORMAT_VERSION

\* The fields of index.bin.
LEMMA OfBin ==
  ASSUME NEW b \in Bins
  PROVE  b.version \in 3 .. 5 /\ b.lengths \in {"none", "exact", "unknown", "misread"}
BY DEF Bins, COMPRESSED_INDEX_VERSION

\* A sequence of one element is what is in it.
LEMMA OneIs ==
  ASSUME NEW S, NEW s \in Seq(S), Len(s) = 1
  PROVE  s = <<s[1]>>
OBVIOUS

\* A sequence of two.
LEMMA TwoIs ==
  ASSUME NEW S, NEW s \in Seq(S), Len(s) = 2
  PROVE  s = <<s[1], s[2]>>
OBVIOUS

\* The two stacks there are.
LEMMA StackFacts ==
  ASSUME NEW g, NEW f, NEW h
  PROVE  /\ Last(<<f>>) = f /\ Front(<<f>>) = <<>> /\ Append(<<>>, h) = <<h>>
         /\ Last(<<g, f>>) = f /\ Front(<<g, f>>) = <<g>> /\ Append(<<g>>, h) = <<g, h>>
         /\ Len(<<f>>) = 1 /\ Len(<<g, f>>) = 2 /\ <<f>> # <<>> /\ <<g, f>> # <<>>
<1>. DEFINE S == {g, f, h}
<1>0. /\ <<>> \in Seq(S) /\ <<f>> \in Seq(S) /\ <<g>> \in Seq(S) /\ <<g, f>> \in Seq(S)
      /\ <<h>> \in Seq(S) /\ <<g, h>> \in Seq(S)
  OBVIOUS
<1>. HIDE DEF S
<1>1. Last(<<f>>) = f /\ Last(<<g, f>>) = f
  BY DEF Last
<1>2. Front(<<f>>) = <<>>
  BY DEF Front
<1>3. Front(<<g, f>>) = <<g>>
  <2>1. /\ SubSeq(<<g, f>>, 1, 1) \in Seq(S)
        /\ Len(SubSeq(<<g, f>>, 1, 1)) = 1
        /\ SubSeq(<<g, f>>, 1, 1)[1] = g
    BY <1>0
  <2>2. SubSeq(<<g, f>>, 1, 1) = <<g>>
    BY <2>1, OneIs
  <2>3. Len(<<g, f>>) - 1 = 1
    OBVIOUS
  <2>. QED
    BY <2>2, <2>3 DEF Front
<1>4. Append(<<>>, h) = <<h>>
  BY <1>0
<1>5. Append(<<g>>, h) = <<g, h>>
  <2>1. /\ Append(<<g>>, h) \in Seq(S)
        /\ Len(Append(<<g>>, h)) = 2
        /\ Append(<<g>>, h)[1] = g /\ Append(<<g>>, h)[2] = h
    BY <1>0 DEF S
  <2>. QED
    BY <2>1, TwoIs
<1>. QED
  BY <1>1, <1>2, <1>3, <1>4, <1>5

\* A write changes one file.
LEMMA PutFacts ==
  ASSUME tree \in [Roots -> [Levels -> [FileNames -> Contents]]],
         NEW r \in Roots, NEW l \in Levels, NEW n \in FileNames, NEW c \in Contents,
         Put(<<r, l>>, n, c)
  PROVE  /\ tree' \in [Roots -> [Levels -> [FileNames -> Contents]]]
         /\ tree'[r][l][n] = c
         /\ \A s \in Roots, m \in Levels, k \in FileNames :
              <<s, m, k>> # <<r, l, n>> => tree'[s][m][k] = tree[s][m][k]
<1>1. tree' = [tree EXCEPT ![r][l][n] = c]
  BY DEF Put
<1>. QED
  BY <1>1

-----------------------------------------------------------------------------
(***************************************************************************)
(* Layouts                                                                 *)
(***************************************************************************)

\* Only a whole directory is split, and the top of it only if there is one within.
LEMMA SplitFacts ==
  ASSUME IndexOK
  PROVE  /\ Of("inner") # "split"
         /\ Of("top") = "split" <=> Held(tree["index"], "inner")
         /\ \A level \in Levels : Of(level) \in Kinds
BY DEF IndexOK, Of, Layout, Kinds

\* Where the index has its index.bin.
LEMMA BinFacts ==
  ASSUME IndexOK, NEW level \in Levels
  PROVE  /\ tree["index"][level].bin # Absent
              => /\ Of(level) = "compressed"
                 /\ level = "inner" => Of("top") = "split"
         /\ Of(level) = "compressed" /\ (level = "inner" => Of("top") = "split")
              => tree["index"][level].bin # Absent
<1>1. CASE level = "top"
  BY <1>1 DEF IndexOK
<1>2. CASE level = "inner"
  <2>1. tree["index"]["inner"].bin # Absent => Held(tree["index"], "inner")
    BY DEF Held, FileNames
  <2>. QED
    BY <1>2, <2>1, SplitFacts DEF IndexOK
<1>. QED
  BY <1>1, <1>2 DEF Levels

\* The layout depends on which data there are, and on whether there is an index within.
LEMMA LayoutStays ==
  ASSUME \A level \in Levels, name \in Data :
           tree'["index"][level][name] = Absent <=> tree["index"][level][name] = Absent,
         Held(tree'["index"], "inner") <=> Held(tree["index"], "inner")
  PROVE  \A level \in Levels : Of(level)' = Of(level)
BY DEF Of, Layout, Data, FileNames

\* A copy of all the data has the layout of the index.
LEMMA CompleteLayout ==
  ASSUME IndexOK, CopyOK, NEW root \in Roots,
         \A level \in Levels, name \in Data :
           tree["index"][level][name] # Absent => tree[root][level][name] # Absent
  PROVE  /\ Held(tree[root], "inner") <=> Held(tree["index"], "inner")
         /\ \A level \in Levels : Layout(tree[root], level) = Of(level)
<1>1. CASE root = "index"
  BY <1>1 DEF Of
<1>2. CASE root = "copy"
  <2>1. Held(tree["copy"], "inner") => Held(tree["index"], "inner")
    BY DEF CopyOK
  <2>2. ASSUME Held(tree["index"], "inner")
        PROVE  Held(tree["copy"], "inner")
    <3>1. tree["index"]["inner"].bin # Absent <=> Of("inner") = "compressed"
      BY <2>2 DEF IndexOK, Levels
    <3>2. tree["index"]["inner"].bin # Absent \/ tree["index"]["inner"].information # Absent
      BY <3>1 DEF Of, Layout
    <3>. QED
      BY <1>2, <3>2 DEF Held, Data, FileNames, Levels
  <2>3. \A level \in Levels :
          tree["copy"][level].information = Absent <=> tree["index"][level].information = Absent
    BY <1>2 DEF CopyOK, Data, FileNames
  <2>. QED
    BY <1>2, <2>1, <2>2, <2>3 DEF Of, Layout
<1>. QED
  BY <1>1, <1>2 DEF Roots

\* What a copy of some of the data is taken for, if it loads: for the index it is of.
LEMMA LoadedLayout ==
  ASSUME IndexOK, CopyOK, NEW root \in Roots, Loads(root), NEW level \in Levels,
         level = "inner" => Held(tree[root], "inner")
  PROVE  Layout(tree[root], level) = Of(level)
<1>1. CASE root = "index"
  BY <1>1 DEF Of
<1>2. CASE root = "copy"
  <2>1. \A l \in Levels :
          /\ tree["copy"][l].information # Absent => tree["index"][l].information # Absent
          /\ tree["copy"][l].bin # Absent => tree["index"][l].bin # Absent
    BY DEF CopyOK, Data, FileNames
  <2>2. Held(tree["copy"], "inner") => Of("top") = "split"
    BY SplitFacts DEF CopyOK
  <2>3. CASE tree["copy"][level].information # Absent
    BY <1>2, <2>1, <2>3 DEF Of, Layout
  <2>4. CASE /\ tree["copy"][level].information = Absent
             /\ level = "top" /\ Held(tree["copy"], "inner")
    BY <1>2, <2>2, <2>4 DEF Layout
  <2>5. CASE /\ tree["copy"][level].information = Absent
             /\ ~(level = "top" /\ Held(tree["copy"], "inner"))
    <3>1. Layout(tree["copy"], level) = "compressed"
      BY <2>5 DEF Layout
    <3>2. tree["copy"][level].bin # Absent
      <4>1. CASE level = "top"
        BY <1>2, <3>1, <4>1 DEF Loads, DataLoads, detect_index_kind, At
      <4>2. CASE level = "inner"
        <5>1. Of("top") = "split" /\ tree["copy"]["top"].information = Absent
          BY <1>2, <2>1, <2>2, <4>2 DEF Of, Layout, Levels
        <5>2. Layout(tree["copy"], "top") = "split"
          BY <1>2, <4>2, <5>1 DEF Layout
        <5>. QED
          BY <1>2, <3>1, <4>2, <5>2 DEF Loads, DataLoads, detect_index_kind, At
      <4>. QED
        BY <4>1, <4>2 DEF Levels
    <3>. QED
      BY <1>2, <2>1, <3>1, <3>2, BinFacts
  <2>. QED
    BY <2>3, <2>4, <2>5
<1>. QED
  BY <1>1, <1>2 DEF Roots

-----------------------------------------------------------------------------
(***************************************************************************)
(* Initially, and when a call begins                                       *)
(***************************************************************************)

\* What releases leave is an index.
LEMMA ReleasedIndex ==
  ASSUME NEW index, AsReleased(index)
  PROVE  /\ index \in [Levels -> [FileNames -> Contents]]
         /\ Held(index, "inner") => Layout(index, "top") = "split"
         /\ \A level \in Levels :
              /\ level = "top" \/ Held(index, "inner")
                   => (index[level].bin # Absent <=> Layout(index, level) = "compressed")
              /\ index[level].bin \in Bins \cup {Absent}
              /\ index[level].manifest \in Manifests \cup {Absent}
              /\ index[level].bin # Absent => index[level].bin.lengths # "misread"
              /\ index[level].manifest # Absent
                   => /\ index[level].manifest.kind = Layout(index, level)
                      /\ index[level].bin # Absent
                           => index[level].bin.version >= Promised(index[level].manifest.version)
         /\ LET outer == index["top"].manifest
                within == index["inner"].manifest
            IN outer # Absent /\ outer.kind = "split" /\ outer.version = CURRENT_FORMAT_VERSION
                 => within # Absent /\ within.version = CURRENT_FORMAT_VERSION
<1>1. index \in [Levels -> [manifest : Manifests \cup {Absent},
                            information : {Absent, "information"},
                            bin : Bins \cup {Absent}, lengths : {Absent, "lengths"}]]
  BY DEF AsReleased
<1>2. ASSUME NEW files \in [manifest : Manifests \cup {Absent},
                            information : {Absent, "information"},
                            bin : Bins \cup {Absent}, lengths : {Absent, "lengths"}]
      PROVE  files \in [FileNames -> Contents]
  BY DEF FileNames, Contents
<1>3. index \in [Levels -> [FileNames -> Contents]]
  BY <1>1, <1>2
<1>4. \A level \in Levels :
        /\ index[level].bin \in Bins \cup {Absent}
        /\ index[level].manifest \in Manifests \cup {Absent}
  BY <1>1
<1>. QED
  BY <1>3, <1>4 DEF AsReleased

\* At first there is an index as releases left it, and no copy.
LEMMA InitInvariant ==
  ASSUME Init
  PROVE  IInv
<1>1. PICK original \in Originals :
        tree = [index |-> original, copy |-> [level \in Levels |-> NoFiles]]
  BY DEF Init
<1>2. AsReleased(original)
  BY MigrationAssumption
<1>3. /\ target = "index" /\ stack = <<>> /\ copying = {} /\ outcome = "none"
      /\ overwritten = FALSE /\ calls = 0 /\ crashes = 0
  BY DEF Init
<1>4. tree["index"] = original /\ tree["copy"] = [level \in Levels |-> NoFiles]
  BY <1>1
<1>5. \A level \in Levels, name \in FileNames : tree["copy"][level][name] = Absent
  BY <1>4 DEF NoFiles
<1>6. \A level \in Levels :
        tree["copy"][level].manifest = Absent /\ tree["copy"][level].bin = Absent
  BY <1>5 DEF FileNames
<1>7. tree \in [Roots -> [Levels -> [FileNames -> Contents]]]
  <2>1. original \in [Levels -> [FileNames -> Contents]]
    BY <1>2, ReleasedIndex
  <2>2. [level \in Levels |-> NoFiles] \in [Levels -> [FileNames -> Contents]]
    BY DEF NoFiles, Contents
  <2>. QED
    BY <1>1, <2>1, <2>2 DEF Roots
<1>8. Absent # Short /\ \A c \in Manifests \cup Bins : c # Absent /\ c # Short
  BY ContentFacts DEF Whole
<1>9. \A level \in Levels :
        /\ tree["index"][level].bin \in Bins \cup {Absent}
        /\ tree["index"][level].manifest \in Manifests \cup {Absent}
  BY <1>2, <1>4, ReleasedIndex
<1>10. TreeOK
  <2>1. \A level \in Levels :
          tree["index"][level].manifest # Absent
            => tree["index"][level].manifest.kind = Of(level)
    BY <1>2, <1>4, ReleasedIndex DEF Of
  <2>. QED
    BY <1>6, <1>7, <1>9, <2>1 DEF TreeOK, Roots, Whole
<1>11. IndexOK
  <2>1. Held(tree["index"], "inner") => Of("top") = "split"
    BY <1>2, <1>4, ReleasedIndex DEF Of
  <2>2. \A level \in Levels :
          level = "top" \/ Held(tree["index"], "inner")
            => (tree["index"][level].bin # Absent <=> Of(level) = "compressed")
    BY <1>2, <1>4, ReleasedIndex DEF Of
  <2>3. \A level \in Levels : tree["index"][level].bin # Short
    BY <1>8, <1>9
  <2>4. \A level \in Levels : Faithful("index", level) /\ WellRead("index", level)
    BY <1>2, <1>4, ReleasedIndex DEF Faithful, WellRead, Whole
  <2>5. Settled("index")
    <3>1. SUFFICES ASSUME Of("top") = "split", Current("index", "top")
                   PROVE  Current("index", "inner")
      BY DEF Settled
    <3>2. /\ original["top"].manifest # Absent
          /\ original["top"].manifest.version = CURRENT_FORMAT_VERSION
      BY <1>4, <3>1 DEF Current, Whole
    <3>3. original["top"].manifest.kind = "split"
      BY <1>2, <1>4, <3>1, <3>2, ReleasedIndex DEF Of, Levels
    <3>4. /\ original["inner"].manifest # Absent
          /\ original["inner"].manifest.version = CURRENT_FORMAT_VERSION
      BY <1>2, <3>2, <3>3, ReleasedIndex
    <3>. QED
      BY <1>4, <1>8, <1>9, <3>4 DEF Current, Whole, Levels
  <2>. QED
    BY <2>1, <2>2, <2>3, <2>4, <2>5 DEF IndexOK
<1>12. CopyOK
  BY <1>5, <1>6 DEF CopyOK, Held, Settled, Current, Faithful, Whole, Data, Levels
<1>13. CountersOK
  <2>1. 0 \in 0 .. MaxCalls /\ 0 \in 0 .. MaxCrashes
    BY MigrationAssumption
  <2>2. overwritten \in BOOLEAN
    BY <1>3
  <2>. QED
    BY <1>3, <2>1, <2>2 DEF CountersOK, Roots
<1>14. CopyingOK /\ RunOK /\ UpdatedOK /\ ResumesUnlessManifest
  BY <1>3 DEF CopyingOK, RunOK, UpdatedOK, ResumesUnlessManifest
<1>. QED
  BY <1>10, <1>11, <1>12, <1>13, <1>14 DEF IInv

\* What is trusted depends on the index, unless that is what is updated.
LEMMA TrustStays ==
  ASSUME tree'["index"] = tree["index"] \/ target = "index", UNCHANGED <<target, overwritten>>
  PROVE  Trusted' <=> Trusted
<1>1. CASE target = "index"
  BY <1>1 DEF Trusted
<1>2. CASE tree'["index"] = tree["index"]
  <2>1. Unversioned("index")' <=> Unversioned("index")
    BY <1>2 DEF Unversioned, At, Exists
  <2>2. Loads("index")' <=> Loads("index")
    BY <1>2 DEF Loads, ManifestLoads, Readable, Version, DataLoads, detect_index_kind, At
  <2>. QED
    BY <2>1, <2>2 DEF Trusted
<1>. QED
  BY <1>1, <1>2

\* Without a write, and the copy begun over as much, the directories stay as they are.
LEMMA FilesStay ==
  ASSUME TreeOK, IndexOK, CopyOK, UNCHANGED tree, overwritten' = FALSE => overwritten = FALSE,
         overwritten \in BOOLEAN, overwritten' \in BOOLEAN
  PROVE  TreeOK' /\ IndexOK' /\ CopyOK' /\ \A level \in Levels : Of(level)' = Of(level)
BY DEF TreeOK, IndexOK, CopyOK, Faithful, WellRead, Current, Settled, Of

\* A call for the index itself begins with all its data.
LEMMA BeginInPlaceKeeps ==
  ASSUME IInv, BeginInPlace
  PROVE  IInv'
<1>. USE DEF BeginInPlace
<1>1. TreeOK' /\ IndexOK' /\ CopyOK' /\ \A level \in Levels : Of(level)' = Of(level)
  BY FilesStay DEF IInv, CountersOK
<1>2. CountersOK'
  BY MigrationAssumption DEF IInv, CountersOK, Roots
<1>3. CopyingOK'
  BY DEF Idle, CopyingOK
<1>4. RunOK'
  <2>1. StackOK'
    <3>. DEFINE f == Frame(<<"index", "top">>, 0, "enter")
    <3>1. f \in Frames /\ f.next = "enter" /\ f.path = <<"index", "top">>
      BY DEF Frame, Frames, Nexts, Roots, Levels, CURRENT_FORMAT_VERSION
    <3>2. FrameOK(f, "top")'
      BY <3>1 DEF FrameOK, Kinds
    <3>. QED
      BY <3>1, <3>2 DEF StackOK
  <2>2. \A level \in Levels : tree["index"][level].bin # Short
    BY DEF IInv, IndexOK
  <2>3. /\ \A level \in Levels : Faithful("index", level)' /\ WellRead("index", level)'
        /\ Settled("index")'
    BY <1>1 DEF IndexOK
  <2>. QED
    BY <2>1, <2>2, <2>3 DEF RunOK, Idle
<1>5. UpdatedOK' /\ ResumesUnlessManifest'
  BY DEF UpdatedOK, ResumesUnlessManifest
<1>. QED
  BY <1>1, <1>2, <1>3, <1>4, <1>5 DEF IInv

\* A call for a copy begins with nothing copied.
LEMMA BeginCopyKeeps ==
  ASSUME IInv, BeginCopy
  PROVE  IInv'
<1>. USE DEF BeginCopy
<1>1. TreeOK' /\ IndexOK' /\ CopyOK' /\ \A level \in Levels : Of(level)' = Of(level)
  BY FilesStay DEF IInv, CountersOK
<1>2. CountersOK'
  BY MigrationAssumption DEF IInv, CountersOK, Roots
<1>3. CopyingOK'
  <2>1. stack' = <<>> /\ target' = "copy" /\ outcome' = "running"
    BY DEF Idle
  <2>2. \A level \in Levels, name \in FileNames :
          <<level, name>> \in copying' <=> tree["index"][level][name] # Absent
    OBVIOUS
  <2>3. ~overwritten' => \A level \in Levels, name \in FileNames :
                           tree["copy"][level][name] = Absent
    BY DEF Exists, Held
  <2>. QED
    BY <2>1, <2>2, <2>3 DEF CopyingOK
<1>4. RunOK' /\ UpdatedOK' /\ ResumesUnlessManifest'
  BY DEF RunOK, UpdatedOK, ResumesUnlessManifest, Idle
<1>. QED
  BY <1>1, <1>2, <1>3, <1>4 DEF IInv

-----------------------------------------------------------------------------
(***************************************************************************)
(* Copying                                                                 *)
(***************************************************************************)

\* The copy of a copied file is the file, and what the index does not have may be
\* left of an earlier copy.
AllCopied ==
  \A level \in Levels, name \in FileNames :
    tree["index"][level][name] # Absent => tree["copy"][level][name] = tree["index"][level][name]

\* The manifests of the copy are those of the index, or nothing is to be done.
Replaced == overwritten => ~Unversioned("index") \/ Loads("index")

\* What a copy that is complete is.
WholeCopy ==
  /\ \A level \in Levels :
       /\ tree["copy"][level].bin # Short
       /\ WellRead("copy", level)
       /\ Replaced => Faithful("copy", level)
  /\ Replaced /\ (~overwritten /\ Current("copy", "top") => Current("index", "top"))
       => Settled("copy")

\* A copy that can be trusted is as whole as its index.
LEMMA CopyIsWhole ==
  TreeOK /\ IndexOK /\ CopyOK /\ AllCopied => WholeCopy
<1>. SUFFICES ASSUME TreeOK, IndexOK, CopyOK, AllCopied
              PROVE  WholeCopy
  OBVIOUS
<1>1. \A level \in Levels : tree["copy"][level].bin = tree["index"][level].bin
  BY DEF AllCopied, CopyOK, Data, FileNames
<1>2. \A level \in Levels :
        tree["index"][level].manifest # Absent
          => tree["copy"][level].manifest = tree["index"][level].manifest
  BY DEF AllCopied, FileNames
<1>3. \A level \in Levels : tree["copy"][level].bin # Short /\ WellRead("copy", level)
  BY <1>1 DEF IndexOK, WellRead
<1>4. ASSUME overwritten, Unversioned("index") => Loads("index"),
             NEW level \in Levels, Whole(tree["copy"][level].bin)
      PROVE  Faithful("copy", level)
  <2>1. tree["index"][level].bin = tree["copy"][level].bin /\ tree["index"][level].bin # Absent
    BY <1>1, <1>4 DEF Whole
  <2>2. Of(level) = "compressed" /\ (level = "inner" => Of("top") = "split")
    BY <2>1, BinFacts
  <2>3. CASE Unversioned("index")
    <3>1. tree["index"][level].bin.version = COMPRESSED_INDEX_VERSION
      <4>1. CASE level = "top"
        BY <1>4, <2>2, <2>3, <4>1
           DEF Loads, DataLoads, detect_index_kind, At, Of
      <4>2. CASE level = "inner"
        BY <1>4, <2>2, <2>3, <4>2
           DEF Loads, DataLoads, detect_index_kind, At, Of
      <4>. QED
        BY <4>1, <4>2 DEF Levels
    <3>. QED
      BY <2>1, <3>1 DEF Faithful, Promised, COMPRESSED_INDEX_VERSION
  <2>4. CASE ~Unversioned("index")
    <3>1. tree["index"][level].manifest # Absent
      <4>1. CASE level = "top"
        BY <2>4, <4>1 DEF Unversioned, At
      <4>2. CASE level = "inner"
        <5>1. Held(tree["index"], "inner")
          BY <2>2, <4>2, SplitFacts
        <5>. QED
          BY <2>4, <4>2, <5>1 DEF Unversioned, At, Exists
      <4>. QED
        BY <4>1, <4>2 DEF Levels
    <3>2. Faithful("index", level)
      BY DEF IndexOK
    <3>. QED
      BY <1>1, <1>2, <3>1, <3>2 DEF Faithful
  <2>. QED
    BY <2>3, <2>4
<1>5. ASSUME Replaced, NEW level \in Levels
      PROVE  Faithful("copy", level)
  BY <1>4, <1>5 DEF Replaced, Faithful, CopyOK
<1>6. ASSUME Replaced, ~overwritten /\ Current("copy", "top") => Current("index", "top"),
             Of("top") = "split", Current("copy", "top")
      PROVE  Current("copy", "inner")
  <2>1. CASE tree["index"]["inner"].manifest = Absent
    BY <1>6, <2>1 DEF CopyOK, Settled
  <2>2. CASE tree["index"]["inner"].manifest # Absent
    <3>1. Current("index", "inner") => Current("copy", "inner")
      BY <1>2 DEF Current, Whole, Levels
    <3>2. CASE ~overwritten
      BY <1>6, <3>1, <3>2 DEF IndexOK, Settled
    <3>3. CASE ~Unversioned("index")
      <4>1. Current("index", "top")
        BY <1>2, <1>6, <3>3 DEF Current, Unversioned, At, Levels
      <4>. QED
        BY <1>6, <3>1, <4>1 DEF IndexOK, Settled
    <3>4. CASE Loads("index")
      <4>1. ManifestLoads(<<"index", "inner">>)
        BY <1>6, <3>4 DEF Loads, detect_index_kind, Of
      <4>2. tree["index"]["inner"].manifest \in Manifests
        BY <2>2, <4>1 DEF ManifestLoads, Readable, At, TreeOK, Roots, Levels
      <4>3. tree["index"]["inner"].manifest.version \in 1 .. 4
        BY <4>2, OfManifest
      <4>4. Current("index", "inner")
        BY <2>2, <4>1, <4>3
           DEF Current, Whole, ManifestLoads, Readable, Version, At, CURRENT_FORMAT_VERSION
      <4>. QED
        BY <3>1, <4>4
    <3>. QED
      BY <1>6, <3>2, <3>3, <3>4 DEF Replaced
  <2>. QED
    BY <2>1, <2>2
<1>. QED
  BY <1>3, <1>5, <1>6 DEF WholeCopy, Settled

\* What is written of a file is less of it than there is in the index.
LEMMA CopyFileFacts ==
  ASSUME IInv, NEW level \in Levels, NEW name \in FileNames,
         CopyFile(level, name)
  PROVE  /\ tree["index"][level][name] # Absent
         /\ \E content \in {Short, tree["index"][level][name]} :
              /\ Put(<<"copy", level>>, name, content)
              /\ tree' \in [Roots -> [Levels -> [FileNames -> Contents]]]
              /\ tree'["copy"][level][name] = content
         /\ tree'["index"] = tree["index"]
         /\ \A m \in Levels, k \in FileNames :
              <<m, k>> # <<level, name>> => tree'["copy"][m][k] = tree["copy"][m][k]
         /\ \A m \in Levels, k \in FileNames :
              tree["index"][m][k] # Absent /\ <<m, k>> \notin copying'
                => tree'["copy"][m][k] = tree["index"][m][k]
<1>. USE DEF CopyFile
<1>1. tree["index"][level][name] # Absent
  BY DEF IInv, CopyingOK
<1>2. tree \in [Roots -> [Levels -> [FileNames -> Contents]]]
  BY DEF IInv, TreeOK
<1>3. PICK content \in {Short, tree["index"][level][name]} : Put(<<"copy", level>>, name, content)
  OBVIOUS
<1>4. content \in Contents
  BY <1>2 DEF Contents, Roots
<1>5. /\ tree' \in [Roots -> [Levels -> [FileNames -> Contents]]]
      /\ tree'["copy"][level][name] = content
      /\ \A s \in Roots, m \in Levels, k \in FileNames :
           <<s, m, k>> # <<"copy", level, name>> => tree'[s][m][k] = tree[s][m][k]
  BY <1>2, <1>3, <1>4, PutFacts DEF Roots
<1>6. tree'["index"] = tree["index"]
  BY <1>2, <1>3 DEF Put, Roots
<1>7. ASSUME NEW m \in Levels, NEW k \in FileNames,
             tree["index"][m][k] # Absent, <<m, k>> \notin copying'
      PROVE  tree'["copy"][m][k] = tree["index"][m][k]
  <2>1. CASE <<m, k>> = <<level, name>>
    BY <1>6, <1>7, <2>1
  <2>2. CASE <<m, k>> # <<level, name>>
    <3>1. <<m, k>> \notin copying
      BY <1>7, <2>2
    <3>2. tree["copy"][m][k] = tree["index"][m][k]
      BY <1>7, <3>1 DEF IInv, CopyingOK
    <3>. QED
      BY <1>5, <2>2, <3>2 DEF Roots
  <2>. QED
    BY <2>1, <2>2
<1>8. \A m \in Levels, k \in FileNames :
        <<m, k>> # <<level, name>> => tree'["copy"][m][k] = tree["copy"][m][k]
  BY <1>5 DEF Roots
<1>. QED
  BY <1>1, <1>3, <1>5, <1>6, <1>7, <1>8

\* The index is as it was.
LEMMA IndexStays ==
  ASSUME IndexOK, tree'["index"] = tree["index"]
  PROVE  IndexOK' /\ \A level \in Levels : Of(level)' = Of(level)
BY DEF IndexOK, Faithful, WellRead, Current, Settled, Of

\* Copying a file leaves the index and the copy as they have to be.
LEMMA CopyFileKeepsFiles ==
  ASSUME IInv, NEW level \in Levels, NEW name \in FileNames,
         CopyFile(level, name)
  PROVE  TreeOK' /\ IndexOK' /\ CopyOK' /\ CopyingOK'
<1>1. PICK content \in {Short, tree["index"][level][name]} :
        /\ tree' \in [Roots -> [Levels -> [FileNames -> Contents]]]
        /\ tree'["copy"][level][name] = content
  BY CopyFileFacts
<1>2. /\ tree["index"][level][name] # Absent
      /\ tree'["index"] = tree["index"]
      /\ \A m \in Levels, k \in FileNames :
           <<m, k>> # <<level, name>> => tree'["copy"][m][k] = tree["copy"][m][k]
      /\ \A m \in Levels, k \in FileNames :
           tree["index"][m][k] # Absent /\ <<m, k>> \notin copying'
             => tree'["copy"][m][k] = tree["index"][m][k]
  BY CopyFileFacts
<1>3. IndexOK' /\ \A m \in Levels : Of(m)' = Of(m)
  BY <1>2, IndexStays DEF IInv
<1>4. \A m \in Levels, k \in FileNames :
        tree'["copy"][m][k] \in {tree["copy"][m][k], Short, tree["index"][m][k]}
  BY <1>1, <1>2
<1>5. TreeOK'
  <2>1. \A m \in Levels :
          /\ tree'["copy"][m].manifest
               \in {tree["copy"][m].manifest, Short, tree["index"][m].manifest}
          /\ tree'["copy"][m].bin \in {tree["copy"][m].bin, Short, tree["index"][m].bin}
    BY <1>4 DEF FileNames
  <2>2. \A r \in Roots, m \in Levels :
          /\ tree[r][m].manifest \in Manifests \cup {Absent, Short}
          /\ tree[r][m].bin \in Bins \cup {Absent, Short}
          /\ Whole(tree[r][m].manifest) => tree[r][m].manifest.kind = Of(m)
    BY DEF IInv, TreeOK
  <2>3. ASSUME NEW m \in Levels
        PROVE  /\ tree'["copy"][m].manifest \in Manifests \cup {Absent, Short}
               /\ tree'["copy"][m].bin \in Bins \cup {Absent, Short}
               /\ Whole(tree'["copy"][m].manifest) => tree'["copy"][m].manifest.kind = Of(m)
    BY <2>1, <2>2 DEF Whole, Roots
  <2>. QED
    BY <1>1, <1>2, <1>3, <2>2, <2>3 DEF TreeOK, Roots
<1>6. ASSUME ~overwritten, NEW m \in Levels, NEW k \in FileNames
      PROVE  /\ tree'["copy"][m][k] \in {Absent, Short, tree["index"][m][k]}
             /\ tree["index"][m][k] = Absent => tree'["copy"][m][k] = Absent
  <2>1. copying # {}
    BY DEF CopyFile
  <2>2. /\ tree["copy"][m][k] \in {Absent, Short, tree["index"][m][k]}
        /\ tree["index"][m][k] = Absent => tree["copy"][m][k] = Absent
    BY <1>6, <2>1 DEF IInv, CopyingOK
  <2>3. CASE <<m, k>> = <<level, name>>
    BY <1>1, <1>2, <2>3
  <2>4. CASE <<m, k>> # <<level, name>>
    BY <1>2, <2>2, <2>4
  <2>. QED
    BY <2>3, <2>4
<1>7. CopyOK'
  <2>1. Held(tree'["copy"], "inner") => Held(tree'["index"], "inner")
    <3>1. SUFFICES ASSUME NEW k \in FileNames, tree'["copy"]["inner"][k] # Absent
                   PROVE  Held(tree["index"], "inner")
      BY <1>2 DEF Held
    <3>2. CASE <<"inner", k>> = <<level, name>>
      BY <1>2, <3>2 DEF Held
    <3>3. CASE <<"inner", k>> # <<level, name>>
      BY <1>2, <3>1, <3>3 DEF IInv, CopyOK, Held, Levels
    <3>. QED
      BY <3>2, <3>3
  <2>2. ASSUME NEW m \in Levels, NEW k \in Data, tree'["index"][m][k] = Absent
        PROVE  tree'["copy"][m][k] = Absent
    BY <1>2, <2>2 DEF IInv, CopyOK, Data
  <2>3. ASSUME tree'["index"]["inner"].manifest = Absent, Of("top")' = "split",
               Current("copy", "top")'
        PROVE  Current("copy", "inner")'
    <3>1. tree'["copy"]["inner"].manifest = tree["copy"]["inner"].manifest
      BY <1>2, <2>3 DEF Levels, FileNames
    <3>2. CASE <<level, name>> = <<"top", "manifest">>
      <4>1. tree'["copy"]["top"].manifest = tree["index"]["top"].manifest
        BY <1>1, <2>3, <3>2 DEF Current, Whole
      <4>2. Current("index", "top")
        BY <2>3, <4>1 DEF Current
      <4>3. Current("index", "inner")
        BY <1>3, <2>3, <4>2 DEF IInv, IndexOK, Settled, Levels
      <4>. QED
        BY <1>2, <2>3, <4>3 DEF Current, Whole
    <3>3. CASE <<level, name>> # <<"top", "manifest">>
      <4>1. tree'["copy"]["top"].manifest = tree["copy"]["top"].manifest
        BY <1>2, <3>3 DEF Levels, FileNames
      <4>. QED
        BY <1>2, <1>3, <2>3, <3>1, <4>1 DEF IInv, CopyOK, Settled, Current, Levels
    <3>. QED
      BY <3>2, <3>3
  <2>4. ASSUME ~overwritten', NEW m \in Levels
        PROVE  Faithful("copy", m)'
    <3>1. /\ tree'["copy"][m].manifest \in {Absent, Short, tree["index"][m].manifest}
          /\ tree'["copy"][m].bin \in {Absent, Short, tree["index"][m].bin}
      BY <1>6, <2>4 DEF CopyFile, FileNames
    <3>2. Faithful("index", m)
      BY DEF IInv, IndexOK
    <3>. QED
      BY <3>1, <3>2 DEF Faithful, Whole
  <2>. QED
    BY <2>1, <2>2, <2>3, <2>4 DEF CopyOK, Settled
<1>8. CopyingOK'
  <2>1. SUFFICES ASSUME copying' # {}
                 PROVE  CopyingOK'
    BY DEF CopyingOK
  <2>2. copying' \subseteq copying /\ stack' = <<>>
    BY <2>1 DEF CopyFile
  <2>3. target' = "copy" /\ outcome' = "running"
    BY DEF CopyFile, IInv, CopyingOK
  <2>4. \A m \in Levels, k \in FileNames :
          /\ <<m, k>> \in copying' => tree'["index"][m][k] # Absent
          /\ <<m, k>> \notin copying' /\ tree'["index"][m][k] # Absent
               => tree'["copy"][m][k] = tree'["index"][m][k]
    <3>1. \A m \in Levels, k \in FileNames : <<m, k>> \in copying => tree["index"][m][k] # Absent
      BY DEF IInv, CopyingOK
    <3>2. \A m \in Levels, k \in FileNames : <<m, k>> \in copying' => <<m, k>> \in copying
      BY <2>2
    <3>3. tree'["index"] = tree["index"]
      BY <1>2
    <3>4. \A m \in Levels, k \in FileNames :
            tree["index"][m][k] # Absent /\ <<m, k>> \notin copying'
              => tree'["copy"][m][k] = tree["index"][m][k]
      BY <1>2
    <3>5. SUFFICES ASSUME NEW m \in Levels, NEW k \in FileNames
                   PROVE  /\ <<m, k>> \in copying' => tree'["index"][m][k] # Absent
                          /\ <<m, k>> \notin copying' /\ tree'["index"][m][k] # Absent
                               => tree'["copy"][m][k] = tree'["index"][m][k]
      OBVIOUS
    <3>6. tree'["index"][m][k] = tree["index"][m][k]
      BY <3>3
    <3>7. <<m, k>> \in copying' => tree["index"][m][k] # Absent
      BY <3>1, <3>2
    <3>8. tree["index"][m][k] # Absent /\ <<m, k>> \notin copying'
             => tree'["copy"][m][k] = tree["index"][m][k]
      BY <3>4
    <3>. QED
      BY <3>6, <3>7, <3>8
  <2>5. overwritten' = overwritten
    BY DEF CopyFile
  <2>. QED
    BY <1>2, <1>6, <2>2, <2>3, <2>4, <2>5 DEF CopyingOK
<1>. QED
  BY <1>3, <1>5, <1>7, <1>8

\* When the last file is copied, the copy has all the data and is as whole as the index.
LEMMA CopyFileKeeps ==
  ASSUME IInv, NEW level \in Levels, NEW name \in FileNames,
         CopyFile(level, name)
  PROVE  IInv'
<1>1. TreeOK' /\ IndexOK' /\ CopyOK' /\ CopyingOK'
  BY CopyFileKeepsFiles
<1>2. /\ UNCHANGED <<target, outcome, overwritten, calls, crashes>>
      /\ target = "copy" /\ outcome = "running" /\ overwritten \in BOOLEAN
      /\ copying' \subseteq copying
      /\ stack' = IF copying' = {} THEN <<Frame(<<target, "top">>, 0, "enter")>> ELSE <<>>
  BY DEF CopyFile, IInv, CopyingOK, CountersOK
<1>3. CountersOK'
  BY <1>2 DEF IInv, CountersOK
<1>4. UpdatedOK' /\ ResumesUnlessManifest'
  BY <1>2 DEF UpdatedOK, ResumesUnlessManifest
<1>5. ASSUME copying' = {}
      PROVE  RunOK'
  <2>1. AllCopied'
    <3>1. /\ tree'["index"] = tree["index"]
          /\ \A m \in Levels, k \in FileNames :
               tree["index"][m][k] # Absent /\ <<m, k>> \notin copying'
                 => tree'["copy"][m][k] = tree["index"][m][k]
      BY CopyFileFacts
    <3>. QED
      BY <1>5, <3>1 DEF AllCopied
  <2>2. StackOK'
    <3>. DEFINE f == Frame(<<"copy", "top">>, 0, "enter")
    <3>1. f \in Frames /\ f.next = "enter" /\ f.path = <<"copy", "top">>
      BY DEF Frame, Frames, Nexts, Roots, Levels, CURRENT_FORMAT_VERSION
    <3>2. FrameOK(f, "top")'
      BY <1>2, <3>1 DEF FrameOK, Kinds
    <3>. QED
      BY <1>2, <1>5, <3>1, <3>2 DEF StackOK
  <2>3. ASSUME ~overwritten', Current("copy", "top")'
        PROVE  Current("index", "top")'
    <3>1. PICK content \in {Short, tree["index"][level][name]} :
            tree'["copy"][level][name] = content
      BY CopyFileFacts
    <3>2. /\ tree["index"][level][name] # Absent
          /\ tree'["index"] = tree["index"]
          /\ \A m \in Levels, k \in FileNames :
               <<m, k>> # <<level, name>> => tree'["copy"][m][k] = tree["copy"][m][k]
      BY CopyFileFacts
    <3>0. ~overwritten /\ copying # {}
      BY <1>2, <2>3 DEF CopyFile
    <3>3. tree'["copy"]["top"]["manifest"] \in {Absent, Short, tree["index"]["top"]["manifest"]}
      <4>1. CASE <<level, name>> = <<"top", "manifest">>
        BY <3>1, <4>1
      <4>2. CASE <<level, name>> # <<"top", "manifest">>
        BY <3>0, <3>2, <4>2 DEF IInv, CopyingOK, Levels, FileNames
      <4>. QED
        BY <4>1, <4>2
    <3>. QED
      BY <2>3, <3>2, <3>3 DEF Current, Whole
  <2>4. /\ \A m \in Levels :
             /\ tree'["copy"][m].bin # Short
             /\ WellRead("copy", m)'
             /\ Trusted' => Faithful("copy", m)'
        /\ Trusted' => Settled("copy")'
    <3>1. WholeCopy'
      BY <1>1, <2>1, CopyIsWhole, PTL
    <3>2. Trusted' => Replaced'
      BY <1>2 DEF Trusted, Replaced
    <3>. QED
      BY <2>3, <3>1, <3>2 DEF WholeCopy
  <2>5. \A m \in Levels, k \in Data :
          tree'["index"][m][k] # Absent => tree'["copy"][m][k] # Absent
    BY <2>1 DEF AllCopied, Data
  <2>. QED
    BY <1>2, <1>5, <2>2, <2>4, <2>5 DEF RunOK
<1>6. RunOK'
  BY <1>2, <1>5 DEF RunOK
<1>. QED
  BY <1>1, <1>3, <1>4, <1>6 DEF IInv

-----------------------------------------------------------------------------
(***************************************************************************)
(* The calls under way                                                     *)
(***************************************************************************)

\* The frame of this level has the frames it was called from below it.
Below(level) ==
  \/ level = "top" /\ Front(stack) = <<>> /\ Len(stack) = 1
  \/ /\ level = "inner" /\ Len(stack) = 2
     /\ \E g \in Frames : Front(stack) = <<g>> /\ g.next = "within" /\ FrameOK(g, "top")

\* The frame at the top is that of a level.
LEMMA TopFacts ==
  ASSUME IInv, stack # <<>>
  PROVE  \E level \in Levels, f \in Frames :
           Top = f /\ f.next # "within" /\ FrameOK(f, level) /\ Below(level)
<1>1. StackOK
  BY DEF IInv, RunOK
<1>2. CASE \E f \in Frames : stack = <<f>> /\ f.next # "within" /\ FrameOK(f, "top")
  <2>1. PICK f \in Frames : stack = <<f>> /\ f.next # "within" /\ FrameOK(f, "top")
    BY <1>2
  <2>2. Top = f /\ Front(stack) = <<>> /\ Len(stack) = 1
    BY <2>1, StackFacts DEF Top
  <2>. QED
    BY <2>1, <2>2 DEF Below, Levels
<1>3. CASE \E g, f \in Frames :
             /\ stack = <<g, f>> /\ g.next = "within" /\ f.next # "within"
             /\ FrameOK(g, "top") /\ FrameOK(f, "inner")
  <2>1. PICK g \in Frames, f \in Frames :
          /\ stack = <<g, f>> /\ g.next = "within" /\ f.next # "within"
          /\ FrameOK(g, "top") /\ FrameOK(f, "inner")
    BY <1>3
  <2>2. Top = f /\ Front(stack) = <<g>> /\ Len(stack) = 2
    BY <2>1, StackFacts DEF Top
  <2>. QED
    BY <2>1, <2>2 DEF Below, Levels
<1>. QED
  BY <1>1, <1>2, <1>3 DEF StackOK

\* The index within is under way only in a split one that is not yet current.
LEMMA BelowFacts ==
  ASSUME IInv, NEW level \in Levels, Below(level), level = "inner"
  PROVE  Of("top") = "split" /\ ~Current(target, "top") /\ Held(tree["index"], "inner")
<1>1. PICK g \in Frames : g.next = "within" /\ FrameOK(g, "top")
  BY DEF Below
<1>2. /\ Of("top") = "split" /\ g.version \in 1 .. CURRENT_FORMAT_VERSION - 1
      /\ Version(<<target, "top">>) = g.version
  BY <1>1 DEF FrameOK
<1>3. ~Current(target, "top")
  BY <1>2 DEF Current, Whole, Version, At, CURRENT_FORMAT_VERSION
<1>. QED
  BY <1>2, <1>3, SplitFacts DEF IInv

\* The top frame is replaced.
LEMMA ReplaceTop ==
  ASSUME NEW level \in Levels, Below(level),
         NEW h \in Frames, h.next # "within", FrameOK(h, level)',
         stack' = Append(Front(stack), h),
         UNCHANGED target, Of("top")' = Of("top"),
         level = "inner" => tree'[target]["top"].manifest = tree[target]["top"].manifest
  PROVE  StackOK'
<1>1. CASE level = "top" /\ Front(stack) = <<>>
  <2>1. stack' = <<h>>
    BY <1>1, StackFacts
  <2>. QED
    BY <1>1, <2>1 DEF StackOK
<1>2. CASE level = "inner"
  <2>1. PICK g \in Frames : Front(stack) = <<g>> /\ g.next = "within" /\ FrameOK(g, "top")
    BY <1>2 DEF Below
  <2>2. stack' = <<g, h>>
    <3>1. Append(<<g>>, h) = <<g, h>>
      BY StackFacts
    <3>. QED
      BY <2>1, <3>1
  <2>3. FrameOK(g, "top")'
    <3>1. /\ g.path = <<target', "top">> /\ g.version \in 1 .. CURRENT_FORMAT_VERSION - 1
          /\ Of("top")' = "split"
          /\ Readable(<<target, "top">>) /\ Version(<<target, "top">>) = g.version
      BY <2>1 DEF FrameOK
    <3>2. Readable(<<target, "top">>)' /\ Version(<<target, "top">>)' = g.version
      BY <1>2, <3>1 DEF Readable, Version, At
    <3>. QED
      BY <2>1, <3>1, <3>2 DEF FrameOK, Kinds
  <2>. QED
    BY <1>2, <2>1, <2>2, <2>3 DEF StackOK
<1>. QED
  BY <1>1, <1>2 DEF Below

\* A directory that is brought up to date is whole.
LEMMA RunFacts ==
  ASSUME IInv, stack # <<>>
  PROVE  /\ copying = {} /\ outcome = "running" /\ target \in Roots
         /\ Held(tree[target], "inner") <=> Held(tree["index"], "inner")
         /\ \A level \in Levels :
              /\ Layout(tree[target], level) = Of(level)
              /\ tree[target][level].bin \in Bins \cup {Absent}
              /\ tree[target][level].bin # Absent
                   => /\ Whole(tree[target][level].bin) /\ Of(level) = "compressed"
                      /\ tree[target][level].bin.version \in 3 .. 5
              /\ Of(level) = "compressed" /\ (level = "inner" => Of("top") = "split")
                   => tree[target][level].bin # Absent
<1>. USE DEF IInv
<1>1. copying = {} /\ outcome = "running" /\ target \in Roots
  BY DEF RunOK, CountersOK
<1>2. \A level \in Levels, name \in Data :
        tree["index"][level][name] # Absent => tree[target][level][name] # Absent
  BY DEF RunOK
<1>3. /\ Held(tree[target], "inner") <=> Held(tree["index"], "inner")
      /\ \A level \in Levels : Layout(tree[target], level) = Of(level)
  BY <1>1, <1>2, CompleteLayout
<1>4. ASSUME NEW level \in Levels
      PROVE  tree[target][level].bin # Absent <=> tree["index"][level].bin # Absent
  <2>1. "bin" \in Data
    BY DEF Data, FileNames
  <2>. QED
    BY <1>1, <1>2, <2>1 DEF CopyOK, Roots
<1>5. ASSUME NEW level \in Levels
      PROVE  tree[target][level].bin \in Bins \cup {Absent}
  BY <1>1 DEF TreeOK, RunOK
<1>6. ASSUME NEW level \in Levels, tree[target][level].bin # Absent
      PROVE  /\ Whole(tree[target][level].bin)
             /\ tree[target][level].bin.version \in 3 .. 5
  BY <1>5, <1>6, ContentFacts, OfBin
<1>. QED
  BY <1>1, <1>3, <1>4, <1>5, <1>6, BinFacts

\* What an update that cannot go on leaves.
LEMMA FailKeeps ==
  ASSUME IInv, stack # <<>>, Fail, ResumesUnlessManifest'
  PROVE  IInv'
<1>. USE DEF Fail, IInv
<1>1. TreeOK' /\ IndexOK' /\ CopyOK'
  BY FilesStay DEF CountersOK
<1>2. CountersOK'
  BY DEF CountersOK
<1>3. CopyingOK' /\ RunOK' /\ UpdatedOK'
  BY DEF CopyingOK, RunOK, UpdatedOK
<1>. QED
  BY <1>1, <1>2, <1>3

\* A step that writes nothing, and goes on.
LEMMA NoWriteKeeps ==
  ASSUME IInv, stack # <<>>,
         UNCHANGED <<tree, target, copying, outcome, overwritten, calls, crashes>>, StackOK'
  PROVE  IInv'
<1>1. TreeOK' /\ IndexOK' /\ CopyOK' /\ \A level \in Levels : Of(level)' = Of(level)
  BY FilesStay DEF IInv, CountersOK
<1>2. CountersOK'
  BY DEF IInv, CountersOK
<1>3. copying = {} /\ outcome = "running"
  BY DEF IInv, RunOK
<1>4. CopyingOK' /\ UpdatedOK' /\ ResumesUnlessManifest'
  BY <1>3 DEF CopyingOK, UpdatedOK, ResumesUnlessManifest
<1>5. Trusted' <=> Trusted
  BY TrustStays
<1>6. /\ \A level \in Levels :
           /\ Faithful(target, level)' <=> Faithful(target, level)
           /\ WellRead(target, level)' <=> WellRead(target, level)
      /\ Settled(target)' <=> Settled(target)
  BY <1>1 DEF Faithful, WellRead, Settled, Current, Levels
<1>7. RunOK'
  BY <1>3, <1>5, <1>6 DEF IInv, RunOK
<1>. QED
  BY <1>1, <1>2, <1>4, <1>7 DEF IInv

\* The version of a directory that can be read.
LEMMA VersionFacts ==
  ASSUME TreeOK, NEW root \in Roots, NEW level \in Levels,
         Readable(<<root, level>>)
  PROVE  /\ Version(<<root, level>>) \in 0 .. 4
         /\ Version(<<root, level>>) # 0
              => /\ Whole(tree[root][level].manifest)
                 /\ tree[root][level].manifest.version = Version(<<root, level>>)
                 /\ tree[root][level].manifest.kind = Of(level)
         /\ Version(<<root, level>>) = 0 => tree[root][level].manifest = Absent
<1>1. CASE tree[root][level].manifest = Absent
  BY <1>1 DEF Version, At
<1>2. CASE tree[root][level].manifest \in Manifests
  <2>1. Version(<<root, level>>) = tree[root][level].manifest.version
    BY <1>2, ContentFacts DEF Version, At, Whole
  <2>2. tree[root][level].manifest.version \in 1 .. 4
    BY <1>2, OfManifest
  <2>3. Whole(tree[root][level].manifest)
    BY <1>2, ContentFacts
  <2>4. tree[root][level].manifest.kind = Of(level)
    BY <2>3 DEF TreeOK
  <2>. QED
    BY <2>1, <2>2, <2>3, <2>4
<1>. QED
  BY <1>1, <1>2 DEF TreeOK, Readable, At

\* The version is that of the manifest.
LEMMA EnterKeeps ==
  ASSUME IInv, Enter
  PROVE  IInv'
<1>0. stack # <<>> /\ Top.next = "enter" /\ target \in Roots
  BY RunFacts DEF Enter
<1>1. PICK level \in Levels, f \in Frames : Top = f /\ FrameOK(f, level) /\ Below(level)
  BY <1>0, TopFacts
<1>2. Top.path = <<target, level>>
  BY <1>1 DEF FrameOK
<1>3. CASE ~Readable(Top.path)
  <2>1. Fail
    BY <1>3 DEF Enter
  <2>2. ResumesUnlessManifest'
    BY <1>0, <1>2, <1>3, <2>1 DEF Fail, ResumesUnlessManifest, Readable, At, Paths, Roots
  <2>. QED
    BY <1>0, <2>1, <2>2, FailKeeps
<1>4. CASE Readable(Top.path)
  <2>0. PICK v \in 0 .. 4 : v = Version(<<target, level>>)
    BY <1>0, <1>2, <1>4, VersionFacts DEF IInv
  <2>1. PICK h : h = Frame(<<target, level>>, v, "step")
    OBVIOUS
  <2>2. /\ stack' = Append(Front(stack), h)
        /\ UNCHANGED <<tree, target, copying, outcome, overwritten, calls, crashes>>
    BY <1>2, <1>4, <2>0, <2>1 DEF Enter
  <2>3. h \in Frames /\ h.next = "step" /\ h.path = <<target, level>> /\ h.version = v
    BY <1>0, <2>1 DEF Frame, Frames, Nexts, CURRENT_FORMAT_VERSION
  <2>4. FrameOK(h, level)'
    <3>1. Readable(<<target, level>>)' /\ Version(<<target, level>>)' = v
      BY <1>2, <1>4, <2>0, <2>2 DEF Readable, Version, At
    <3>. QED
      BY <2>2, <2>3, <3>1 DEF FrameOK, Kinds
  <2>5. Of("top")' = Of("top") /\ tree'[target]["top"].manifest = tree[target]["top"].manifest
    BY <2>2 DEF Of
  <2>6. StackOK'
    BY <1>1, <2>2, <2>3, <2>4, <2>5, ReplaceTop
  <2>. QED
    BY <1>0, <2>2, <2>6, NoWriteKeeps
<1>. QED
  BY <1>3, <1>4

\* An index of a later version is refused.
LEMMA NewerKeeps ==
  ASSUME IInv, Newer
  PROVE  IInv'
<1>0. stack # <<>> /\ Top.next = "step" /\ target \in Roots
  BY RunFacts DEF Newer
<1>1. PICK level \in Levels, f \in Frames : Top = f /\ FrameOK(f, level)
  BY <1>0, TopFacts
<1>2. Version(<<target, level>>) > CURRENT_FORMAT_VERSION
  BY <1>0, <1>1 DEF FrameOK, Newer
<1>3. Fail
  BY DEF Newer
<1>4. ResumesUnlessManifest'
  <2>0. PICK path \in Paths : path = <<target, level>>
    BY <1>0 DEF Paths, Roots
  <2>1. Version(path)' > CURRENT_FORMAT_VERSION
    BY <1>2, <1>3, <2>0 DEF Fail, Version, At
  <2>. QED
    BY <2>1 DEF ResumesUnlessManifest
<1>. QED
  BY <1>0, <1>3, <1>4, FailKeeps

\* Of a split index the one within is brought up to date first, of a compressed one
\* the data.
LEMMA StepKeeps ==
  ASSUME IInv, Step
  PROVE  IInv'
<1>0. stack # <<>> /\ Top.next = "step" /\ Top.version < CURRENT_FORMAT_VERSION /\ target \in Roots
  BY RunFacts DEF Step
<1>1. PICK level \in Levels, f \in Frames : Top = f /\ FrameOK(f, level) /\ Below(level)
  BY <1>0, TopFacts
<1>2. /\ f.path = <<target, level>>
      /\ Readable(<<target, level>>) /\ Version(<<target, level>>) = f.version
  BY <1>0, <1>1 DEF FrameOK
<1>. DEFINE inner == <<target, "inner">>
<1>3. Top.path[1] = target /\ Top.path[2] = level
  BY <1>1, <1>2
<1>4. /\ \A l \in Levels : Layout(tree[target], l) = Of(l)
      /\ Held(tree[target], "inner") <=> Held(tree["index"], "inner")
  BY <1>0, RunFacts
<1>5. Kind(Top.path) = Of(level)
  <2>1. CASE At(Top.path).manifest = Absent
    BY <1>3, <1>4, <2>1 DEF Kind, detect_index_kind
  <2>2. CASE At(Top.path).manifest # Absent
    <3>1. tree[target][level].manifest # Absent
      BY <1>3, <2>2 DEF At
    <3>2. tree[target][level].manifest.kind = Of(level)
      BY <1>0, <1>2, <3>1, VersionFacts DEF IInv
    <3>. QED
      BY <1>3, <3>1, <3>2 DEF Kind, At
  <2>. QED
    BY <2>1, <2>2
<1>6. Exists(inner) <=> Of("top") = "split"
  BY <1>4, SplitFacts DEF Exists, IInv
<1>7. UNCHANGED <<tree, target, copying, outcome, overwritten, calls, crashes>>
  BY DEF Step
<1>8. /\ \A l \in Levels : Of(l)' = Of(l)
      /\ Readable(<<target, level>>)' /\ Version(<<target, level>>)' = f.version
      /\ tree'[target]["top"].manifest = tree[target]["top"].manifest
  BY <1>2, <1>7 DEF Of, Readable, Version, At
<1>9. f.version \in 0 .. 2
  BY <1>0, <1>1 DEF Frames, CURRENT_FORMAT_VERSION
<1>10. CASE f.version > 0 /\ Of(level) = "split"
  <2>0. Of("inner") # "split"
    BY SplitFacts DEF IInv
  <2>1. level = "top" /\ Front(stack) = <<>>
    BY <1>1, <1>10, <2>0 DEF Below, Levels
  <2>2. PICK g : g = [f EXCEPT !.next = "within"]
    OBVIOUS
  <2>3. PICK h : h = Frame(inner, 0, "enter")
    OBVIOUS
  <2>4. stack' = <<g, h>>
    <3>1. stack' = Append(Append(<<>>, g), h)
      BY <1>1, <1>3, <1>5, <1>6, <1>10, <2>1, <2>2, <2>3 DEF Step
    <3>2. Append(<<>>, g) = <<g>>
      BY StackFacts
    <3>3. Append(<<g>>, h) = <<g, h>>
      BY StackFacts
    <3>. QED
      BY <3>1, <3>2, <3>3
  <2>5. /\ g \in Frames /\ g.next = "within" /\ g.path = <<target, "top">>
        /\ g.version = f.version
    BY <1>2, <2>1, <2>2 DEF Frames, Nexts
  <2>6. h \in Frames /\ h.next = "enter" /\ h.path = <<target, "inner">>
    BY <1>0, <2>3 DEF Frame, Frames, Nexts, Levels, CURRENT_FORMAT_VERSION
  <2>7. FrameOK(g, "top")'
    <3>1. f.version \in 1 .. CURRENT_FORMAT_VERSION - 1
      BY <1>9, <1>10 DEF CURRENT_FORMAT_VERSION
    <3>. QED
      BY <1>7, <1>8, <1>10, <2>1, <2>5, <3>1 DEF FrameOK, Kinds, Levels
  <2>8. FrameOK(h, "inner")'
    BY <1>7, <2>6 DEF FrameOK, Kinds
  <2>9. StackOK'
    BY <2>4, <2>5, <2>6, <2>7, <2>8 DEF StackOK
  <2>. QED
    BY <1>0, <1>7, <2>9, NoWriteKeeps
<1>11. CASE ~(f.version > 0 /\ Of(level) = "split")
  <2>0. PICK next : next = IF f.version > 0 /\ Of(level) = "compressed" THEN "data" ELSE "stamp"
    OBVIOUS
  <2>1. PICK h : h = [f EXCEPT !.next = next]
    OBVIOUS
  <2>2. stack' = Append(Front(stack), h)
    BY <1>1, <1>5, <1>11, <2>0, <2>1 DEF Step, Advance
  <2>3. /\ h \in Frames /\ h.next = next /\ h.path = <<target, level>> /\ h.version = f.version
        /\ next \in {"data", "stamp"}
    BY <1>2, <2>0, <2>1 DEF Frames, Nexts
  <2>4. next = "data" => f.version \in 1 .. 2 /\ Of(level) = "compressed"
    BY <1>9, <2>0
  <2>5. next = "stamp" => Ready(level, f.version)
    <3>1. SUFFICES ASSUME next = "stamp", Of(level) = "compressed"
                   PROVE  tree[target][level].bin.version >= Promised(f.version + 1)
      BY <1>0, <1>1, <1>11 DEF Ready
    <3>2. f.version = 0
      BY <1>9, <2>0, <3>1
    <3>3. level = "inner" => Of("top") = "split"
      BY <1>1, BelowFacts
    <3>4. tree[target][level].bin.version \in 3 .. 5
      BY <1>0, <3>1, <3>3, RunFacts
    <3>. QED
      BY <3>2, <3>4 DEF Promised
  <2>6. next = "stamp" => Ready(level, f.version)'
    <3>1. Trusted' <=> Trusted
      BY <1>7, TrustStays
    <3>2. Current(target, "inner")' <=> Current(target, "inner")
      BY <1>7 DEF Current
    <3>. QED
      BY <1>7, <1>8, <2>5, <3>1, <3>2 DEF Ready
  <2>7. FrameOK(h, level)'
    BY <1>7, <1>8, <2>3, <2>4, <2>6 DEF FrameOK, Kinds, CURRENT_FORMAT_VERSION
  <2>8. StackOK'
    BY <1>1, <1>7, <1>8, <2>2, <2>3, <2>7, ReplaceTop DEF Levels
  <2>. QED
    BY <1>0, <1>7, <2>8, NoWriteKeeps
<1>. QED
  BY <1>10, <1>11

\* An index whose manifest is current can be loaded.
LEMMA CurrentLoads ==
  ASSUME IInv, stack # <<>>, Trusted, Current(target, "top")
  PROVE  Loads(target) /\ ~Unversioned(target)
<1>1. /\ target \in Roots
      /\ Held(tree[target], "inner") <=> Held(tree["index"], "inner")
      /\ \A level \in Levels : Layout(tree[target], level) = Of(level)
  BY RunFacts
<1>2. /\ \A level \in Levels : Faithful(target, level)
      /\ Settled(target)
  BY DEF IInv, RunOK
<1>3. Of("top") = "split" => Current(target, "inner")
  BY <1>2 DEF Settled
<1>4. ASSUME NEW level \in Levels, Current(target, level)
      PROVE  ManifestLoads(<<target, level>>)
  BY <1>4 DEF Current, Whole, ManifestLoads, Readable, Version, At
<1>5. ASSUME NEW level \in Levels, Current(target, level), level = "inner" => Of("top") = "split"
      PROVE  DataLoads(<<target, level>>)
  <2>1. CASE Of(level) = "compressed"
    <3>1. /\ Whole(tree[target][level].bin)
          /\ tree[target][level].bin.version \in 3 .. 5
      BY <1>5, <2>1, RunFacts
    <3>2. tree[target][level].bin.version >= Promised(3)
      BY <1>2, <1>5, <3>1 DEF Faithful, Current, CURRENT_FORMAT_VERSION
    <3>3. tree[target][level].bin.version = COMPRESSED_INDEX_VERSION
      BY <3>1, <3>2 DEF Promised, COMPRESSED_INDEX_VERSION
    <3>. QED
      BY <3>1, <3>3 DEF DataLoads, At, Whole
  <2>2. CASE Of(level) # "compressed"
    BY <1>1, <2>2 DEF DataLoads, detect_index_kind
  <2>. QED
    BY <2>1, <2>2
<1>6. detect_index_kind(<<target, "top">>) = Of("top")
  BY <1>1 DEF detect_index_kind, Levels
<1>7. Loads(target)
  <2>1. CASE Of("top") = "split"
    BY <1>3, <1>4, <1>5, <1>6, <2>1 DEF Loads, Levels
  <2>2. CASE Of("top") # "split"
    BY <1>4, <1>5, <1>6, <2>2 DEF Loads, Levels
  <2>. QED
    BY <2>1, <2>2
<1>8. ~Unversioned(target)
  <2>1. Held(tree[target], "inner") => Current(target, "inner")
    BY <1>1, <1>3, SplitFacts DEF IInv
  <2>. QED
    BY <2>1 DEF Unversioned, Exists, At, Current, Whole
<1>. QED
  BY <1>7, <1>8

\* The outermost call returns an index that loads; another lets the one it was
\* called from go on.
LEMMA ReturnKeeps ==
  ASSUME IInv, Return
  PROVE  IInv'
<1>0. /\ stack # <<>> /\ Top.next = "step" /\ Top.version = CURRENT_FORMAT_VERSION
      /\ target \in Roots /\ copying = {} /\ outcome = "running"
  BY RunFacts DEF Return
<1>1. PICK level \in Levels, f \in Frames : Top = f /\ FrameOK(f, level) /\ Below(level)
  BY <1>0, TopFacts
<1>2. UNCHANGED <<tree, target, copying, overwritten, calls, crashes>>
  BY DEF Return
<1>3. Current(target, level)
  <2>1. Readable(<<target, level>>) /\ Version(<<target, level>>) = CURRENT_FORMAT_VERSION
    BY <1>0, <1>1 DEF FrameOK
  <2>. QED
    BY <2>1 DEF Readable, Version, At, Current, Whole, CURRENT_FORMAT_VERSION
<1>4. CASE Len(stack) = 1
  <2>1. stack' = <<>> /\ outcome' = "updated"
    BY <1>4 DEF Return
  <2>2. level = "top"
    BY <1>1, <1>4 DEF Below
  <2>3. TreeOK' /\ IndexOK' /\ CopyOK'
    BY <1>2, FilesStay DEF IInv, CountersOK
  <2>4. CountersOK'
    BY <1>2, <2>1 DEF IInv, CountersOK
  <2>5. CopyingOK' /\ RunOK' /\ ResumesUnlessManifest'
    BY <1>0, <1>2, <2>1 DEF CopyingOK, RunOK, ResumesUnlessManifest
  <2>6. Trusted' <=> Trusted
    BY <1>2, TrustStays
  <2>7. Trusted => /\ Loads(target) /\ ~Unversioned(target)
                   /\ \A l \in Levels : WellRead(target, l)
    BY <1>0, <1>3, <2>2, CurrentLoads DEF IInv, RunOK
  <2>8. Loads(target)' <=> Loads(target)
    BY <1>2 DEF Loads, ManifestLoads, Readable, Version, DataLoads, detect_index_kind, At
  <2>9. /\ Unversioned(target)' <=> Unversioned(target)
        /\ \A l \in Levels : WellRead(target, l)' <=> WellRead(target, l)
    BY <1>2 DEF Unversioned, WellRead, At, Exists
  <2>10. UpdatedOK'
    BY <1>0, <1>2, <2>1, <2>6, <2>7, <2>8, <2>9 DEF UpdatedOK, Idle
  <2>. QED
    BY <2>3, <2>4, <2>5, <2>10 DEF IInv
<1>5. CASE Len(stack) # 1
  <2>1. level = "inner"
    BY <1>1, <1>5 DEF Below
  <2>2. PICK g \in Frames : Front(stack) = <<g>> /\ g.next = "within" /\ FrameOK(g, "top")
    BY <1>1, <2>1 DEF Below
  <2>3. PICK h : h = [g EXCEPT !.next = "stamp"]
    OBVIOUS
  <2>4. stack' = <<h>>
    <3>1. /\ Front(<<g>>) = <<>> /\ Last(<<g>>) = g /\ Append(<<>>, h) = <<h>>
      BY StackFacts
    <3>2. stack' = Append(Front(Front(stack)), [Last(Front(stack)) EXCEPT !.next = "stamp"])
      BY <1>5 DEF Return
    <3>. QED
      BY <2>2, <2>3, <3>1, <3>2
  <2>5. UNCHANGED outcome
    BY <1>5 DEF Return
  <2>6. /\ h \in Frames /\ h.next = "stamp" /\ h.path = <<target, "top">>
        /\ h.version = g.version
    BY <2>2, <2>3 DEF Frames, Nexts, FrameOK
  <2>7. /\ g.version \in 1 .. CURRENT_FORMAT_VERSION - 1 /\ Of("top") = "split"
        /\ Readable(<<target, "top">>) /\ Version(<<target, "top">>) = g.version
    BY <2>2 DEF FrameOK
  <2>8. /\ Of("top")' = "split" /\ Current(target, "inner")'
        /\ Readable(<<target, "top">>)' /\ Version(<<target, "top">>)' = g.version
    BY <1>2, <1>3, <2>1, <2>7 DEF Of, Current, Readable, Version, At
  <2>9. FrameOK(h, "top")'
    BY <1>2, <2>6, <2>7, <2>8 DEF FrameOK, Ready, Kinds, CURRENT_FORMAT_VERSION
  <2>10. StackOK'
    BY <2>4, <2>6, <2>9 DEF StackOK
  <2>. QED
    BY <1>0, <1>2, <2>5, <2>10, NoWriteKeeps
<1>. QED
  BY <1>4, <1>5

-----------------------------------------------------------------------------
(***************************************************************************)
(* What is written under way                                               *)
(***************************************************************************)

\* Data of the current layout may take the place of older ones.
LEMMA DataPut ==
  ASSUME IInv, NEW root \in Roots, NEW level \in Levels, NEW b \in Bins,
         b.version = COMPRESSED_INDEX_VERSION,
         tree[root][level].bin # Absent, Put(<<root, level>>, "bin", b),
         root = "index" => b.lengths # "misread", UNCHANGED overwritten
  PROVE  /\ TreeOK' /\ IndexOK' /\ CopyOK'
         /\ \A l \in Levels : Of(l)' = Of(l)
         /\ \A r \in Roots, l \in Levels :
              /\ tree'[r][l].manifest = tree[r][l].manifest
              /\ tree'[r][l].bin = IF <<r, l>> = <<root, level>> THEN b ELSE tree[r][l].bin
              /\ \A k \in Data : tree'[r][l][k] = Absent <=> tree[r][l][k] = Absent
         /\ root = "copy" => tree'["index"] = tree["index"]
<1>. USE DEF IInv
<1>1. tree \in [Roots -> [Levels -> [FileNames -> Contents]]] /\ b \in Contents
  BY DEF TreeOK, Contents
<1>2. Whole(b)
  BY ContentFacts
<1>3. /\ tree' \in [Roots -> [Levels -> [FileNames -> Contents]]]
      /\ tree'[root][level]["bin"] = b
      /\ \A r \in Roots, l \in Levels, k \in FileNames :
           <<r, l, k>> # <<root, level, "bin">> => tree'[r][l][k] = tree[r][l][k]
  <2>1. "bin" \in FileNames
    BY DEF FileNames
  <2>. QED
    BY <1>1, <2>1, PutFacts
<1>4. \A r \in Roots, l \in Levels :
        /\ tree'[r][l].manifest = tree[r][l].manifest
        /\ tree'[r][l].bin = IF <<r, l>> = <<root, level>> THEN b ELSE tree[r][l].bin
  BY <1>3 DEF FileNames
<1>5. ASSUME NEW r \in Roots, NEW l \in Levels, NEW k \in FileNames
      PROVE  tree'[r][l][k] = Absent <=> tree[r][l][k] = Absent
  BY <1>2, <1>3, <1>5 DEF Whole
<1>6. \A r \in Roots, l \in Levels, k \in Data : tree'[r][l][k] = Absent <=> tree[r][l][k] = Absent
  BY <1>5 DEF Data
<1>7. \A r \in Roots, l \in Levels : Held(tree'[r], l) <=> Held(tree[r], l)
  BY <1>5 DEF Held
<1>8. \A l \in Levels : Of(l)' = Of(l)
  BY <1>6, <1>7, LayoutStays DEF Roots, Levels
<1>9. \A r \in Roots, l \in Levels : Current(r, l)' <=> Current(r, l)
  BY <1>4 DEF Current
<1>10. ASSUME NEW r \in Roots, NEW l \in Levels, Faithful(r, l)
       PROVE  Faithful(r, l)'
  <2>1. CASE <<r, l>> = <<root, level>>
    BY <1>4, <2>1 DEF Faithful, Promised, COMPRESSED_INDEX_VERSION
  <2>2. CASE <<r, l>> # <<root, level>>
    BY <1>4, <1>10, <2>2 DEF Faithful
  <2>. QED
    BY <2>1, <2>2
<1>11. TreeOK'
  <2>1. ASSUME NEW r \in Roots, NEW l \in Levels
        PROVE  tree'[r][l].bin \in Bins \cup {Absent, Short}
    BY <1>4 DEF TreeOK
  <2>. QED
    BY <1>3, <1>4, <1>8, <2>1 DEF TreeOK
<1>12. IndexOK'
  <2>1. ASSUME NEW l \in Levels
        PROVE  tree'["index"][l].bin # Absent <=> tree["index"][l].bin # Absent
    BY <1>6 DEF Roots, Data, FileNames
  <2>2. ASSUME NEW l \in Levels
        PROVE  WellRead("index", l)' /\ tree'["index"][l].bin # Short
    BY <1>2, <1>4 DEF IndexOK, WellRead, Whole, Roots
  <2>3. Settled("index")'
    BY <1>8, <1>9 DEF IndexOK, Settled, Roots, Levels
  <2>4. \A l \in Levels : Faithful("index", l)'
    BY <1>10 DEF IndexOK, Roots
  <2>5. Held(tree'["index"], "inner") <=> Held(tree["index"], "inner")
    BY <1>7 DEF Roots, Levels
  <2>6. Of("top")' = Of("top")
    BY <1>8 DEF Levels
  <2>. QED
    BY <1>8, <2>1, <2>2, <2>3, <2>4, <2>5, <2>6 DEF IndexOK
<1>13. CopyOK'
  <2>1. Settled("copy")' <=> Settled("copy")
    BY <1>8, <1>9 DEF Settled, Roots, Levels
  <2>2. ~overwritten' => \A l \in Levels : Faithful("copy", l)'
    BY <1>10 DEF CopyOK, Roots
  <2>3. /\ Held(tree'["index"], "inner") <=> Held(tree["index"], "inner")
        /\ Held(tree'["copy"], "inner") <=> Held(tree["copy"], "inner")
    BY <1>7 DEF Roots, Levels
  <2>4. \A l \in Levels, k \in Data :
          tree'["index"][l][k] = Absent => tree'["copy"][l][k] = Absent
    BY <1>6 DEF CopyOK, Roots
  <2>5. tree'["index"]["inner"].manifest = tree["index"]["inner"].manifest
    BY <1>4 DEF Roots, Levels
  <2>. QED
    BY <2>1, <2>2, <2>3, <2>4, <2>5 DEF CopyOK
<1>14. root = "copy" => tree'["index"] = tree["index"]
  BY <1>1 DEF Put, Roots
<1>. QED
  BY <1>4, <1>6, <1>8, <1>11, <1>12, <1>13, <1>14

\* What is written for older data is of the current layout, and well read if the
\* manifest was right.
LEMMA RewriteFacts ==
  ASSUME IInv, stack # <<>>, NEW level \in Levels, NEW version \in 1 .. 2,
         Outdated(<<target, level>>, version),
         tree[target][level].bin \in Bins,
         NEW b, b = IF version = 1 THEN migrate_add_min_dl(<<target, level>>)
                    ELSE migrate_compressed_v4_to_v5(<<target, level>>)
  PROVE  /\ b \in Bins /\ b.version = COMPRESSED_INDEX_VERSION
         /\ tree[target][level].bin.version >= Promised(version) /\ WellRead(target, level)
              => b.lengths # "misread"
<1>1. PICK old \in Bins : old = tree[target][level].bin
  OBVIOUS
<1>2. old.version \in 3 .. 5 /\ old.lengths \in {"none", "exact", "unknown", "misread"}
  BY OfBin
<1>3. At(<<target, level>>).bin = old
  BY <1>1 DEF At
<1>4. CASE version = 1
  <2>1. /\ b.version = COMPRESSED_INDEX_VERSION /\ b.lengths \in {"unknown", "exact"}
        /\ b = [version |-> COMPRESSED_INDEX_VERSION, lengths |-> b.lengths]
    BY <1>4 DEF migrate_add_min_dl
  <2>. QED
    BY <1>4, <2>1 DEF Bins, COMPRESSED_INDEX_VERSION
<1>5. CASE version = 2
  <2>1. /\ b.version = COMPRESSED_INDEX_VERSION
        /\ b.lengths = IF old.version = 4 THEN old.lengths ELSE "misread"
        /\ b = [version |-> COMPRESSED_INDEX_VERSION, lengths |-> b.lengths]
    BY <1>3, <1>5 DEF migrate_compressed_v4_to_v5
  <2>2. b \in Bins
    BY <1>2, <2>1 DEF Bins, COMPRESSED_INDEX_VERSION
  <2>3. old.version # 5
    BY <1>3, <1>5 DEF Outdated, COMPRESSED_INDEX_VERSION
  <2>4. old.version >= Promised(version) => old.version = 4
    BY <1>2, <1>5, <2>3 DEF Promised
  <2>5. Whole(old)
    BY ContentFacts
  <2>. QED
    BY <1>1, <1>5, <2>1, <2>2, <2>4, <2>5 DEF WellRead
<1>. QED
  BY <1>4, <1>5

\* What is trusted stays so when data are written over.
LEMMA RewrittenKeeps ==
  ASSUME IInv, stack # <<>>, NEW level \in Levels, NEW b \in Bins,
         b.version = COMPRESSED_INDEX_VERSION, tree[target][level].bin \in Bins,
         Put(<<target, level>>, "bin", b), Trusted => b.lengths # "misread",
         UNCHANGED <<target, copying, outcome, overwritten, calls, crashes>>,
         Of(level) = "compressed",
         NEW f \in Frames, Below(level), FrameOK(f, level), f.next = "data",
         NEW h, h = [f EXCEPT !.next = "stamp"], stack' = Append(Front(stack), h)
  PROVE  IInv'
<1>0. copying = {} /\ outcome = "running" /\ target \in Roots
  BY RunFacts
<1>1. Whole(b) /\ tree[target][level].bin # Absent
  BY ContentFacts DEF Whole
<1>2. target = "index" => b.lengths # "misread"
  BY DEF Trusted
<1>3. /\ TreeOK' /\ IndexOK' /\ CopyOK'
      /\ \A l \in Levels : Of(l)' = Of(l)
      /\ \A r \in Roots, l \in Levels :
           /\ tree'[r][l].manifest = tree[r][l].manifest
           /\ tree'[r][l].bin = IF <<r, l>> = <<target, level>> THEN b ELSE tree[r][l].bin
           /\ \A k \in Data : tree'[r][l][k] = Absent <=> tree[r][l][k] = Absent
      /\ target = "copy" => tree'["index"] = tree["index"]
  BY <1>0, <1>1, <1>2, DataPut
<1>4. Trusted' <=> Trusted
  BY <1>0, <1>3, TrustStays DEF Roots
<1>5. /\ \A l \in Levels : tree'[target][l].manifest = tree[target][l].manifest
      /\ tree'[target][level].bin = b
      /\ \A l \in Levels : l # level => tree'[target][l].bin = tree[target][l].bin
  BY <1>0, <1>3
<1>6. ASSUME Trusted, NEW l \in Levels
      PROVE  Faithful(target, l)' /\ WellRead(target, l)'
  <2>1. Faithful(target, l) /\ WellRead(target, l)
    BY <1>6 DEF IInv, RunOK
  <2>2. CASE l = level
    BY <1>5, <1>6, <2>2 DEF Faithful, WellRead, Promised, COMPRESSED_INDEX_VERSION
  <2>3. CASE l # level
    BY <1>5, <2>1, <2>3 DEF Faithful, WellRead
  <2>. QED
    BY <2>2, <2>3
<1>7. Settled(target)' <=> Settled(target)
  BY <1>3, <1>5 DEF Settled, Current, Levels
<1>8. StackOK'
  <2>1. /\ h \in Frames /\ h.next = "stamp" /\ h.path = <<target, level>> /\ h.version = f.version
    BY DEF Frames, Nexts, FrameOK
  <2>2. /\ f.version \in 1 .. CURRENT_FORMAT_VERSION - 1
        /\ Readable(<<target, level>>) /\ Version(<<target, level>>) = f.version
    BY DEF FrameOK
  <2>3. Readable(<<target, level>>)' /\ Version(<<target, level>>)' = f.version
    BY <1>5, <2>2 DEF Readable, Version, At
  <2>4. Ready(level, f.version)'
    BY <1>3, <1>5, <2>2
       DEF Ready, Promised, CURRENT_FORMAT_VERSION, COMPRESSED_INDEX_VERSION
  <2>5. FrameOK(h, level)'
    BY <2>1, <2>2, <2>3, <2>4 DEF FrameOK, Kinds
  <2>. QED
    BY <1>3, <1>5, <2>1, <2>5, ReplaceTop DEF Levels
<1>9. \A l \in Levels :
        /\ tree'[target][l].bin # Short
        /\ \A k \in Data : tree'["index"][l][k] # Absent => tree'[target][l][k] # Absent
  <2>1. \A l \in Levels : tree'[target][l].bin # Short
    BY <1>1, <1>5 DEF IInv, RunOK, Whole
  <2>2. \A l \in Levels, k \in Data : tree["index"][l][k] # Absent => tree[target][l][k] # Absent
    BY DEF IInv, RunOK
  <2>3. \A l \in Levels, k \in Data :
          /\ tree'["index"][l][k] = Absent <=> tree["index"][l][k] = Absent
          /\ tree'[target][l][k] = Absent <=> tree[target][l][k] = Absent
    BY <1>0, <1>3 DEF Roots
  <2>. QED
    BY <2>1, <2>2, <2>3
<1>10. RunOK'
  BY <1>0, <1>4, <1>6, <1>7, <1>8, <1>9 DEF IInv, RunOK
<1>11. CountersOK'
  BY DEF IInv, CountersOK
<1>12. CopyingOK' /\ UpdatedOK' /\ ResumesUnlessManifest'
  BY <1>0 DEF CopyingOK, UpdatedOK, ResumesUnlessManifest
<1>. QED
  BY <1>3, <1>10, <1>11, <1>12 DEF IInv

\* The data are rewritten if they are older than the next version promises.
LEMMA RewriteDataKeeps ==
  ASSUME IInv, RewriteData
  PROVE  IInv'
<1>0. /\ stack # <<>> /\ Top.next = "data" /\ target \in Roots
      /\ UNCHANGED <<target, copying, overwritten, calls, crashes>>
  BY RunFacts DEF RewriteData, Fail
<1>1. PICK level \in Levels, f \in Frames : Top = f /\ FrameOK(f, level) /\ Below(level)
  BY <1>0, TopFacts
<1>2. /\ f.path = <<target, level>> /\ f.version \in 1 .. 2 /\ Of(level) = "compressed"
      /\ Readable(<<target, level>>) /\ Version(<<target, level>>) = f.version
      /\ f.next = "data"
  BY <1>0, <1>1 DEF FrameOK, CURRENT_FORMAT_VERSION
<1>3. level = "inner" => Of("top") = "split"
  BY <1>1, BelowFacts
<1>4. /\ tree[target][level].bin \in Bins /\ Whole(tree[target][level].bin)
      /\ tree[target][level].bin.version \in 3 .. 5
  BY <1>0, <1>2, <1>3, RunFacts
<1>5. PICK h : h = [f EXCEPT !.next = "stamp"]
  OBVIOUS
<1>6. /\ At(Top.path).bin # Short
      /\ UNCHANGED <<target, copying, outcome, overwritten, calls, crashes>>
      /\ stack' = Append(Front(stack), h)
  BY <1>1, <1>2, <1>4, <1>5 DEF RewriteData, Advance, At, Whole
<1>7. CASE Outdated(<<target, level>>, f.version)
  <2>1. PICK b : b = IF f.version = 1 THEN migrate_add_min_dl(<<target, level>>)
                     ELSE migrate_compressed_v4_to_v5(<<target, level>>)
    OBVIOUS
  <2>2. Put(<<target, level>>, "bin", b)
    BY <1>1, <1>2, <1>6, <1>7, <2>1 DEF RewriteData
  <2>3. /\ b \in Bins /\ b.version = COMPRESSED_INDEX_VERSION
        /\ tree[target][level].bin.version >= Promised(f.version) /\ WellRead(target, level)
             => b.lengths # "misread"
    BY <1>0, <1>2, <1>4, <1>7, <2>1, RewriteFacts
  <2>4. ASSUME Trusted
        PROVE  b.lengths # "misread"
    <3>1. Faithful(target, level) /\ WellRead(target, level)
      BY <1>0, <2>4 DEF IInv, RunOK
    <3>2. /\ Whole(tree[target][level].manifest)
          /\ tree[target][level].manifest.version = f.version
      BY <1>0, <1>2, VersionFacts DEF IInv
    <3>. QED
      BY <1>4, <2>3, <3>1, <3>2 DEF Faithful
  <2>. QED
    BY <1>0, <1>1, <1>2, <1>4, <1>5, <1>6, <2>2, <2>3, <2>4, RewrittenKeeps
<1>8. CASE ~Outdated(<<target, level>>, f.version)
  <2>1. UNCHANGED tree
    BY <1>1, <1>2, <1>6, <1>8 DEF RewriteData
  <2>2. h \in Frames /\ h.next = "stamp" /\ h.path = <<target, level>> /\ h.version = f.version
    BY <1>2, <1>5 DEF Frames, Nexts
  <2>3. tree[target][level].bin.version >= Promised(f.version + 1)
    BY <1>2, <1>4, <1>8 DEF Outdated, At, Whole, Promised, COMPRESSED_INDEX_VERSION
  <2>4. /\ \A l \in Levels : Of(l)' = Of(l)
        /\ Readable(<<target, level>>)' /\ Version(<<target, level>>)' = f.version
        /\ tree'[target]["top"].manifest = tree[target]["top"].manifest
    BY <1>2, <1>6, <2>1 DEF Of, Readable, Version, At
  <2>5. FrameOK(h, level)'
    <3>1. Ready(level, f.version)'
      BY <1>2, <1>6, <2>1, <2>3, <2>4 DEF Ready, CURRENT_FORMAT_VERSION
    <3>. QED
      BY <1>2, <1>6, <2>2, <2>4, <3>1 DEF FrameOK, Kinds
  <2>6. StackOK'
    BY <1>1, <1>6, <2>2, <2>4, <2>5, ReplaceTop DEF Levels
  <2>. QED
    BY <1>0, <1>6, <2>1, <2>6, NoWriteKeeps
<1>. QED
  BY <1>7, <1>8

\* A manifest that is as true as the one before may be written of what there is.
LEMMA ManifestPut ==
  ASSUME IInv, NEW root \in Roots, NEW level \in Levels,
         NEW c \in Manifests \cup {Short},
         c # Short => c.kind = Of(level),
         level = "inner" => Held(tree["index"], "inner"),
         c # Short /\ Whole(tree[root][level].bin) /\ (root = "index" \/ ~overwritten)
           => tree[root][level].bin.version >= Promised(c.version),
         level = "top" /\ Of("top") = "split" /\ c # Short /\ c.version = CURRENT_FORMAT_VERSION
           => Current(root, "inner"),
         level = "inner" /\ Of("top") = "split" /\ Current(root, "top")
           => root = "copy" /\ tree["index"]["inner"].manifest # Absent,
         Put(<<root, level>>, "manifest", c), UNCHANGED overwritten
  PROVE  /\ TreeOK' /\ IndexOK' /\ CopyOK'
         /\ \A l \in Levels : Of(l)' = Of(l)
         /\ \A r \in Roots, l \in Levels :
              /\ tree'[r][l].manifest = IF <<r, l>> = <<root, level>> THEN c ELSE tree[r][l].manifest
              /\ tree'[r][l].bin = tree[r][l].bin
              /\ \A k \in Data : tree'[r][l][k] = tree[r][l][k]
         /\ root = "copy" => tree'["index"] = tree["index"]
         /\ root = "index" => tree'["copy"] = tree["copy"]
<1>. USE DEF IInv
<1>1. tree \in [Roots -> [Levels -> [FileNames -> Contents]]] /\ c \in Contents
  BY DEF TreeOK, Contents
<1>2. c # Absent
  BY ContentFacts DEF Whole
<1>3. /\ tree' \in [Roots -> [Levels -> [FileNames -> Contents]]]
      /\ tree'[root][level]["manifest"] = c
      /\ \A r \in Roots, l \in Levels, k \in FileNames :
           <<r, l, k>> # <<root, level, "manifest">> => tree'[r][l][k] = tree[r][l][k]
  <2>1. "manifest" \in FileNames
    BY DEF FileNames
  <2>. QED
    BY <1>1, <2>1, PutFacts
<1>4. \A r \in Roots, l \in Levels :
        /\ tree'[r][l].manifest = IF <<r, l>> = <<root, level>> THEN c ELSE tree[r][l].manifest
        /\ tree'[r][l].bin = tree[r][l].bin
        /\ \A k \in Data : tree'[r][l][k] = tree[r][l][k]
  BY <1>3 DEF Data, FileNames
<1>5. /\ root = "copy" => tree'["index"] = tree["index"]
      /\ root = "index" => tree'["copy"] = tree["copy"]
  BY <1>1 DEF Put, Roots
<1>6. \A r \in Roots : Held(tree[r], "inner") => Held(tree'[r], "inner")
  BY <1>2, <1>3 DEF Held, Levels
<1>7. Held(tree'["index"], "inner") => Held(tree["index"], "inner")
  <2>1. CASE <<root, level>> = <<"index", "inner">>
    BY <2>1
  <2>2. CASE <<root, level>> # <<"index", "inner">>
    BY <1>3, <2>2 DEF Held, Roots, Levels
  <2>. QED
    BY <2>1, <2>2
<1>8. Held(tree'["copy"], "inner") => Held(tree["index"], "inner")
  <2>1. CASE level = "inner"
    BY <2>1
  <2>2. CASE level # "inner"
    BY <1>3, <2>2 DEF Held, Roots, Levels, CopyOK
  <2>. QED
    BY <2>1, <2>2
<1>9. \A l \in Levels : Of(l)' = Of(l)
  <2>1. \A l \in Levels, k \in Data :
          tree'["index"][l][k] = Absent <=> tree["index"][l][k] = Absent
    BY <1>4 DEF Roots
  <2>2. Held(tree'["index"], "inner") <=> Held(tree["index"], "inner")
    BY <1>6, <1>7 DEF Roots
  <2>. QED
    BY <2>1, <2>2, LayoutStays
<1>10. ASSUME NEW r \in Roots, NEW l \in Levels, Faithful(r, l), r = "index" \/ ~overwritten
       PROVE  Faithful(r, l)'
  <2>1. CASE <<r, l>> = <<root, level>>
    BY <1>4, <1>10, <2>1 DEF Faithful, Whole
  <2>2. CASE <<r, l>> # <<root, level>>
    BY <1>4, <1>10, <2>2 DEF Faithful
  <2>. QED
    BY <2>1, <2>2
<1>11. ASSUME NEW r \in Roots, Of("top") = "split", Current(r, "top") => Current(r, "inner"),
              Current(r, "top")', r = "index" \/ tree'["index"]["inner"].manifest = Absent
       PROVE  Current(r, "inner")'
  <2>1. CASE r # root
    BY <1>4, <1>11, <2>1 DEF Current, Levels
  <2>2. CASE r = root /\ level = "top"
    <3>1. c # Short /\ c.version = CURRENT_FORMAT_VERSION
      BY <1>4, <1>11, <2>2 DEF Current, Whole
    <3>2. Current(root, "inner")
      BY <1>11, <2>2, <3>1
    <3>. QED
      BY <1>4, <2>2, <3>2 DEF Current, Levels
  <2>3. CASE r = root /\ level = "inner"
    <3>1. Current(r, "top")
      BY <1>4, <1>11, <2>3 DEF Current, Levels
    <3>2. root = "copy" /\ tree["index"]["inner"].manifest # Absent
      BY <1>11, <2>3, <3>1
    <3>3. tree'["index"]["inner"].manifest # Absent
      BY <1>5, <3>2
    <3>. QED
      BY <1>11, <2>3, <3>2, <3>3
  <2>. QED
    BY <2>1, <2>2, <2>3 DEF Levels
<1>12. TreeOK'
  <2>1. ASSUME NEW r \in Roots, NEW l \in Levels
        PROVE  /\ tree'[r][l].manifest \in Manifests \cup {Absent, Short}
               /\ Whole(tree'[r][l].manifest) => tree'[r][l].manifest.kind = Of(l)
    BY <1>4 DEF TreeOK, Whole
  <2>. QED
    BY <1>3, <1>4, <1>9, <2>1 DEF TreeOK
<1>13. IndexOK'
  <2>1. \A l \in Levels : tree'["index"][l].bin = tree["index"][l].bin
    BY <1>4 DEF Roots
  <2>2. \A l \in Levels : WellRead("index", l)'
    BY <2>1 DEF IndexOK, WellRead
  <2>3. Settled("index")'
    BY <1>9, <1>11 DEF IndexOK, Settled, Roots, Levels
  <2>4. \A l \in Levels : Faithful("index", l)'
    BY <1>10 DEF IndexOK, Roots
  <2>5. Held(tree'["index"], "inner") <=> Held(tree["index"], "inner")
    BY <1>6, <1>7 DEF Roots
  <2>6. Of("top")' = Of("top")
    BY <1>9 DEF Levels
  <2>. QED
    BY <1>9, <2>1, <2>2, <2>3, <2>4, <2>5, <2>6 DEF IndexOK
<1>14. CopyOK'
  <2>1. tree'["index"]["inner"].manifest = Absent => tree["index"]["inner"].manifest = Absent
    BY <1>2, <1>4 DEF Roots, Levels
  <2>2. tree'["index"]["inner"].manifest = Absent => Settled("copy")'
    BY <1>9, <1>11, <2>1 DEF CopyOK, Settled, Roots, Levels
  <2>3. ~overwritten' => \A l \in Levels : Faithful("copy", l)'
    BY <1>10 DEF CopyOK, Roots
  <2>4. \A l \in Levels, k \in Data :
          tree'["index"][l][k] = Absent => tree'["copy"][l][k] = Absent
    BY <1>4 DEF CopyOK, Roots
  <2>5. Held(tree'["copy"], "inner") => Held(tree'["index"], "inner")
    BY <1>6, <1>8 DEF Roots
  <2>. QED
    BY <2>2, <2>3, <2>4, <2>5 DEF CopyOK
<1>. QED
  BY <1>4, <1>5, <1>9, <1>12, <1>13, <1>14

\* A manifest is written under way, in one part or the other.
LEMMA ManifestKeeps ==
  ASSUME IInv, stack # <<>>,
         NEW level \in Levels, Below(level), NEW c \in Manifests \cup {Short},
         c # Short => c.kind = Of(level),
         Trusted /\ c # Short /\ Of(level) = "compressed"
           => tree[target][level].bin.version >= Promised(c.version),
         Of(level) = "split" /\ c # Short /\ c.version = CURRENT_FORMAT_VERSION
           => Current(target, "inner"),
         Put(<<target, level>>, "manifest", c),
         UNCHANGED <<target, copying, outcome, overwritten, calls, crashes>>,
         NEW h \in Frames, h.path = <<target, level>>,
         \/ c = Short /\ h.next = Of(level) /\ Ready(level, h.version)
         \/ c # Short /\ h.next = "step" /\ h.version = c.version,
         stack' = Append(Front(stack), h)
  PROVE  IInv'
<1>0. copying = {} /\ outcome = "running" /\ target \in Roots
  BY RunFacts
<1>1. level = "inner"
        => Of("top") = "split" /\ ~Current(target, "top") /\ Held(tree["index"], "inner")
  BY BelowFacts
<1>2. ASSUME c # Short, Whole(tree[target][level].bin), Trusted
      PROVE  tree[target][level].bin.version >= Promised(c.version)
  <2>1. Of(level) = "compressed"
    BY <1>2, RunFacts DEF Whole
  <2>. QED
    BY <1>2, <2>1
<1>3. target = "index" \/ ~overwritten => Trusted
  BY DEF Trusted
<1>4. /\ TreeOK' /\ IndexOK' /\ CopyOK'
      /\ \A l \in Levels : Of(l)' = Of(l)
      /\ \A r \in Roots, l \in Levels :
           /\ tree'[r][l].manifest = IF <<r, l>> = <<target, level>> THEN c ELSE tree[r][l].manifest
           /\ tree'[r][l].bin = tree[r][l].bin
           /\ \A k \in Data : tree'[r][l][k] = tree[r][l][k]
      /\ target = "copy" => tree'["index"] = tree["index"]
  <2>1. c # Short /\ Whole(tree[target][level].bin) /\ (target = "index" \/ ~overwritten)
          => tree[target][level].bin.version >= Promised(c.version)
    BY <1>2, <1>3
  <2>. QED
    BY <1>0, <1>1, <2>1, ManifestPut
<1>5. Trusted' <=> Trusted
  BY <1>0, <1>4, TrustStays DEF Roots
<1>6. /\ tree'[target][level].manifest = c
      /\ \A l \in Levels : l # level => tree'[target][l].manifest = tree[target][l].manifest
      /\ \A l \in Levels : tree'[target][l].bin = tree[target][l].bin
  BY <1>0, <1>4
<1>7. ASSUME Trusted
      PROVE  /\ \A l \in Levels : Faithful(target, l)' /\ WellRead(target, l)'
             /\ Settled(target)'
  <2>1. /\ \A l \in Levels : Faithful(target, l) /\ WellRead(target, l)
        /\ Settled(target)
    BY <1>7 DEF IInv, RunOK
  <2>2. ASSUME NEW l \in Levels
        PROVE  Faithful(target, l)' /\ WellRead(target, l)'
    <3>1. WellRead(target, l)'
      BY <1>6, <2>1 DEF WellRead
    <3>2. Faithful(target, l)'
      BY <1>2, <1>6, <1>7, <2>1 DEF Faithful, Whole
    <3>. QED
      BY <3>1, <3>2
  <2>3. Settled(target)'
    <3>1. SUFFICES ASSUME Of("top") = "split", Current(target, "top")'
                   PROVE  Current(target, "inner")'
      BY <1>4 DEF Settled, Levels
    <3>2. CASE level = "top"
      BY <1>6, <3>1, <3>2 DEF Current, Whole, Levels
    <3>3. CASE level = "inner"
      BY <1>1, <1>6, <3>1, <3>3 DEF Current, Levels
    <3>. QED
      BY <3>2, <3>3 DEF Levels
  <2>. QED
    BY <2>2, <2>3
<1>8. StackOK'
  <2>1. h.next \in {"step"} \cup Kinds
    BY SplitFacts DEF IInv
  <2>2. ASSUME c = Short, h.next = Of(level), Ready(level, h.version)
        PROVE  Ready(level, h.version)'
    <3>1. Of(level) = "split" => level = "top"
      BY SplitFacts DEF IInv, Levels
    <3>2. Of(level) = "split" /\ h.version > 0 => Current(target, "inner")'
      BY <1>6, <2>2, <3>1 DEF Ready, Current, Levels
    <3>. QED
      BY <1>4, <1>5, <1>6, <2>2, <3>2 DEF Ready
  <2>3. ASSUME c # Short, h.version = c.version
        PROVE  Readable(<<target, level>>)' /\ Version(<<target, level>>)' = h.version
    <3>1. c # Absent
      BY ContentFacts DEF Whole
    <3>. QED
      BY <1>6, <2>3, <3>1 DEF Readable, Version, At
  <2>4. FrameOK(h, level)'
    <3>1. CASE c = Short /\ h.next = Of(level) /\ Ready(level, h.version)
      BY <1>4, <1>6, <2>1, <2>2, <3>1, SplitFacts DEF FrameOK, Kinds, IInv
    <3>2. CASE c # Short /\ h.next = "step" /\ h.version = c.version
      BY <2>3, <3>2 DEF FrameOK, Kinds
    <3>. QED
      BY <3>1, <3>2
  <2>5. level = "inner" => tree'[target]["top"].manifest = tree[target]["top"].manifest
    BY <1>6 DEF Levels
  <2>6. h.next # "within"
    BY <2>1 DEF Kinds
  <2>. QED
    BY <1>4, <2>4, <2>5, <2>6, ReplaceTop DEF Levels
<1>9. \A l \in Levels :
        /\ tree'[target][l].bin # Short
        /\ \A k \in Data : tree'["index"][l][k] # Absent => tree'[target][l][k] # Absent
  <2>1. \A l \in Levels : tree'[target][l].bin # Short
    BY <1>6 DEF IInv, RunOK
  <2>2. \A l \in Levels, k \in Data : tree["index"][l][k] # Absent => tree[target][l][k] # Absent
    BY DEF IInv, RunOK
  <2>3. \A l \in Levels, k \in Data :
          tree'["index"][l][k] = tree["index"][l][k] /\ tree'[target][l][k] = tree[target][l][k]
    BY <1>0, <1>4 DEF Roots
  <2>. QED
    BY <2>1, <2>2, <2>3
<1>10. RunOK'
  BY <1>0, <1>5, <1>7, <1>8, <1>9 DEF RunOK
<1>11. CountersOK'
  BY DEF IInv, CountersOK
<1>12. CopyingOK' /\ UpdatedOK' /\ ResumesUnlessManifest'
  BY <1>0 DEF CopyingOK, UpdatedOK, ResumesUnlessManifest
<1>. QED
  BY <1>4, <1>10, <1>11, <1>12 DEF IInv

\* The manifest is truncated.
LEMMA StampKeeps ==
  ASSUME IInv, Stamp
  PROVE  IInv'
<1>0. stack # <<>> /\ Top.next = "stamp" /\ target \in Roots
  BY RunFacts DEF Stamp
<1>1. PICK level \in Levels, f \in Frames : Top = f /\ FrameOK(f, level) /\ Below(level)
  BY <1>0, TopFacts
<1>2. /\ f.path = <<target, level>> /\ f.next = "stamp" /\ Ready(level, f.version)
      /\ Readable(<<target, level>>) /\ Version(<<target, level>>) = f.version
  BY <1>0, <1>1 DEF FrameOK
<1>3. Kind(<<target, level>>) = Of(level)
  <2>1. CASE tree[target][level].manifest = Absent
    <3>1. Layout(tree[target], level) = Of(level)
      BY <1>0, RunFacts
    <3>. QED
      BY <2>1, <3>1 DEF Kind, detect_index_kind, At
  <2>2. CASE tree[target][level].manifest # Absent
    <3>1. tree[target][level].manifest.kind = Of(level)
      BY <1>0, <1>2, <2>2, VersionFacts DEF IInv
    <3>. QED
      BY <2>2, <3>1 DEF Kind, At
  <2>. QED
    BY <2>1, <2>2
<1>4. PICK next \in Kinds : next = Of(level)
  BY SplitFacts DEF IInv
<1>5. PICK h : h = [f EXCEPT !.next = next]
  OBVIOUS
<1>6. /\ Put(<<target, level>>, "manifest", Short)
      /\ stack' = Append(Front(stack), h)
      /\ UNCHANGED <<target, copying, outcome, overwritten, calls, crashes>>
  BY <1>1, <1>2, <1>3, <1>4, <1>5 DEF Stamp, Advance
<1>7. h \in Frames /\ h.next = Of(level) /\ h.path = <<target, level>> /\ h.version = f.version
  BY <1>2, <1>4, <1>5 DEF Frames, Nexts
<1>8. Ready(level, h.version)
  BY <1>2, <1>7
<1>. QED
  BY <1>0, <1>1, <1>6, <1>7, <1>8, ManifestKeeps

\* The manifest is written with the next version, which the data and the index
\* within allow.
LEMMA StampedKeeps ==
  ASSUME IInv, Stamped
  PROVE  IInv'
<1>0. stack # <<>> /\ Top.next \in Kinds /\ target \in Roots
  BY RunFacts DEF Stamped, Kinds
<1>1. PICK level \in Levels, f \in Frames : Top = f /\ FrameOK(f, level) /\ Below(level)
  BY <1>0, TopFacts
<1>2. /\ f.path = <<target, level>> /\ f.next = Of(level) /\ f.next \in Kinds
      /\ Ready(level, f.version)
  BY <1>0, <1>1 DEF FrameOK
<1>3. f.version \in 0 .. 2
  BY <1>1, <1>2 DEF Frames, Ready, CURRENT_FORMAT_VERSION
<1>4. PICK c : c = [version |-> f.version + 1, kind |-> f.next]
  OBVIOUS
<1>5. PICK h : h = Frame(<<target, level>>, f.version + 1, "step")
  OBVIOUS
<1>6. /\ Put(<<target, level>>, "manifest", c)
      /\ stack' = Append(Front(stack), h)
      /\ UNCHANGED <<target, copying, outcome, overwritten, calls, crashes>>
  BY <1>1, <1>2, <1>4, <1>5 DEF Stamped
<1>7. c \in Manifests /\ c.kind = Of(level) /\ c.version = f.version + 1
  <2>1. f.version + 1 \in 1 .. 4
    BY <1>3
  <2>. QED
    BY <1>2, <1>4, <2>1, ManifestFacts
<1>8. c # Short
  BY <1>7, ContentFacts DEF Whole
<1>9. h \in Frames /\ h.next = "step" /\ h.path = <<target, level>> /\ h.version = c.version
  <2>1. f.version + 1 \in 0 .. CURRENT_FORMAT_VERSION + 1
    BY <1>3 DEF CURRENT_FORMAT_VERSION
  <2>. QED
    BY <1>0, <1>5, <1>7, <2>1 DEF Frame, Frames, Nexts
<1>10. /\ Trusted /\ Of(level) = "compressed"
            => tree[target][level].bin.version >= Promised(c.version)
       /\ Of(level) = "split" /\ c.version = CURRENT_FORMAT_VERSION => Current(target, "inner")
  BY <1>2, <1>3, <1>7 DEF Ready, CURRENT_FORMAT_VERSION
<1>. QED
  BY <1>0, <1>1, <1>6, <1>7, <1>8, <1>9, <1>10, ManifestKeeps

-----------------------------------------------------------------------------
(***************************************************************************)
(* Crashes, and what loading an index writes                               *)
(***************************************************************************)

\* A crash leaves the files as they are, and nothing under way.
LEMMA CrashKeeps ==
  ASSUME IInv, Crash
  PROVE  IInv'
<1>. USE DEF Crash
<1>1. TreeOK' /\ IndexOK' /\ CopyOK'
  BY FilesStay DEF IInv, CountersOK
<1>2. CountersOK'
  BY MigrationAssumption DEF IInv, CountersOK
<1>3. CopyingOK' /\ RunOK' /\ UpdatedOK' /\ ResumesUnlessManifest'
  BY DEF CopyingOK, RunOK, UpdatedOK, ResumesUnlessManifest
<1>. QED
  BY <1>1, <1>2, <1>3 DEF IInv

\* What loading an index without a manifest writes is true of it.
LEMMA LegacyFacts ==
  ASSUME IInv, NEW root \in Roots, NEW level \in Levels,
         StampLegacy(root, level)
  PROVE  /\ level = "inner" => Held(tree["index"], "inner")
         /\ Layout(tree[root], level) = Of(level)
         /\ Whole(tree[root][level].bin) => tree[root][level].bin.version = COMPRESSED_INDEX_VERSION
         /\ level = "top" /\ Of("top") = "split" => Current(root, "inner")
         /\ level = "inner" /\ Of("top") = "split" /\ Current(root, "top")
              => root = "copy" /\ tree["index"]["inner"].manifest # Absent
<1>. USE DEF IInv
<1>0. /\ Loads(root)
      /\ Exists(<<root, level>>) \/ (level = "top" /\ Exists(<<root, "inner">>))
      /\ tree[root][level].manifest = Absent
      /\ level = "top" => tree[root]["inner"].manifest # Absent \/ ~Held(tree[root], "inner")
  BY DEF StampLegacy, At, Exists
<1>1. level = "inner" => Held(tree[root], "inner")
  BY <1>0 DEF Exists
<1>2. level = "inner" => Held(tree["index"], "inner")
  BY <1>1 DEF CopyOK, Roots
<1>3. Layout(tree[root], level) = Of(level) /\ Layout(tree[root], "top") = Of("top")
  BY <1>0, <1>1, LoadedLayout DEF Levels
<1>4. ASSUME Whole(tree[root][level].bin)
      PROVE  tree[root][level].bin.version = COMPRESSED_INDEX_VERSION
  <2>1. tree["index"][level].bin # Absent
    BY <1>4 DEF Whole, CopyOK, Data, FileNames, Roots
  <2>2. Of(level) = "compressed" /\ (level = "inner" => Of("top") = "split")
    BY <2>1, BinFacts
  <2>3. DataLoads(<<root, level>>)
    BY <1>0, <1>3, <2>2 DEF Loads, detect_index_kind, Levels
  <2>. QED
    BY <1>3, <2>2, <2>3 DEF DataLoads, detect_index_kind, At
<1>5. ASSUME level = "top", Of("top") = "split"
      PROVE  Current(root, "inner")
  <2>1. Held(tree[root], "inner")
    BY <1>3, <1>5 DEF Layout
  <2>2. ManifestLoads(<<root, "inner">>)
    BY <1>0, <1>3, <1>5 DEF Loads, detect_index_kind
  <2>3. tree[root]["inner"].manifest # Absent /\ tree[root]["inner"].manifest # Short
    BY <1>0, <1>5, <2>1, <2>2 DEF ManifestLoads, Readable, At
  <2>4. tree[root]["inner"].manifest \in Manifests
    BY <2>3 DEF TreeOK, Levels
  <2>5. tree[root]["inner"].manifest.version \in 1 .. 4
    BY <2>4, OfManifest
  <2>. QED
    BY <2>2, <2>3, <2>5 DEF Current, Whole, ManifestLoads, Version, At, CURRENT_FORMAT_VERSION
<1>6. ASSUME level = "inner", Of("top") = "split", Current(root, "top")
      PROVE  root = "copy" /\ tree["index"]["inner"].manifest # Absent
  <2>1. ~Settled(root)
    BY <1>0, <1>6 DEF Settled, Current, Whole
  <2>. QED
    BY <2>1 DEF IndexOK, CopyOK, Roots
<1>. QED
  BY <1>2, <1>3, <1>4, <1>5, <1>6

\* What is stamped when it is loaded is up to date.
LEMMA StampLegacyKeeps ==
  ASSUME IInv, NEW root \in Roots, NEW level \in Levels,
         StampLegacy(root, level)
  PROVE  IInv'
<1>0. /\ stack = <<>> /\ copying = {} /\ tree[root][level].manifest = Absent
      /\ level = "inner" => Held(tree[root], "inner")
      /\ UNCHANGED <<target, stack, copying, outcome, overwritten, calls>>
  BY DEF StampLegacy, Idle, At, Exists
<1>1. PICK c \in {Short, [version |-> CURRENT_FORMAT_VERSION, kind |-> Layout(tree[root], level)]} :
        Put(<<root, level>>, "manifest", c)
  BY DEF StampLegacy, detect_index_kind
<1>2. /\ c \in Manifests \cup {Short}
      /\ c # Short => c.kind = Of(level) /\ c.version = CURRENT_FORMAT_VERSION
  <2>1. CURRENT_FORMAT_VERSION \in 1 .. 4
    BY DEF CURRENT_FORMAT_VERSION
  <2>2. Layout(tree[root], level) = Of(level) /\ Of(level) \in Kinds
    BY LegacyFacts, SplitFacts DEF IInv
  <2>. QED
    BY <1>1, <2>1, <2>2, ManifestFacts
<1>3. /\ TreeOK' /\ IndexOK' /\ CopyOK'
      /\ \A r \in Roots, l \in Levels :
           tree'[r][l].manifest = IF <<r, l>> = <<root, level>> THEN c ELSE tree[r][l].manifest
      /\ root = "copy" => tree'["index"] = tree["index"]
      /\ root = "index" => tree'["copy"] = tree["copy"]
  <2>1. /\ level = "inner" => Held(tree["index"], "inner")
        /\ level = "top" /\ Of("top") = "split" => Current(root, "inner")
        /\ level = "inner" /\ Of("top") = "split" /\ Current(root, "top")
             => root = "copy" /\ tree["index"]["inner"].manifest # Absent
    BY LegacyFacts
  <2>2. c # Short /\ Whole(tree[root][level].bin)
          => tree[root][level].bin.version >= Promised(c.version)
    BY <1>2, LegacyFacts DEF Promised, CURRENT_FORMAT_VERSION, COMPRESSED_INDEX_VERSION
  <2>. QED
    BY <1>0, <1>1, <1>2, <2>1, <2>2, ManifestPut
<1>4. UpdatedOK'
  <2>1. SUFFICES ASSUME outcome = "updated"
                 PROVE  /\ Idle'
                        /\ Trusted' => /\ Loads(target)' /\ ~Unversioned(target)'
                                       /\ \A l \in Levels : WellRead(target, l)'
    BY <1>0 DEF UpdatedOK
  <2>2. Idle'
    BY <1>0 DEF Idle
  <2>3. ASSUME Trusted'
        PROVE  Trusted
    <3>1. CASE root = "index"
      BY <3>1 DEF Trusted, StampLegacy
    <3>2. CASE root = "copy"
      BY <1>0, <1>3, <2>3, <3>2, TrustStays
    <3>. QED
      BY <3>1, <3>2 DEF Roots
  <2>4. ASSUME Trusted
        PROVE  /\ Loads(target)' /\ ~Unversioned(target)'
               /\ \A l \in Levels : WellRead(target, l)'
    <3>1. /\ Loads(target) /\ ~Unversioned(target)
          /\ \A l \in Levels : WellRead(target, l)
      BY <2>1, <2>4 DEF IInv, UpdatedOK
    <3>2. target # root
      BY <1>0, <3>1 DEF Unversioned, At, Exists, Levels
    <3>3. tree'[target] = tree[target] /\ target' = target
      BY <1>0, <1>3, <3>2 DEF Roots, IInv, CountersOK
    <3>4. Loads(target)'
      BY <3>1, <3>3 DEF Loads, ManifestLoads, Readable, Version, DataLoads, detect_index_kind, At
    <3>5. ~Unversioned(target)'
      BY <3>1, <3>3 DEF Unversioned, At, Exists
    <3>6. \A l \in Levels : WellRead(target, l)'
      BY <3>1, <3>3 DEF WellRead
    <3>. QED
      BY <3>4, <3>5, <3>6
  <2>. QED
    BY <2>2, <2>3, <2>4
<1>5. ResumesUnlessManifest'
  <2>1. SUFFICES ASSUME outcome = "error"
                 PROVE  (\E path \in Paths : \/ At(path).manifest = Short
                                             \/ Version(path) > CURRENT_FORMAT_VERSION)'
    BY <1>0 DEF ResumesUnlessManifest
  <2>2. PICK path \in Paths : At(path).manifest = Short \/ Version(path) > CURRENT_FORMAT_VERSION
    BY <2>1 DEF IInv, ResumesUnlessManifest
  <2>3. Absent # Short
    BY ContentFacts
  <2>4. path # <<root, level>>
    BY <1>0, <2>2, <2>3 DEF Version, At, CURRENT_FORMAT_VERSION
  <2>5. PICK r \in Roots, l \in Levels : path = <<r, l>>
    BY DEF Paths, Roots
  <2>6. tree'[r][l].manifest = tree[r][l].manifest
    BY <1>3, <2>4, <2>5
  <2>7. At(path)'.manifest = At(path).manifest
    BY <2>5, <2>6 DEF At
  <2>8. (At(path).manifest = Short \/ Version(path) > CURRENT_FORMAT_VERSION)'
    BY <2>2, <2>7 DEF Version
  <2>. QED
    BY <2>8
<1>6. CountersOK'
  BY <1>0, MigrationAssumption DEF IInv, CountersOK, StampLegacy
<1>7. CopyingOK' /\ RunOK'
  BY <1>0 DEF CopyingOK, RunOK
<1>. QED
  BY <1>3, <1>4, <1>5, <1>6, <1>7 DEF IInv

\* A step of none of them leaves everything as it is.
LEMMA StutterKeeps ==
  ASSUME IInv, UNCHANGED vars
  PROVE  IInv'
<1>. USE DEF vars
<1>1. TreeOK' /\ IndexOK' /\ CopyOK' /\ \A level \in Levels : Of(level)' = Of(level)
  BY FilesStay DEF IInv, CountersOK
<1>2. CopyingOK'
  BY DEF IInv, CopyingOK
<1>3. Trusted' <=> Trusted
  BY TrustStays
<1>4. ASSUME NEW level \in Levels, NEW f \in Frames, FrameOK(f, level)
      PROVE  FrameOK(f, level)'
  <2>1. \A version : Ready(level, version) => Ready(level, version)'
    BY <1>1, <1>3 DEF Ready, Current
  <2>. QED
    BY <1>1, <1>4, <2>1 DEF FrameOK, Readable, Version, At
<1>5. StackOK => StackOK'
  BY <1>4 DEF StackOK, Levels
<1>6. RunOK'
  <2>1. Settled(target) => Settled(target)'
    BY <1>1 DEF Settled, Current, Levels
  <2>. QED
    BY <1>3, <1>5, <2>1 DEF IInv, RunOK, Faithful, WellRead
<1>7. UpdatedOK'
  <2>1. Loads(target) => Loads(target)'
    BY DEF Loads, ManifestLoads, Readable, Version, DataLoads, detect_index_kind, At
  <2>2. ~Unversioned(target) => ~Unversioned(target)'
    BY DEF Unversioned, At, Exists
  <2>. QED
    BY <1>3, <2>1, <2>2 DEF IInv, UpdatedOK, Idle, WellRead
<1>8. CountersOK' /\ ResumesUnlessManifest'
  BY DEF IInv, CountersOK, ResumesUnlessManifest, At, Version
<1>. QED
  BY <1>1, <1>2, <1>6, <1>7, <1>8 DEF IInv

\* Every step keeps the invariant.
LEMMA NextKeeps ==
  ASSUME IInv, [Next]_vars
  PROVE  IInv'
<1>1. CASE BeginInPlace
  BY <1>1, BeginInPlaceKeeps
<1>2. CASE BeginCopy
  BY <1>2, BeginCopyKeeps
<1>3. CASE CopyNext
  BY <1>3, CopyFileKeeps DEF CopyNext
<1>4. CASE Migrate
  BY <1>4, EnterKeeps, NewerKeeps, ReturnKeeps, StepKeeps, RewriteDataKeeps, StampKeeps,
     StampedKeeps DEF Migrate
<1>5. CASE Crash
  BY <1>5, CrashKeeps
<1>6. CASE \E root \in {"index", "copy"}, level \in Levels : StampLegacy(root, level)
  BY <1>6, StampLegacyKeeps DEF Roots
<1>7. CASE UNCHANGED vars
  BY <1>7, StutterKeeps
<1>. QED
  BY <1>1, <1>2, <1>3, <1>4, <1>5, <1>6, <1>7 DEF Next

-----------------------------------------------------------------------------
(***************************************************************************)
(* The inductive invariant of transforms                                   *)
(***************************************************************************)
\* The files of a directory that Transforms tells apart.
Names == {"manifest", "information", "cbor", "bin", "docids", "impacts", "positions",
          "lengths", "lengthsInfo", "map", "vocab", "analyzer"}

\* What a file may hold, and what may be written through one.
Proper(name, content) ==
  /\ name = "information" => content \in T!Contents \cup {Absent}
  /\ name = "bin" => content \in T!BinContents \cup {Absent, Short}
  /\ name = "lengths" => content \in T!Contents \cup {Absent, Short}
  /\ name = "vocab" => content \in T!Dirs \cup {Absent}
  /\ name = "words" => content \in T!Dirs \cup {Short}
  /\ name = "analyzer" => content \in T!Dirs \cup {Absent, Short}

\* No target has the file that makes a forward index of it.
DiskOK ==
  /\ DOMAIN disk = T!Dirs
  /\ \A dir \in T!Dirs :
       /\ DOMAIN disk[dir] = T!Levels
       /\ \A level \in T!Levels :
            /\ DOMAIN disk[dir][level] = Names
            /\ \A name \in Names : Proper(name, disk[dir][level][name])
            /\ dir \in Targets => disk[dir][level].information = Absent

\* What transforms write.
Written ==
  T!Contents \cup T!BinContents \cup T!Dirs \cup {Absent, Short, Order}
    \cup {"compressed", "split", "information"}

\* One write; "words" is what is written through the name of the vocabulary.
Writes == [path : Targets \X T!Levels, file : Names \cup {"words"}, content : Written]

\* The writes of a transform to its target.
WritesTo(dir) ==
  {w \in Writes :
     /\ w.path[1] = dir /\ w.file # "information"
     /\ w.file \in {"vocab", "words"} => w.path[2] = "top"
     /\ Proper(w.file, w.content)}

\* What a view is of.
Seen(view) ==
  /\ view.postings \in T!Contents /\ view.lengths \in T!Contents \cup {Absent}
  /\ view.positions \in BOOLEAN

\* A call as it was made.
Asked(asked) ==
  /\ asked.pipeline \in T!Pipelines /\ asked.call \in T!Calls
  /\ asked.call = "compress" => asked.pipeline = <<>>
  /\ asked.call = "reorder" => asked.pipeline = <<"reorder">>
  /\ Seen(T!ViewOf(asked.index))
  /\ asked.index.vocab \in T!Dirs \cup {Absent} /\ asked.index.analyzer \in T!Dirs \cup {Absent}

\* The last writes of the files that make the index a transform was asked for.
Owed(asked) ==
  LET pipeline == asked.pipeline
      last == Len(pipeline) + 1
      view == T!ViewAt(pipeline, last, T!ViewOf(asked.index))
      path == T!PathOf(asked.target, pipeline, last)
      top == <<asked.target, "top">>
  IN {T!Write(path, "manifest", "compressed"), T!Write(path, "cbor", "compressed"),
      T!Write(path, "bin", [postings |-> view.postings, positions |-> view.positions]),
      T!Write(path, "docids", view.postings), T!Write(path, "impacts", view.postings)}
     \cup (IF view.positions THEN {T!Write(path, "positions", view.postings)} ELSE {})
     \cup (IF path # top
           THEN {T!Write(top, "manifest", "split"), T!Write(top, "cbor", "split")}
           ELSE {})
     \cup (IF T!LengthsWritten(asked)
           THEN {T!Write(top, "lengths", view.lengths), T!Write(top, "lengthsInfo", "information")}
           ELSE {})

\* Two writes of one file.
Same(w, v) == w.path = v.path /\ w.file = v.file

\* The last write to a file in a plan.
Ends(writes, w) ==
  \E i \in DOMAIN writes : writes[i] = w /\ \A j \in i + 1 .. Len(writes) : ~Same(writes[j], w)

\* The file has what the write put there.
OnDisk(w) == disk[w.path[1]][w.path[2]][w.file] = w.content

\* What is owed is still to be written, or was.
Coming(w) == Ends(plan, w) \/ (OnDisk(w) /\ \A i \in DOMAIN plan : ~Same(plan[i], w))

\* No write of a list is of this file.
Without(writes, name) == \A i \in DOMAIN writes : writes[i].file # name

\* The vocabulary is removed, once, before words are written.
Removes(writes) ==
  \E r \in DOMAIN writes :
    /\ writes[r].file = "vocab" /\ writes[r].content = Absent
    /\ \A i \in DOMAIN writes :
         /\ writes[i].file = "vocab" => i = r
         /\ writes[i].file = "words" => i > r

\* The inode of the vocabulary of a directory.
VocabOf(dir) == disk[dir]["top"].vocab

\* No other directory has a link to the vocabulary of this one.
Alone(dir) ==
  VocabOf(dir) = Absent \/ \A other \in T!Dirs \ {dir} : VocabOf(other) # VocabOf(dir)

\* Words that are still to be written go to an inode no other directory has.
WordsApart(dir) == Without(plan, "words") \/ Removes(plan) \/ (Without(plan, "vocab") /\ Alone(dir))

\* The vocabulary of a directory holds these words.
HasWords(dir, words) == VocabOf(dir) \in T!Dirs /\ inodes[VocabOf(dir)] = words

\* The vocabulary is linked, or written with the words of the index.
WordsComing(asked) ==
  LET top == <<asked.target, "top">>
      vocab == asked.index.vocab
  IN \/ Without(plan, "words") /\ Ends(plan, T!Write(top, "vocab", vocab))
     \/ Without(plan, "words") /\ Without(plan, "vocab") /\ HasWords(asked.target, asked.words)
     \/ ~Without(plan, "words") /\ Ends(plan, T!Write(top, "words", vocab))

\* The transform under way.
JobOK(asked) ==
  /\ asked.target \in Targets /\ wrote[asked.target] = T!Idle /\ Asked(asked)
  /\ plan \in Seq(WritesTo(asked.target))
  /\ \A w \in Owed(asked) : Coming(w)
  /\ WordsApart(asked.target)
  /\ T!VocabularyWritten(asked) => WordsComing(asked)
  /\ T!There(asked.index.vocab) =>
       /\ inodes[asked.index.vocab] = asked.words
       /\ \E from \in T!Dirs \ {asked.target} : VocabOf(from) = asked.index.vocab

\* The last transform of a target, that finished.
DoneOK(t, asked) ==
  /\ asked.target = t /\ Asked(asked)
  /\ \A w \in Owed(asked) : OnDisk(w)
  /\ T!VocabularyWritten(asked) => HasWords(t, asked.words)

\* The inductive invariant of transforms.
TransformsInv ==
  /\ DiskOK
  /\ inodes \in [T!Dirs -> T!Dirs \cup {Short}]
  /\ DOMAIN wrote = Targets /\ \A t \in Targets : wrote[t] = T!Idle \/ DoneOK(t, wrote[t])
  /\ (job = T!Idle /\ plan = <<>>) \/ JobOK(job)
  /\ jobs \in 0 .. MaxJobs /\ crashes \in 0 .. MaxCrashes

-----------------------------------------------------------------------------
(***************************************************************************)
(* Lists of writes                                                         *)
(***************************************************************************)
\* Writes after one another.
LEMMA ConcatFacts ==
  ASSUME NEW W, NEW p \in Seq(W), NEW q \in Seq(W)
  PROVE  /\ p \o q \in Seq(W)
         /\ DOMAIN (p \o q) = 1 .. Len(p) + Len(q)
         /\ \A i \in DOMAIN p : (p \o q)[i] = p[i]
         /\ \A i \in Len(p) + 1 .. Len(p) + Len(q) :
              i - Len(p) \in DOMAIN q /\ (p \o q)[i] = q[i - Len(p)]
         /\ \A i \in DOMAIN q : (p \o q)[Len(p) + i] = q[i]
OBVIOUS

\* The last write to a file is the last of what comes after.
LEMMA EndsAfter ==
  ASSUME NEW W, NEW p \in Seq(W), NEW q \in Seq(W), NEW w, Ends(q, w)
  PROVE  Ends(p \o q, w)
<1>1. PICK i \in DOMAIN q : q[i] = w /\ \A j \in i + 1 .. Len(q) : ~Same(q[j], w)
  BY DEF Ends
<1>2. Len(p) + i \in DOMAIN (p \o q) /\ (p \o q)[Len(p) + i] = w
  BY <1>1, ConcatFacts
<1>3. ASSUME NEW j \in Len(p) + i + 1 .. Len(p \o q)
      PROVE  ~Same((p \o q)[j], w)
  <2>1. j - Len(p) \in i + 1 .. Len(q) /\ (p \o q)[j] = q[j - Len(p)]
    BY ConcatFacts
  <2>. QED
    BY <2>1, <1>1
<1>. QED
  BY <1>2, <1>3 DEF Ends

\* It stays the last if what comes after does not write to the file.
LEMMA EndsBefore ==
  ASSUME NEW W, NEW p \in Seq(W), NEW q \in Seq(W), NEW w, Ends(p, w),
         \A i \in DOMAIN q : ~Same(q[i], w)
  PROVE  Ends(p \o q, w)
<1>1. PICK i \in DOMAIN p : p[i] = w /\ \A j \in i + 1 .. Len(p) : ~Same(p[j], w)
  BY DEF Ends
<1>2. i \in DOMAIN (p \o q) /\ (p \o q)[i] = w
  BY <1>1, ConcatFacts
<1>3. ASSUME NEW j \in i + 1 .. Len(p \o q)
      PROVE  ~Same((p \o q)[j], w)
  <2>1. CASE j \in DOMAIN p
    BY <2>1, <1>1, ConcatFacts
  <2>2. CASE j \notin DOMAIN p
    <3>1. j \in Len(p) + 1 .. Len(p) + Len(q)
      BY <2>2
    <3>. QED
      BY <3>1, ConcatFacts
  <2>. QED
    BY <2>1, <2>2
<1>. QED
  BY <1>2, <1>3 DEF Ends

\* A file is truncated and then written.
LEMMA TruncatedFirst ==
  ASSUME NEW W, NEW path, NEW file, NEW content,
         T!Write(path, file, Short) \in W, T!Write(path, file, content) \in W
  PROVE  /\ T!Rewrite(path, file, content) \in Seq(W)
         /\ Ends(T!Rewrite(path, file, content), T!Write(path, file, content))
<1>. DEFINE p == T!Rewrite(path, file, content)
<1>1. p \in Seq(W) /\ Len(p) = 2 /\ DOMAIN p = 1 .. 2 /\ p[2] = T!Write(path, file, content)
  BY DEF T!Rewrite
<1>. QED
  BY <1>1 DEF Ends

-----------------------------------------------------------------------------
(***************************************************************************)
(* What each part of a transform writes                                    *)
(***************************************************************************)
\* The writes to some files of a directory, that a transform may make.
In(path, names) == {w \in WritesTo(path[1]) : w.path = path /\ w.file \in names}

\* The files of a compression, and below those of what is written around it.
DataFiles == {"manifest", "cbor", "bin", "docids", "impacts", "positions"}

\* A missing or a truncated file is none that was written.
LEMMA NoneDiffer ==
  ASSUME T!TransformsAssumption
  PROVE  /\ Absent # Short
         /\ \A none \in {Absent, Short} :
              /\ none \notin T!Dirs /\ none \notin T!Contents /\ none \notin T!BinContents
              /\ none # "forward" /\ none # "compressed" /\ none # "split" /\ none # "information"
BY DEF T!TransformsAssumption

\* One more write to the files of a directory.
LEMMA InFacts ==
  ASSUME NEW to \in Targets, NEW level \in T!Levels,
         NEW names \in SUBSET (Names \cup {"words"}), "information" \notin names,
         names \cap {"vocab", "words"} # {} => level = "top",
         NEW file \in names, NEW content \in Written, Proper(file, content)
  PROVE  T!Write(<<to, level>>, file, content) \in In(<<to, level>>, names)
<1>. DEFINE w == T!Write(<<to, level>>, file, content)
<1>1. w \in Writes
  BY DEF Writes, T!Write
<1>2. w.path = <<to, level>> /\ w.file = file /\ w.content = content
  BY DEF T!Write
<1>3. w \in WritesTo(to)
  BY <1>1, <1>2 DEF WritesTo
<1>. QED
  BY <1>2, <1>3 DEF In

\* Files of other names are left as they are.
LEMMA Apart ==
  ASSUME NEW path, NEW names, NEW p \in Seq(In(path, names)), NEW w,
         w.path # path \/ w.file \notin names
  PROVE  \A i \in DOMAIN p : ~Same(p[i], w)
BY DEF In, Same

\* A compression leaves the files an index is opened from.
LEMMA CompressFacts ==
  ASSUME NEW to \in Targets, NEW level \in T!Levels, NEW view, Seen(view)
  PROVE  LET path == <<to, level>>
             p == T!Compress(path, view)
         IN /\ p \in Seq(In(path, DataFiles))
            /\ Ends(p, T!Write(path, "manifest", "compressed"))
            /\ Ends(p, T!Write(path, "cbor", "compressed"))
            /\ Ends(p, T!Write(path, "bin",
                               [postings |-> view.postings, positions |-> view.positions]))
            /\ Ends(p, T!Write(path, "docids", view.postings))
            /\ Ends(p, T!Write(path, "impacts", view.postings))
            /\ view.positions => Ends(p, T!Write(path, "positions", view.postings))
<1>. DEFINE path == <<to, level>>
            W == In(path, DataFiles)
            bin == [postings |-> view.postings, positions |-> view.positions]
            c1 == <<T!Write(path, "impacts", Short), T!Write(path, "docids", Short)>>
            c2 == IF view.positions THEN T!Rewrite(path, "positions", view.postings) ELSE <<>>
            c3 == T!Rewrite(path, "bin", bin)
            c4 == T!Rewrite(path, "manifest", "compressed")
            c5 == T!Rewrite(path, "cbor", "compressed")
            c6 == <<T!Write(path, "docids", view.postings),
                    T!Write(path, "impacts", view.postings)>>
            wp == T!Write(path, "positions", view.postings)
            wb == T!Write(path, "bin", bin)
            wm == T!Write(path, "manifest", "compressed")
            wc == T!Write(path, "cbor", "compressed")
            wd == T!Write(path, "docids", view.postings)
            wi == T!Write(path, "impacts", view.postings)
<1>1. \A file \in DataFiles, content \in Written :
        Proper(file, content) => T!Write(path, file, content) \in W
  BY InFacts DEF DataFiles, Names
<1>2. /\ view.postings \in Written /\ bin \in Written /\ bin \in T!BinContents
      /\ Short \in Written /\ "compressed" \in Written
  BY DEF Seen, Written, T!BinContents
<1>3. /\ \A file \in DataFiles : Proper(file, Short)
      /\ \A file \in {"docids", "impacts", "positions"} : Proper(file, view.postings)
      /\ \A file \in {"manifest", "cbor"} : Proper(file, "compressed")
      /\ Proper("bin", bin)
  BY <1>2 DEF Proper, DataFiles
<1>4. /\ \A file \in DataFiles : T!Write(path, file, Short) \in W
      /\ wp \in W /\ wb \in W /\ wm \in W /\ wc \in W /\ wd \in W /\ wi \in W
  BY <1>1, <1>2, <1>3 DEF DataFiles
<1>5. /\ \A file : \A content : T!Write(path, file, content).path = path
      /\ \A file : \A content : T!Write(path, file, content).file = file
  BY DEF T!Write
<1>. HIDE DEF W, bin
<1>c1. c1 \in Seq(W)
  BY <1>4 DEF DataFiles
<1>c2. c2 \in Seq(W) /\ (view.positions => Ends(c2, wp))
  <2>1. CASE view.positions
    BY <2>1, <1>4, TruncatedFirst DEF DataFiles
  <2>2. CASE ~view.positions
    BY <2>2
  <2>. QED
    BY <2>1, <2>2
<1>c3. c3 \in Seq(W) /\ Ends(c3, wb) /\ \A i \in DOMAIN c3 : c3[i].file = "bin"
  BY <1>4, <1>5, TruncatedFirst DEF DataFiles, T!Rewrite
<1>c4. c4 \in Seq(W) /\ Ends(c4, wm) /\ \A i \in DOMAIN c4 : c4[i].file = "manifest"
  BY <1>4, <1>5, TruncatedFirst DEF DataFiles, T!Rewrite
<1>c5. c5 \in Seq(W) /\ Ends(c5, wc) /\ \A i \in DOMAIN c5 : c5[i].file = "cbor"
  BY <1>4, <1>5, TruncatedFirst DEF DataFiles, T!Rewrite
<1>c6. /\ c6 \in Seq(W) /\ Ends(c6, wd) /\ Ends(c6, wi)
       /\ \A i \in DOMAIN c6 : c6[i].file \in {"docids", "impacts"}
  <2>1. c6 \in Seq(W) /\ DOMAIN c6 = 1 .. 2 /\ Len(c6) = 2 /\ c6[1] = wd /\ c6[2] = wi
    BY <1>4
  <2>2. ~Same(wi, wd)
    BY <1>5 DEF Same
  <2>. QED
    BY <2>1, <2>2, <1>5 DEF Ends
<1>. DEFINE s2 == c1 \o c2
            s3 == s2 \o c3
            s4 == s3 \o c4
            s5 == s4 \o c5
            s6 == s5 \o c6
<1>. HIDE DEF c1, c2, c3, c4, c5, c6
<1>6. s2 \in Seq(W) /\ (view.positions => Ends(s2, wp))
  BY <1>c1, <1>c2, EndsAfter, ConcatFacts
<1>. HIDE DEF s2
<1>7. s3 \in Seq(W) /\ Ends(s3, wb) /\ (view.positions => Ends(s3, wp))
  <2>1. \A i \in DOMAIN c3 : ~Same(c3[i], wp)
    <3>1. wp.file = "positions"
      BY <1>5
    <3>. HIDE DEF wp
    <3>. QED
      BY <1>c3, <3>1 DEF Same
  <2>. QED
    BY <2>1, <1>6, <1>c3, EndsAfter, EndsBefore, ConcatFacts
<1>. HIDE DEF s3
<1>8. s4 \in Seq(W) /\ Ends(s4, wm) /\ Ends(s4, wb) /\ (view.positions => Ends(s4, wp))
  <2>1. \A i \in DOMAIN c4 : ~Same(c4[i], wp) /\ ~Same(c4[i], wb)
    BY <1>c4, <1>5 DEF Same
  <2>. QED
    BY <2>1, <1>7, <1>c4, EndsAfter, EndsBefore, ConcatFacts
<1>. HIDE DEF s4
<1>9. /\ s5 \in Seq(W) /\ Ends(s5, wc) /\ Ends(s5, wm) /\ Ends(s5, wb)
      /\ view.positions => Ends(s5, wp)
  <2>1. \A i \in DOMAIN c5 : ~Same(c5[i], wp) /\ ~Same(c5[i], wb) /\ ~Same(c5[i], wm)
    BY <1>c5, <1>5 DEF Same
  <2>. QED
    BY <2>1, <1>8, <1>c5, EndsAfter, EndsBefore, ConcatFacts
<1>. HIDE DEF s5
<1>10. /\ s6 \in Seq(W) /\ Ends(s6, wc) /\ Ends(s6, wm) /\ Ends(s6, wb) /\ Ends(s6, wd)
       /\ Ends(s6, wi) /\ (view.positions => Ends(s6, wp))
  <2>1. \A i \in DOMAIN c6 :
          ~Same(c6[i], wp) /\ ~Same(c6[i], wb) /\ ~Same(c6[i], wm) /\ ~Same(c6[i], wc)
    <3>1. wp.file = "positions" /\ wb.file = "bin" /\ wm.file = "manifest" /\ wc.file = "cbor"
      BY <1>5
    <3>. QED
      BY <3>1, <1>c6 DEF Same
  <2>. QED
    BY <2>1, <1>9, <1>c6, EndsAfter, EndsBefore, ConcatFacts
<1>11. T!Compress(path, view) = s6
  BY DEF T!Compress, s5, s4, s3, s2, c1, c2, c3, c4, c5, c6, bin
<1>. HIDE DEF s6, wp, wb, wm, wc, wd, wi
<1>. DEFINE q == T!Compress(path, view)
<1>12. /\ q \in Seq(W) /\ Ends(q, wm) /\ Ends(q, wc) /\ Ends(q, wb) /\ Ends(q, wd)
       /\ Ends(q, wi) /\ (view.positions => Ends(q, wp))
  BY <1>10, <1>11
<1>. HIDE DEF q
<1>. QED
  BY <1>12 DEF q, W, bin, wp, wb, wm, wc, wd, wi

\* A list of some writes is one of more.
LEMMA SeqGrows ==
  ASSUME NEW V, NEW W, V \subseteq W, NEW p \in Seq(V)
  PROVE  p \in Seq(W)
OBVIOUS

\* So are those to some files of a directory.
LEMMA InGrows ==
  ASSUME NEW path, NEW names, NEW more, names \subseteq more
  PROVE  In(path, names) \subseteq In(path, more)
BY DEF In

\* Renumbered contents are contents.
LEMMA RenumberedFacts ==
  ASSUME NEW content \in T!Contents
  PROVE  T!Renumbered(content) \in T!Contents
<1>1. \A i \in T!Docs : Order[i] \in T!Docs /\ content.ids[Order[i]] \in T!Docs
  BY RewritingAssumption DEF T!TransformsAssumption, T!Contents
<1>2. [i \in T!Docs |-> content.ids[Order[i]]] \in [T!Docs -> T!Docs]
  BY <1>1
<1>. QED
  BY <1>2 DEF T!Renumbered, T!Contents

\* The views of a transform are of contents, and none but a compression keeps positions.
LEMMA ViewFacts ==
  ASSUME NEW view, Seen(view)
  PROVE  /\ Seen(T!ReorderedIndexView(view)) /\ Seen(T!SplitIndexView(view))
         /\ T!ReorderedIndexView(view).positions = FALSE
         /\ T!ReorderedIndexView(view).postings = T!Renumbered(view.postings)
         /\ view.lengths # Absent => T!ReorderedIndexView(view).lengths = T!Renumbered(view.lengths)
<1>1. Seen(T!ReorderedIndexView(view))
  BY RenumberedFacts DEF T!ReorderedIndexView, Seen
<1>. QED
  BY <1>1 DEF T!ReorderedIndexView, T!SplitIndexView, Seen

\* What DocMetadata is saved as.
LengthFiles == {"lengths", "lengthsInfo"}

\* Lengths are written, if there are some, and nothing else.
LEMMA SaveLengthsFacts ==
  ASSUME NEW to \in Targets, NEW level \in T!Levels,
         NEW lengths \in T!Contents \cup {Absent}
  PROVE  LET path == <<to, level>>
             p == T!SaveLengths(path, lengths)
         IN /\ p \in Seq(In(path, LengthFiles))
            /\ lengths # Absent =>
                 Ends(p, T!Write(path, "lengths", lengths))
                   /\ Ends(p, T!Write(path, "lengthsInfo", "information"))
<1>. DEFINE path == <<to, level>>
            W == In(path, LengthFiles)
            wl == T!Write(path, "lengths", lengths)
            wi == T!Write(path, "lengthsInfo", "information")
            p == T!Rewrite(path, "lengths", lengths)
            q == T!Rewrite(path, "lengthsInfo", "information")
<1>1. CASE lengths = Absent
  BY <1>1 DEF T!SaveLengths
<1>2. CASE lengths # Absent
  <2>1. \A file \in LengthFiles, content \in Written :
          Proper(file, content) => T!Write(path, file, content) \in W
    BY InFacts DEF LengthFiles, Names
  <2>2. lengths \in Written /\ Short \in Written /\ "information" \in Written
    BY DEF Written
  <2>3. /\ \A file \in LengthFiles : Proper(file, Short)
        /\ Proper("lengths", lengths) /\ Proper("lengthsInfo", "information")
    BY <2>2 DEF Proper, LengthFiles
  <2>4. /\ wl \in W /\ wi \in W
        /\ T!Write(path, "lengths", Short) \in W /\ T!Write(path, "lengthsInfo", Short) \in W
    BY <2>1, <2>2, <2>3 DEF LengthFiles
  <2>5. p \in Seq(W) /\ q \in Seq(W) /\ Ends(p, wl) /\ Ends(q, wi)
    BY <2>4, TruncatedFirst
  <2>6. \A i \in DOMAIN q : ~Same(q[i], wl)
    BY DEF T!Rewrite, Same, T!Write
  <2>. HIDE DEF W, wl, wi, p, q
  <2>7. p \o q \in Seq(W) /\ Ends(p \o q, wl) /\ Ends(p \o q, wi)
    BY <2>5, <2>6, EndsBefore, EndsAfter, ConcatFacts
  <2>8. T!SaveLengths(path, lengths) = p \o q
    BY <1>2 DEF T!SaveLengths, p, q
  <2>. DEFINE r == T!SaveLengths(path, lengths)
  <2>9. r \in Seq(W) /\ Ends(r, wl) /\ Ends(r, wi)
    BY <2>7, <2>8
  <2>. HIDE DEF r
  <2>. QED
    BY <2>9 DEF r, W, wl, wi
<1>. QED
  BY <1>1, <1>2

\* What a reordering writes after its sink.
ReorderFiles == LengthFiles \cup {"map"}

\* A reordering writes the lengths of its view.
LEMMA AfterReorderFacts ==
  ASSUME NEW to \in Targets, NEW level \in T!Levels, NEW view, Seen(view)
  PROVE  LET path == <<to, level>>
             p == T!AfterReorder(path, view)
             lengths == T!ReorderedIndexView(view).lengths
         IN /\ p \in Seq(In(path, ReorderFiles))
            /\ lengths # Absent =>
                 Ends(p, T!Write(path, "lengths", lengths))
                   /\ Ends(p, T!Write(path, "lengthsInfo", "information"))
<1>. DEFINE path == <<to, level>>
            W == In(path, ReorderFiles)
            lengths == T!ReorderedIndexView(view).lengths
            wl == T!Write(path, "lengths", lengths)
            wi == T!Write(path, "lengthsInfo", "information")
            p == T!SaveLengths(path, lengths)
            q == T!Rewrite(path, "map", Order)
<1>1. lengths \in T!Contents \cup {Absent}
  BY ViewFacts DEF Seen
<1>. HIDE DEF lengths
<1>2. /\ p \in Seq(In(path, LengthFiles))
      /\ lengths # Absent => Ends(p, wl) /\ Ends(p, wi)
  BY <1>1, SaveLengthsFacts
<1>3. p \in Seq(W)
  BY <1>2, SeqGrows, InGrows DEF ReorderFiles
<1>4. T!Write(path, "map", Short) \in W /\ T!Write(path, "map", Order) \in W
  <2>1. Short \in Written /\ Order \in Written
    BY DEF Written
  <2>2. Proper("map", Short) /\ Proper("map", Order)
    BY DEF Proper
  <2>. QED
    BY <2>1, <2>2, InFacts DEF ReorderFiles, LengthFiles, Names
<1>5. q \in Seq(W)
  BY <1>4, TruncatedFirst
<1>6. \A i \in DOMAIN q : ~Same(q[i], wl) /\ ~Same(q[i], wi)
  BY DEF T!Rewrite, Same, T!Write
<1>7. T!AfterReorder(path, view) = p \o q
  BY DEF T!AfterReorder, lengths
<1>. HIDE DEF W, p, q, wl, wi
<1>. DEFINE r == T!AfterReorder(path, view)
<1>8. p \o q \in Seq(W) /\ (lengths # Absent => Ends(p \o q, wl) /\ Ends(p \o q, wi))
  BY <1>2, <1>3, <1>5, <1>6, EndsBefore, ConcatFacts
<1>9. r \in Seq(W) /\ (lengths # Absent => Ends(r, wl) /\ Ends(r, wi))
  BY <1>7, <1>8
<1>. HIDE DEF r
<1>. QED
  BY <1>9 DEF r, W, wl, wi, lengths

\* What a split writes after its sink.
SplitFiles == {"manifest", "cbor"}

\* A split writes what the directory is opened as.
LEMMA AfterSplitFacts ==
  ASSUME NEW to \in Targets, NEW level \in T!Levels
  PROVE  LET path == <<to, level>>
             p == T!AfterSplit(path)
         IN /\ p \in Seq(In(path, SplitFiles))
            /\ Ends(p, T!Write(path, "manifest", "split"))
            /\ Ends(p, T!Write(path, "cbor", "split"))
<1>. DEFINE path == <<to, level>>
            W == In(path, SplitFiles)
            wm == T!Write(path, "manifest", "split")
            wc == T!Write(path, "cbor", "split")
            p == T!Rewrite(path, "manifest", "split")
            q == T!Rewrite(path, "cbor", "split")
<1>1. \A file \in SplitFiles, content \in Written :
        Proper(file, content) => T!Write(path, file, content) \in W
  BY InFacts DEF SplitFiles, Names
<1>2. Short \in Written /\ "split" \in Written
  BY DEF Written
<1>3. \A file \in SplitFiles : Proper(file, Short) /\ Proper(file, "split")
  BY DEF Proper, SplitFiles
<1>4. /\ wm \in W /\ wc \in W
      /\ T!Write(path, "manifest", Short) \in W /\ T!Write(path, "cbor", Short) \in W
  BY <1>1, <1>2, <1>3 DEF SplitFiles
<1>5. p \in Seq(W) /\ q \in Seq(W) /\ Ends(p, wm) /\ Ends(q, wc)
  BY <1>4, TruncatedFirst
<1>6. \A i \in DOMAIN q : ~Same(q[i], wm)
  BY DEF T!Rewrite, Same, T!Write
<1>7. T!AfterSplit(path) = p \o q
  BY DEF T!AfterSplit
<1>. HIDE DEF W, p, q, wm, wc
<1>. DEFINE r == T!AfterSplit(path)
<1>8. p \o q \in Seq(W) /\ Ends(p \o q, wm) /\ Ends(p \o q, wc)
  BY <1>5, <1>6, EndsBefore, EndsAfter, ConcatFacts
<1>9. r \in Seq(W) /\ Ends(r, wm) /\ Ends(r, wc)
  BY <1>7, <1>8
<1>. HIDE DEF r
<1>. QED
  BY <1>9 DEF r, W, wm, wc

\* The vocabulary: its name, and what is written through it.
VocabFiles == {"vocab", "words"}

\* The vocabulary of an index is linked, or removed and written with its words.
Relinks(writes, to, vocab) ==
  LET top == <<to, "top">>
  IN \/ Without(writes, "words") /\ Ends(writes, T!Write(top, "vocab", vocab))
     \/ ~Without(writes, "words") /\ Ends(writes, T!Write(top, "words", vocab))

\* Words are written, if at all, once the link that was there is gone.
Careful(writes) == Without(writes, "words") \/ Removes(writes)

\* What writes other files before and after changes nothing in that.
LEMMA CarefulConcat ==
  ASSUME NEW W, NEW p \in Seq(W), NEW q \in Seq(W), NEW to, NEW vocab
  PROVE  /\ (\A i \in DOMAIN q : q[i].file \notin VocabFiles) =>
              /\ Careful(p) => Careful(p \o q)
              /\ Relinks(p, to, vocab) => Relinks(p \o q, to, vocab)
         /\ (\A i \in DOMAIN p : p[i].file \notin VocabFiles) =>
              /\ Careful(q) => Careful(p \o q)
              /\ Relinks(q, to, vocab) => Relinks(p \o q, to, vocab)
<1>. DEFINE wv == T!Write(<<to, "top">>, "vocab", vocab)
            ww == T!Write(<<to, "top">>, "words", vocab)
            r == p \o q
<1>0. /\ DOMAIN p = 1 .. Len(p) /\ DOMAIN q = 1 .. Len(q)
      /\ Len(p) \in Nat /\ Len(q) \in Nat
  OBVIOUS
<1>1. /\ DOMAIN r = 1 .. Len(p) + Len(q)
      /\ \A i \in DOMAIN p : i \in DOMAIN r /\ r[i] = p[i]
      /\ \A i \in DOMAIN q : Len(p) + i \in DOMAIN r /\ r[Len(p) + i] = q[i]
      /\ \A i \in DOMAIN r : i \in DOMAIN p \/ (i - Len(p) \in DOMAIN q /\ r[i] = q[i - Len(p)])
  <2>1. DOMAIN r = 1 .. Len(p) + Len(q)
    BY ConcatFacts
  <2>2. \A i \in DOMAIN p : i \in DOMAIN r /\ r[i] = p[i]
    BY <2>1, <1>0, ConcatFacts
  <2>3. \A i \in DOMAIN q : Len(p) + i \in DOMAIN r /\ r[Len(p) + i] = q[i]
    BY <2>1, <1>0, ConcatFacts
  <2>4. ASSUME NEW i \in DOMAIN r, i \notin DOMAIN p
        PROVE  i - Len(p) \in DOMAIN q /\ r[i] = q[i - Len(p)]
    <3>1. i \in Len(p) + 1 .. Len(p) + Len(q)
      BY <2>4, <2>1, <1>0
    <3>. QED
      BY <3>1, ConcatFacts
  <2>. QED
    BY <2>1, <2>2, <2>3, <2>4
<1>. HIDE DEF r
<1>2. Without(r, "words") <=> Without(p, "words") /\ Without(q, "words")
  <2>1. ASSUME Without(r, "words")
        PROVE  Without(p, "words") /\ Without(q, "words")
    BY <2>1, <1>1 DEF Without
  <2>2. ASSUME Without(p, "words"), Without(q, "words")
        PROVE  Without(r, "words")
    BY <2>2, <1>1 DEF Without
  <2>. QED
    BY <2>1, <2>2
<1>3. wv.file = "vocab" /\ ww.file = "words"
  BY DEF T!Write
<1>4. ASSUME \A i \in DOMAIN q : q[i].file \notin VocabFiles
      PROVE  /\ Careful(p) => Careful(p \o q)
             /\ Relinks(p, to, vocab) => Relinks(p \o q, to, vocab)
  <2>1. Without(q, "words")
    BY <1>4 DEF Without, VocabFiles
  <2>2. ASSUME Removes(p)
        PROVE  Removes(r)
    <3>1. PICK n \in DOMAIN p :
            /\ p[n].file = "vocab" /\ p[n].content = Absent
            /\ \A i \in DOMAIN p : /\ p[i].file = "vocab" => i = n
                                   /\ p[i].file = "words" => i > n
      BY <2>2 DEF Removes
    <3>2. ASSUME NEW i \in DOMAIN r, r[i].file \in VocabFiles
          PROVE  i \in DOMAIN p /\ r[i] = p[i]
      BY <3>2, <1>1, <1>4
    <3>3. n \in DOMAIN r /\ r[n] = p[n]
      BY <1>1
    <3>4. \A i \in DOMAIN r : /\ r[i].file = "vocab" => i = n
                              /\ r[i].file = "words" => i > n
      BY <3>1, <3>2 DEF VocabFiles
    <3>. QED
      BY <3>1, <3>3, <3>4 DEF Removes
  <2>3. Careful(p) => Careful(r)
    BY <2>1, <2>2, <1>2 DEF Careful
  <2>4. \A i \in DOMAIN q : ~Same(q[i], wv) /\ ~Same(q[i], ww)
    BY <1>3, <1>4 DEF Same, VocabFiles
  <2>5. (Ends(p, wv) => Ends(r, wv)) /\ (Ends(p, ww) => Ends(r, ww))
    BY <2>4, EndsBefore DEF r
  <2>6. Relinks(p, to, vocab) => Relinks(r, to, vocab)
    BY <2>1, <2>5, <1>2 DEF Relinks
  <2>. QED
    BY <2>3, <2>6 DEF r
<1>5. ASSUME \A i \in DOMAIN p : p[i].file \notin VocabFiles
      PROVE  /\ Careful(q) => Careful(p \o q)
             /\ Relinks(q, to, vocab) => Relinks(p \o q, to, vocab)
  <2>1. Without(p, "words")
    BY <1>5 DEF Without, VocabFiles
  <2>2. ASSUME Removes(q)
        PROVE  Removes(r)
    <3>1. PICK n \in DOMAIN q :
            /\ q[n].file = "vocab" /\ q[n].content = Absent
            /\ \A i \in DOMAIN q : /\ q[i].file = "vocab" => i = n
                                   /\ q[i].file = "words" => i > n
      BY <2>2 DEF Removes
    <3>2. ASSUME NEW i \in DOMAIN r, r[i].file \in VocabFiles
          PROVE  i - Len(p) \in DOMAIN q /\ r[i] = q[i - Len(p)]
      BY <3>2, <1>1, <1>5
    <3>3. Len(p) + n \in DOMAIN r /\ r[Len(p) + n] = q[n]
      BY <1>1
    <3>4. ASSUME NEW i \in DOMAIN r
          PROVE  /\ r[i].file = "vocab" => i = Len(p) + n
                 /\ r[i].file = "words" => i > Len(p) + n
      <4>1. CASE r[i].file = "vocab"
        <5>1. i - Len(p) \in DOMAIN q /\ r[i] = q[i - Len(p)]
          BY <4>1, <3>2 DEF VocabFiles
        <5>2. i - Len(p) = n
          BY <4>1, <5>1, <3>1
        <5>. QED
          BY <4>1, <5>2, <1>0, <1>1
      <4>2. CASE r[i].file = "words"
        <5>1. i - Len(p) \in DOMAIN q /\ r[i] = q[i - Len(p)]
          BY <4>2, <3>2 DEF VocabFiles
        <5>2. i - Len(p) > n
          BY <4>2, <5>1, <3>1
        <5>. QED
          BY <4>2, <5>2, <1>0, <1>1
      <4>. QED
        BY <4>1, <4>2
    <3>. QED
      BY <3>1, <3>3, <3>4 DEF Removes
  <2>3. Careful(q) => Careful(r)
    BY <2>1, <2>2, <1>2 DEF Careful
  <2>4. (Ends(q, wv) => Ends(r, wv)) /\ (Ends(q, ww) => Ends(r, ww))
    BY EndsAfter DEF r
  <2>5. Relinks(q, to, vocab) => Relinks(r, to, vocab)
    BY <2>1, <2>4, <1>2 DEF Relinks
  <2>. QED
    BY <2>3, <2>5 DEF r
<1>. QED
  BY <1>4, <1>5

\* The vocabulary a target has is removed before another is linked or copied.
LEMMA LinkFacts ==
  ASSUME NEW to \in Targets, NEW vocab \in T!Dirs, NEW linked \in BOOLEAN
  PROVE  LET top == <<to, "top">>
             p == T!link_or_copy(top, vocab, linked)
         IN /\ p \in Seq(In(top, VocabFiles))
            /\ Careful(p) /\ Relinks(p, to, vocab)
<1>. DEFINE top == <<to, "top">>
            W == In(top, VocabFiles)
            p == T!link_or_copy(top, vocab, linked)
            w0 == T!Write(top, "vocab", Absent)
            w1 == T!Write(top, "vocab", vocab)
            w2 == T!Write(top, "words", Short)
            w3 == T!Write(top, "words", vocab)
<1>1. w0 \in W /\ w1 \in W /\ w2 \in W /\ w3 \in W
  <2>1. Absent \in Written /\ Short \in Written /\ vocab \in Written
    BY DEF Written
  <2>2. /\ Proper("vocab", Absent) /\ Proper("vocab", vocab)
        /\ Proper("words", Short) /\ Proper("words", vocab)
    BY DEF Proper
  <2>3. /\ "top" \in T!Levels /\ VocabFiles \in SUBSET (Names \cup {"words"})
        /\ "information" \notin VocabFiles
    BY DEF T!Levels, VocabFiles, Names
  <2>. QED
    BY <2>1, <2>2, <2>3, InFacts DEF VocabFiles
<1>2. /\ w0.file = "vocab" /\ w1.file = "vocab" /\ w2.file = "words" /\ w3.file = "words"
      /\ w0.content = Absent
  BY DEF T!Write
<1>. HIDE DEF W, w0, w1, w2, w3
<1>3. CASE linked
  <2>1. p = <<w0>> \o <<w1>>
    BY <1>3 DEF T!link_or_copy, w0, w1
  <2>. HIDE DEF p
  <2>2. p \in Seq(W)
    BY <2>1, <1>1
  <2>3. Len(p) = 2 /\ DOMAIN p = 1 .. 2 /\ p[1] = w0 /\ p[2] = w1
    BY <2>1
  <2>4. Without(p, "words")
    BY <2>3, <1>2 DEF Without
  <2>5. Ends(p, w1)
    BY <2>3 DEF Ends
  <2>6. Relinks(p, to, vocab)
    BY <2>4, <2>5 DEF Relinks, w1
  <2>. QED
    BY <2>2, <2>4, <2>6 DEF Careful, p, W
<1>4. CASE ~linked
  <2>1. p = <<w0>> \o <<w2, w3>>
    BY <1>4 DEF T!link_or_copy, T!Rewrite, w0, w2, w3
  <2>. HIDE DEF p
  <2>2. p \in Seq(W)
    BY <2>1, <1>1
  <2>3. Len(p) = 3 /\ DOMAIN p = 1 .. 3 /\ p[1] = w0 /\ p[2] = w2 /\ p[3] = w3
    BY <2>1
  <2>4. ~Without(p, "words")
    BY <2>3, <1>2 DEF Without
  <2>5. Ends(p, w3)
    BY <2>3 DEF Ends
  <2>6. Relinks(p, to, vocab)
    BY <2>4, <2>5 DEF Relinks, w3
  <2>7. Removes(p)
    BY <2>3, <1>2 DEF Removes
  <2>. QED
    BY <2>2, <2>6, <2>7 DEF Careful, p, W
<1>. QED
  BY <1>3, <1>4

\* What save_vocab_and_analyzer writes, and save_auxiliary.
SavedFiles == VocabFiles \cup {"analyzer"}
AuxiliaryFiles == LengthFiles \cup SavedFiles

\* What a call copies beside what a transform writes.
LEMMA SaveVocabFacts ==
  ASSUME NEW to \in Targets, NEW index, NEW linked \in BOOLEAN,
         index.vocab \in T!Dirs \cup {Absent}, index.analyzer \in T!Dirs \cup {Absent}
  PROVE  LET top == <<to, "top">>
             p == T!save_vocab_and_analyzer(top, index, linked)
         IN /\ p \in Seq(In(top, SavedFiles))
            /\ Careful(p)
            /\ index.analyzer # Absent /\ T!There(index.vocab) => Relinks(p, to, index.vocab)
<1>. DEFINE top == <<to, "top">>
            W == In(top, SavedFiles)
            p == T!save_vocab_and_analyzer(top, index, linked)
            w0 == T!Write(top, "vocab", Absent)
            q == IF T!There(index.vocab) THEN T!link_or_copy(top, index.vocab, linked) ELSE <<w0>>
            r == T!Rewrite(top, "analyzer", index.analyzer)
<1>1. CASE index.analyzer = Absent
  <2>1. p = <<>>
    BY <1>1 DEF T!save_vocab_and_analyzer
  <2>2. p \in Seq(W) /\ Without(p, "words")
    BY <2>1 DEF Without
  <2>. QED
    BY <2>2, <1>1 DEF Careful
<1>2. CASE index.analyzer # Absent
  <2>1. p = q \o r
    BY <1>2 DEF T!save_vocab_and_analyzer
  <2>2. q \in Seq(W) /\ Careful(q) /\ (T!There(index.vocab) => Relinks(q, to, index.vocab))
    <3>1. CASE T!There(index.vocab)
      <4>1. index.vocab \in T!Dirs
        BY <3>1 DEF T!There
      <4>2. q = T!link_or_copy(top, index.vocab, linked)
        BY <3>1
      <4>3. VocabFiles \subseteq SavedFiles
        BY DEF SavedFiles
      <4>. HIDE DEF q
      <4>4. q \in Seq(In(top, VocabFiles)) /\ Careful(q) /\ Relinks(q, to, index.vocab)
        BY <4>1, <4>2, LinkFacts
      <4>. QED
        BY <4>3, <4>4, SeqGrows, InGrows
    <3>2. CASE ~T!There(index.vocab)
      <4>1. w0 \in W
        <5>1. Absent \in Written /\ Proper("vocab", Absent)
          BY DEF Written, Proper
        <5>2. /\ "top" \in T!Levels /\ SavedFiles \in SUBSET (Names \cup {"words"})
              /\ "information" \notin SavedFiles /\ "vocab" \in SavedFiles
          BY DEF T!Levels, SavedFiles, VocabFiles, Names
        <5>. QED
          BY <5>1, <5>2, InFacts
      <4>2. w0.file = "vocab"
        BY DEF T!Write
      <4>. HIDE DEF w0, W
      <4>3. q = <<w0>>
        BY <3>2
      <4>4. q \in Seq(W) /\ Without(q, "words")
        BY <4>1, <4>2, <4>3 DEF Without
      <4>. QED
        BY <3>2, <4>4 DEF Careful
    <3>. QED
      BY <3>1, <3>2
  <2>3. r \in Seq(W)
    <3>1. Short \in Written /\ index.analyzer \in Written
      BY DEF Written
    <3>2. Proper("analyzer", Short) /\ Proper("analyzer", index.analyzer)
      BY DEF Proper
    <3>3. /\ "top" \in T!Levels /\ SavedFiles \in SUBSET (Names \cup {"words"})
          /\ "information" \notin SavedFiles /\ "analyzer" \in SavedFiles
      BY DEF T!Levels, SavedFiles, VocabFiles, Names
    <3>4. T!Write(top, "analyzer", Short) \in W /\ T!Write(top, "analyzer", index.analyzer) \in W
      BY <3>1, <3>2, <3>3, InFacts
    <3>. QED
      BY <3>4, TruncatedFirst
  <2>4. \A i \in DOMAIN r : r[i].file \notin VocabFiles
    BY DEF T!Rewrite, T!Write, VocabFiles
  <2>. HIDE DEF p, q, r, W
  <2>5. /\ q \o r \in Seq(W) /\ Careful(q \o r)
        /\ (T!There(index.vocab) => Relinks(q \o r, to, index.vocab))
    BY <2>2, <2>3, <2>4, ConcatFacts, CarefulConcat
  <2>6. p \in Seq(W) /\ Careful(p) /\ (T!There(index.vocab) => Relinks(p, to, index.vocab))
    BY <2>1, <2>5
  <2>. QED
    BY <2>6 DEF p, W
<1>. QED
  BY <1>1, <1>2

\* What a call copies after its transform, and where.
LEMMA AuxiliaryFacts ==
  ASSUME NEW to \in Targets, NEW index, NEW linked \in BOOLEAN, NEW call \in T!Calls,
         index.vocab \in T!Dirs \cup {Absent}, index.analyzer \in T!Dirs \cup {Absent},
         index.lengths \in T!Contents \cup {Absent}
  PROVE  LET top == <<to, "top">>
             p == T!Auxiliary(call, top, index, linked)
         IN /\ p \in Seq(In(top, IF call = "compress" THEN AuxiliaryFiles ELSE SavedFiles))
            /\ Careful(p)
            /\ call # "process" /\ index.analyzer # Absent /\ T!There(index.vocab)
                 => Relinks(p, to, index.vocab)
            /\ call = "compress" /\ index.lengths # Absent
                 => /\ Ends(p, T!Write(top, "lengths", index.lengths))
                    /\ Ends(p, T!Write(top, "lengthsInfo", "information"))
<1>. DEFINE top == <<to, "top">>
            p == T!Auxiliary(call, top, index, linked)
            q == T!SaveLengths(top, index.lengths)
            r == T!save_vocab_and_analyzer(top, index, linked)
            W == In(top, AuxiliaryFiles)
            wl == T!Write(top, "lengths", index.lengths)
            wi == T!Write(top, "lengthsInfo", "information")
<1>1. CASE call = "process"
  <2>1. p = <<>>
    BY <1>1 DEF T!Auxiliary
  <2>2. p \in Seq(In(top, SavedFiles)) /\ Without(p, "words")
    BY <2>1 DEF Without
  <2>. QED
    BY <2>2, <1>1 DEF Careful
<1>2. CASE call = "reorder"
  <2>1. p = r
    BY <1>2 DEF T!Auxiliary
  <2>. QED
    BY <2>1, <1>2, SaveVocabFacts
<1>3. CASE call = "compress"
  <2>1. p = q \o r
    BY <1>3 DEF T!Auxiliary, T!save_auxiliary
  <2>2. /\ q \in Seq(In(top, LengthFiles))
        /\ index.lengths # Absent => Ends(q, wl) /\ Ends(q, wi)
    BY SaveLengthsFacts DEF T!Levels
  <2>3. /\ r \in Seq(In(top, SavedFiles)) /\ Careful(r)
        /\ index.analyzer # Absent /\ T!There(index.vocab) => Relinks(r, to, index.vocab)
    BY SaveVocabFacts
  <2>4. q \in Seq(W) /\ r \in Seq(W)
    BY <2>2, <2>3, SeqGrows, InGrows DEF AuxiliaryFiles
  <2>5. \A i \in DOMAIN q : q[i].file \notin VocabFiles
    <3>1. \A w \in In(top, LengthFiles) : w.file \notin VocabFiles
      BY DEF In, LengthFiles, VocabFiles
    <3>. HIDE DEF q
    <3>. QED
      BY <2>2, <3>1
  <2>6. \A i \in DOMAIN r : ~Same(r[i], wl) /\ ~Same(r[i], wi)
    <3>1. wl.file \notin SavedFiles /\ wi.file \notin SavedFiles
      BY DEF T!Write, SavedFiles, VocabFiles
    <3>. HIDE DEF r, wl, wi
    <3>. QED
      BY <2>3, <3>1, Apart
  <2>. HIDE DEF p, q, r, W, wl, wi
  <2>7. /\ q \o r \in Seq(W) /\ Careful(q \o r)
        /\ index.analyzer # Absent /\ T!There(index.vocab) => Relinks(q \o r, to, index.vocab)
    BY <2>3, <2>4, <2>5, ConcatFacts, CarefulConcat
  <2>8. index.lengths # Absent => Ends(q \o r, wl) /\ Ends(q \o r, wi)
    BY <2>2, <2>4, <2>6, EndsBefore
  <2>9. /\ p \in Seq(W) /\ Careful(p)
        /\ index.analyzer # Absent /\ T!There(index.vocab) => Relinks(p, to, index.vocab)
        /\ index.lengths # Absent => Ends(p, wl) /\ Ends(p, wi)
    BY <2>1, <2>7, <2>8
  <2>. QED
    BY <2>9, <1>3 DEF p, W, wl, wi
<1>. QED
  BY <1>1, <1>2, <1>3 DEF T!Calls

-----------------------------------------------------------------------------
(***************************************************************************)
(* Pipelines, and what a call owes                                         *)
(***************************************************************************)
\* What each pipeline makes of a view, and where it writes what.
Shaped(to, pipeline, view, level, final, second, first) ==
  LET last == Len(pipeline) + 1
  IN /\ T!PathOf(to, pipeline, last) = <<to, level>>
     /\ T!ViewAt(pipeline, last, view) = final
     /\ T!After(to, pipeline, 2, view) = second
     /\ T!After(to, pipeline, 1, view) = first

\* The pipelines one by one.
LEMMA Shapes ==
  ASSUME NEW to, NEW view
  PROVE  LET top == <<to, "top">>
             inner == <<to, "inner">>
             reordered == T!ReorderedIndexView(view)
             split == T!SplitIndexView(view)
         IN /\ Shaped(to, <<>>, view, "top", view, <<>>, <<>>)
            /\ Shaped(to, <<"reorder">>, view, "top", reordered, <<>>,
                      T!AfterReorder(top, view))
            /\ Shaped(to, <<"split">>, view, "inner", split, <<>>, T!AfterSplit(top))
            /\ Shaped(to, <<"reorder", "split">>, view, "inner", T!SplitIndexView(reordered),
                      T!AfterSplit(top), T!AfterReorder(top, view))
            /\ Shaped(to, <<"split", "reorder">>, view, "inner", T!ReorderedIndexView(split),
                      T!AfterReorder(inner, split), T!AfterSplit(top))
<1>. DEFINE top == <<to, "top">>
            inner == <<to, "inner">>
<1>1. \A pipeline : /\ T!ViewAt(pipeline, 1, view) = view
                    /\ T!PathOf(to, pipeline, 1) = top
  BY DEF T!ViewAt, T!PathOf
<1>2. Shaped(to, <<>>, view, "top", view, <<>>, <<>>)
  <2>. DEFINE p == <<>>
  <2>1. Len(p) = 0
    OBVIOUS
  <2>. HIDE DEF p
  <2>2. T!After(to, p, 1, view) = <<>> /\ T!After(to, p, 2, view) = <<>>
    BY <2>1 DEF T!After
  <2>. QED
    BY <1>1, <2>1, <2>2 DEF Shaped, p
<1>3. Shaped(to, <<"reorder">>, view, "top", T!ReorderedIndexView(view), <<>>,
             T!AfterReorder(top, view))
  <2>. DEFINE p == <<"reorder">>
  <2>1. Len(p) = 1 /\ p[1] = "reorder"
    OBVIOUS
  <2>. HIDE DEF p
  <2>2. /\ T!After(to, p, 1, view) = T!AfterReorder(top, view)
        /\ T!After(to, p, 2, view) = <<>>
    BY <1>1, <2>1 DEF T!After
  <2>3. T!PathOf(to, p, 2) = top
    BY <2>1 DEF T!PathOf
  <2>4. T!ViewAt(p, 2, view) = T!ReorderedIndexView(view)
    BY <2>1 DEF T!ViewAt, T!Through
  <2>. QED
    BY <2>1, <2>2, <2>3, <2>4 DEF Shaped, p
<1>4. Shaped(to, <<"split">>, view, "inner", T!SplitIndexView(view), <<>>, T!AfterSplit(top))
  <2>. DEFINE p == <<"split">>
  <2>1. Len(p) = 1 /\ p[1] = "split"
    OBVIOUS
  <2>. HIDE DEF p
  <2>2. T!After(to, p, 1, view) = T!AfterSplit(top) /\ T!After(to, p, 2, view) = <<>>
    BY <1>1, <2>1 DEF T!After
  <2>3. T!PathOf(to, p, 2) = inner
    BY <2>1 DEF T!PathOf
  <2>4. T!ViewAt(p, 2, view) = T!SplitIndexView(view)
    BY <2>1 DEF T!ViewAt, T!Through
  <2>. QED
    BY <2>1, <2>2, <2>3, <2>4 DEF Shaped, p
<1>5. Shaped(to, <<"reorder", "split">>, view, "inner",
             T!SplitIndexView(T!ReorderedIndexView(view)), T!AfterSplit(top),
             T!AfterReorder(top, view))
  <2>. DEFINE p == <<"reorder", "split">>
  <2>1. Len(p) = 2 /\ p[1] = "reorder" /\ p[2] = "split"
    OBVIOUS
  <2>. HIDE DEF p
  <2>2. T!PathOf(to, p, 2) = top /\ T!PathOf(to, p, 3) = inner
    BY <2>1 DEF T!PathOf
  <2>3. T!After(to, p, 1, view) = T!AfterReorder(top, view)
    BY <1>1, <2>1 DEF T!After
  <2>4. T!After(to, p, 2, view) = T!AfterSplit(top)
    BY <2>1, <2>2 DEF T!After
  <2>5. T!ViewAt(p, 3, view) = T!SplitIndexView(T!ReorderedIndexView(view))
    BY <2>1 DEF T!ViewAt, T!Through
  <2>. QED
    BY <2>1, <2>2, <2>3, <2>4, <2>5 DEF Shaped, p
<1>6. Shaped(to, <<"split", "reorder">>, view, "inner",
             T!ReorderedIndexView(T!SplitIndexView(view)),
             T!AfterReorder(inner, T!SplitIndexView(view)), T!AfterSplit(top))
  <2>. DEFINE p == <<"split", "reorder">>
  <2>1. Len(p) = 2 /\ p[1] = "split" /\ p[2] = "reorder"
    OBVIOUS
  <2>. HIDE DEF p
  <2>2. T!PathOf(to, p, 2) = inner /\ T!PathOf(to, p, 3) = inner
    BY <2>1 DEF T!PathOf
  <2>3. T!After(to, p, 1, view) = T!AfterSplit(top)
    BY <1>1, <2>1 DEF T!After
  <2>4. T!ViewAt(p, 2, view) = T!SplitIndexView(view)
    BY <2>1 DEF T!ViewAt, T!Through
  <2>5. T!After(to, p, 2, view) = T!AfterReorder(inner, T!SplitIndexView(view))
    BY <2>1, <2>2, <2>4 DEF T!After
  <2>6. T!ViewAt(p, 3, view) = T!ReorderedIndexView(T!SplitIndexView(view))
    BY <2>1 DEF T!ViewAt, T!Through
  <2>. QED
    BY <2>1, <2>2, <2>3, <2>5, <2>6 DEF Shaped, p
<1>. QED
  BY <1>2, <1>3, <1>4, <1>5, <1>6

\* What is written around a compression leaves what it wrote.
Around(to, path) ==
  {w \in WritesTo(to) : (w.path = path => w.file \notin DataFiles) /\ w.file \notin VocabFiles}

\* The last writes of the files that hold the postings of a view.
HasIndex(writes, path, view) ==
  /\ Ends(writes, T!Write(path, "manifest", "compressed"))
  /\ Ends(writes, T!Write(path, "cbor", "compressed"))
  /\ Ends(writes, T!Write(path, "bin", [postings |-> view.postings, positions |-> view.positions]))
  /\ Ends(writes, T!Write(path, "docids", view.postings))
  /\ Ends(writes, T!Write(path, "impacts", view.postings))
  /\ view.positions => Ends(writes, T!Write(path, "positions", view.postings))

\* The parts of a pipeline together write what it owes.
LEMMA Assembled ==
  ASSUME NEW to \in Targets, NEW pipeline \in T!Pipelines, NEW view,
         NEW level \in T!Levels, NEW final, NEW second, NEW first,
         Shaped(to, pipeline, view, level, final, second, first), Seen(final),
         second \in Seq(Around(to, <<to, level>>)),
         first \in Seq(Around(to, <<to, level>>))
  PROVE  LET p == T!process(to, pipeline, view)
             path == <<to, level>>
         IN /\ p \in Seq(WritesTo(to)) /\ \A i \in DOMAIN p : p[i].file \notin VocabFiles
            /\ \A w : Ends(first, w) => Ends(p, w)
            /\ \A w : Ends(second, w) /\ (\A i \in DOMAIN first : ~Same(first[i], w)) => Ends(p, w)
            /\ HasIndex(p, path, final)
<1>. DEFINE path == <<to, level>>
            c == T!Compress(path, final)
            p == T!process(to, pipeline, view)
            Others == {w \in WritesTo(to) : w.file \notin VocabFiles}
<1>1. p = (c \o second) \o first
  BY DEF T!process, Shaped
<1>2. c \in Seq(In(path, DataFiles))
  BY CompressFacts
<1>3. In(path, DataFiles) \subseteq Others /\ Around(to, path) \subseteq Others
  BY DEF In, Around, DataFiles, VocabFiles
<1>4. c \in Seq(Others) /\ second \in Seq(Others) /\ first \in Seq(Others)
  <2>. HIDE DEF c, Others
  <2>. QED
    BY <1>2, <1>3, SeqGrows
<1>5. ASSUME NEW w
      PROVE  Ends(first, w) => Ends((c \o second) \o first, w)
  <2>. HIDE DEF c, Others
  <2>. QED
    BY <1>4, EndsAfter, ConcatFacts
<1>6. ASSUME NEW w, \A i \in DOMAIN first : ~Same(first[i], w)
      PROVE  Ends(second, w) => Ends((c \o second) \o first, w)
  <2>. HIDE DEF c, Others
  <2>1. Ends(second, w) => Ends(c \o second, w)
    BY <1>4, EndsAfter
  <2>. QED
    BY <1>4, <1>6, <2>1, EndsBefore, ConcatFacts
<1>7. ASSUME NEW w, w.path = path, w.file \in DataFiles
      PROVE  Ends(c, w) => Ends((c \o second) \o first, w)
  <2>. HIDE DEF c, Others
  <2>1. \A v \in Around(to, path) : ~Same(v, w)
    BY <1>7 DEF Around, Same
  <2>2. /\ \A i \in DOMAIN second : ~Same(second[i], w)
        /\ \A i \in DOMAIN first : ~Same(first[i], w)
    BY <2>1
  <2>3. Ends(c, w) => Ends(c \o second, w)
    BY <1>4, <2>2, EndsBefore
  <2>. QED
    BY <1>4, <2>2, <2>3, EndsBefore, ConcatFacts
<1>8. (c \o second) \o first \in Seq(Others)
  <2>. HIDE DEF c, Others
  <2>. QED
    BY <1>4, ConcatFacts
<1>9. p \in Seq(WritesTo(to)) /\ \A i \in DOMAIN p : p[i].file \notin VocabFiles
  <2>1. Others \subseteq WritesTo(to) /\ \A w \in Others : w.file \notin VocabFiles
    OBVIOUS
  <2>2. p \in Seq(Others)
    BY <1>1, <1>8
  <2>. HIDE DEF p, Others
  <2>. QED
    BY <2>1, <2>2, SeqGrows
<1>. DEFINE bin == [postings |-> final.postings, positions |-> final.positions]
<1>10. /\ Ends(c, T!Write(path, "manifest", "compressed"))
       /\ Ends(c, T!Write(path, "cbor", "compressed"))
       /\ Ends(c, T!Write(path, "bin", bin))
       /\ Ends(c, T!Write(path, "docids", final.postings))
       /\ Ends(c, T!Write(path, "impacts", final.postings))
       /\ final.positions => Ends(c, T!Write(path, "positions", final.postings))
  BY CompressFacts
<1>11. \A file \in DataFiles : \A content :
         Ends(c, T!Write(path, file, content)) => Ends(p, T!Write(path, file, content))
  <2>1. \A file : \A content :
          T!Write(path, file, content).path = path /\ T!Write(path, file, content).file = file
    BY DEF T!Write
  <2>. HIDE DEF c, p
  <2>. QED
    BY <1>1, <1>7, <2>1
<1>. HIDE DEF p, c, bin
<1>12. /\ Ends(p, T!Write(path, "manifest", "compressed"))
       /\ Ends(p, T!Write(path, "cbor", "compressed"))
       /\ Ends(p, T!Write(path, "bin", bin))
       /\ Ends(p, T!Write(path, "docids", final.postings))
       /\ Ends(p, T!Write(path, "impacts", final.postings))
       /\ final.positions => Ends(p, T!Write(path, "positions", final.postings))
  BY <1>10, <1>11 DEF DataFiles
<1>13. /\ \A w : Ends(first, w) => Ends(p, w)
       /\ \A w : Ends(second, w) /\ (\A i \in DOMAIN first : ~Same(first[i], w)) => Ends(p, w)
  BY <1>1, <1>5, <1>6
<1>14. HasIndex(p, path, final)
  BY <1>12 DEF HasIndex, bin
<1>. QED
  BY <1>9, <1>13, <1>14 DEF p

\* Reorderings and splits write around the compression they delegate to.
LEMMA AroundFacts ==
  ASSUME NEW to \in Targets, NEW level \in T!Levels
  PROVE  /\ In(<<to, "top">>, SplitFiles) \subseteq Around(to, <<to, "inner">>)
         /\ \A other \in T!Levels :
              In(<<to, level>>, ReorderFiles) \subseteq Around(to, <<to, other>>)
<1>1. \A path \in {to} \X T!Levels : path[1] = to
  OBVIOUS
<1>2. In(<<to, "top">>, SplitFiles) \subseteq Around(to, <<to, "inner">>)
  BY DEF In, Around, SplitFiles, VocabFiles
<1>3. ASSUME NEW other \in T!Levels
      PROVE  In(<<to, level>>, ReorderFiles) \subseteq Around(to, <<to, other>>)
  BY DEF In, Around, ReorderFiles, LengthFiles, VocabFiles, DataFiles
<1>. QED
  BY <1>2, <1>3

\* What a pipeline writes: the postings of the last view, what a split directory is
\* opened as, and the lengths.
Processed(writes, to, pipeline, view, path, final) ==
  LET top == <<to, "top">>
  IN /\ Seen(final) /\ path \in {top, <<to, "inner">>}
     /\ writes \in Seq(WritesTo(to))
     /\ \A i \in DOMAIN writes : writes[i].file \notin VocabFiles
     /\ HasIndex(writes, path, final)
     /\ path # top => /\ Ends(writes, T!Write(top, "manifest", "split"))
                      /\ Ends(writes, T!Write(top, "cbor", "split"))
     /\ pipeline = <<>> => path = top /\ final = view
     /\ pipeline = <<"reorder">> =>
          /\ path = top /\ final = T!ReorderedIndexView(view)
          /\ view.lengths # Absent =>
               /\ Ends(writes, T!Write(top, "lengths", final.lengths))
               /\ Ends(writes, T!Write(top, "lengthsInfo", "information"))

\* What a transform writes last: the index, its lengths, the manifest of a split.
LEMMA ProcessFacts ==
  ASSUME NEW to \in Targets, NEW pipeline \in T!Pipelines, NEW view, Seen(view)
  PROVE  LET last == Len(pipeline) + 1
         IN Processed(T!process(to, pipeline, view), to, pipeline, view,
                      T!PathOf(to, pipeline, last), T!ViewAt(pipeline, last, view))
<1>. DEFINE top == <<to, "top">>
            inner == <<to, "inner">>
            last == Len(pipeline) + 1
            p == T!process(to, pipeline, view)
            reordered == T!ReorderedIndexView(view)
            split == T!SplitIndexView(view)
            sm == T!Write(top, "manifest", "split")
            sc == T!Write(top, "cbor", "split")
            li == T!Write(top, "lengthsInfo", "information")
            Apiece(level, final) ==
              /\ p \in Seq(WritesTo(to)) /\ \A i \in DOMAIN p : p[i].file \notin VocabFiles
              /\ HasIndex(p, <<to, level>>, final)
<1>0. "top" \in T!Levels /\ "inner" \in T!Levels
  BY DEF T!Levels
<1>1. /\ Seen(reordered) /\ Seen(split) /\ Seen(T!SplitIndexView(reordered))
      /\ Seen(T!ReorderedIndexView(split))
  BY ViewFacts
<1>2. view.lengths # Absent => reordered.lengths # Absent
  <2>1. view.lengths # Absent => reordered.lengths \in T!Contents
    BY ViewFacts, RenumberedFacts DEF Seen
  <2>. QED
    BY <2>1, RewritingAssumption, NoneDiffer
<1>3. /\ T!AfterReorder(top, view) \in Seq(In(top, ReorderFiles))
      /\ reordered.lengths # Absent =>
           /\ Ends(T!AfterReorder(top, view), T!Write(top, "lengths", reordered.lengths))
           /\ Ends(T!AfterReorder(top, view), li)
  BY <1>0, AfterReorderFacts
<1>4. T!AfterReorder(inner, split) \in Seq(In(inner, ReorderFiles))
  BY <1>0, <1>1, AfterReorderFacts
<1>5. /\ T!AfterSplit(top) \in Seq(In(top, SplitFiles)) /\ Ends(T!AfterSplit(top), sm)
      /\ Ends(T!AfterSplit(top), sc)
  BY <1>0, AfterSplitFacts
<1>6. /\ T!AfterReorder(top, view) \in Seq(Around(to, top))
      /\ T!AfterReorder(top, view) \in Seq(Around(to, inner))
      /\ T!AfterReorder(inner, split) \in Seq(Around(to, inner))
      /\ T!AfterSplit(top) \in Seq(Around(to, inner))
  <2>1. /\ In(top, SplitFiles) \subseteq Around(to, inner)
        /\ In(top, ReorderFiles) \subseteq Around(to, top)
        /\ In(top, ReorderFiles) \subseteq Around(to, inner)
        /\ In(inner, ReorderFiles) \subseteq Around(to, inner)
    BY <1>0, AroundFacts
  <2>. QED
    BY <2>1, <1>3, <1>4, <1>5, SeqGrows
<1>7. /\ \A i \in DOMAIN T!AfterReorder(top, view) :
           ~Same(T!AfterReorder(top, view)[i], sm) /\ ~Same(T!AfterReorder(top, view)[i], sc)
  <2>1. sm.file \notin ReorderFiles /\ sc.file \notin ReorderFiles
    BY DEF T!Write, ReorderFiles, LengthFiles
  <2>. HIDE DEF sm, sc
  <2>. QED
    BY <1>3, <2>1, Apart
<1>8. CASE pipeline = <<>>
  <2>1. Shaped(to, pipeline, view, "top", view, <<>>,
               <<>>)
    BY <1>8, Shapes
  <2>2. /\ T!PathOf(to, pipeline, last) = <<to, "top">>
        /\ T!ViewAt(pipeline, last, view) = view
    BY <2>1 DEF Shaped
  <2>3. <<>> \in Seq(Around(to, <<to, "top">>))
    OBVIOUS
  <2>4. Apiece("top", view)
    BY <1>0, <1>1, <1>6, <2>1, <2>3, Assembled
  <2>5. pipeline # <<"reorder">>
    BY <1>8
  <2>6. Processed(p, to, pipeline, view, <<to, "top">>, view)
    BY <1>8, <1>1, <2>4, <2>5 DEF Processed
  <2>. QED
    BY <2>2, <2>6
<1>9. CASE pipeline = <<"reorder">>
  <2>1. Shaped(to, pipeline, view, "top", reordered, <<>>,
               T!AfterReorder(top, view))
    BY <1>9, Shapes
  <2>2. /\ T!PathOf(to, pipeline, last) = <<to, "top">>
        /\ T!ViewAt(pipeline, last, view) = reordered
    BY <2>1 DEF Shaped
  <2>3. <<>> \in Seq(Around(to, <<to, "top">>))
    OBVIOUS
  <2>4. Apiece("top", reordered)
    BY <1>0, <1>1, <1>6, <2>1, <2>3, Assembled
  <2>5. view.lengths # Absent => Ends(p, T!Write(top, "lengths", reordered.lengths)) /\ Ends(p, li)
    <3>1. \A w : Ends(T!AfterReorder(top, view), w) => Ends(p, w)
      BY <1>0, <1>1, <1>6, <2>1, <2>3, Assembled
    <3>. QED
      BY <1>2, <1>3, <3>1
  <2>7. pipeline # <<>>
    BY <1>9
  <2>6. Processed(p, to, pipeline, view, <<to, "top">>, reordered)
    BY <1>9, <1>1, <2>4, <2>5, <2>7 DEF Processed
  <2>. QED
    BY <2>2, <2>6
<1>10. CASE pipeline = <<"split">>
  <2>1. Shaped(to, pipeline, view, "inner", split, <<>>,
               T!AfterSplit(top))
    BY <1>10, Shapes
  <2>2. /\ T!PathOf(to, pipeline, last) = <<to, "inner">>
        /\ T!ViewAt(pipeline, last, view) = split
    BY <2>1 DEF Shaped
  <2>3. <<>> \in Seq(Around(to, <<to, "inner">>))
    OBVIOUS
  <2>4. Apiece("inner", split)
    BY <1>0, <1>1, <1>6, <2>1, <2>3, Assembled
  <2>5. Ends(p, sm) /\ Ends(p, sc)
    <3>1. \A w : Ends(T!AfterSplit(top), w) => Ends(p, w)
      BY <1>0, <1>1, <1>6, <2>1, <2>3, Assembled
    <3>. QED
      BY <1>5, <3>1
  <2>7. pipeline # <<>> /\ pipeline # <<"reorder">>
    BY <1>10
  <2>6. Processed(p, to, pipeline, view, <<to, "inner">>, split)
    BY <1>10, <1>1, <2>4, <2>5, <2>7 DEF Processed
  <2>. QED
    BY <2>2, <2>6
<1>11. CASE pipeline = <<"reorder", "split">>
  <2>1. Shaped(to, pipeline, view, "inner", T!SplitIndexView(reordered), T!AfterSplit(top),
               T!AfterReorder(top, view))
    BY <1>11, Shapes
  <2>2. /\ T!PathOf(to, pipeline, last) = <<to, "inner">>
        /\ T!ViewAt(pipeline, last, view) = T!SplitIndexView(reordered)
    BY <2>1 DEF Shaped
  <2>3. <<>> \in Seq(Around(to, <<to, "inner">>))
    OBVIOUS
  <2>4. Apiece("inner", T!SplitIndexView(reordered))
    BY <1>0, <1>1, <1>6, <2>1, <2>3, Assembled
  <2>5. Ends(p, sm) /\ Ends(p, sc)
    <3>1. \A w : Ends(T!AfterSplit(top), w)
                   /\ (\A i \in DOMAIN T!AfterReorder(top, view) :
                         ~Same(T!AfterReorder(top, view)[i], w))
                 => Ends(p, w)
      BY <1>0, <1>1, <1>6, <2>1, <2>3, Assembled
    <3>. QED
      BY <1>5, <1>7, <3>1
  <2>7. pipeline # <<>> /\ pipeline # <<"reorder">>
    BY <1>11
  <2>6. Processed(p, to, pipeline, view, <<to, "inner">>, T!SplitIndexView(reordered))
    BY <1>11, <1>1, <2>4, <2>5, <2>7 DEF Processed
  <2>. QED
    BY <2>2, <2>6
<1>12. CASE pipeline = <<"split", "reorder">>
  <2>1. Shaped(to, pipeline, view, "inner", T!ReorderedIndexView(split),
               T!AfterReorder(inner, split), T!AfterSplit(top))
    BY <1>12, Shapes
  <2>2. /\ T!PathOf(to, pipeline, last) = <<to, "inner">>
        /\ T!ViewAt(pipeline, last, view) = T!ReorderedIndexView(split)
    BY <2>1 DEF Shaped
  <2>3. <<>> \in Seq(Around(to, <<to, "inner">>))
    OBVIOUS
  <2>4. Apiece("inner", T!ReorderedIndexView(split))
    BY <1>0, <1>1, <1>6, <2>1, <2>3, Assembled
  <2>5. Ends(p, sm) /\ Ends(p, sc)
    <3>1. \A w : Ends(T!AfterSplit(top), w) => Ends(p, w)
      BY <1>0, <1>1, <1>6, <2>1, <2>3, Assembled
    <3>. QED
      BY <1>5, <3>1
  <2>7. pipeline # <<>> /\ pipeline # <<"reorder">>
    BY <1>12
  <2>6. Processed(p, to, pipeline, view, <<to, "inner">>, T!ReorderedIndexView(split))
    BY <1>12, <1>1, <2>4, <2>5, <2>7 DEF Processed
  <2>. QED
    BY <2>2, <2>6
<1>. QED
  BY <1>8, <1>9, <1>10, <1>11, <1>12 DEF T!Pipelines

\* A call that was made owes the index it writes, and its words.
LEMMA PlanFacts ==
  ASSUME NEW asked, asked.target \in Targets, Asked(asked), NEW linked \in BOOLEAN
  PROVE  LET p == T!process(asked.target, asked.pipeline, T!ViewOf(asked.index))
                    \o T!Auxiliary(asked.call, <<asked.target, "top">>, asked.index, linked)
         IN /\ p \in Seq(WritesTo(asked.target))
            /\ \A w \in Owed(asked) : Ends(p, w)
            /\ Careful(p)
            /\ T!VocabularyWritten(asked) => Relinks(p, asked.target, asked.index.vocab)
<1>. DEFINE to == asked.target
            index == asked.index
            pipeline == asked.pipeline
            view == T!ViewOf(index)
            top == <<to, "top">>
            last == Len(pipeline) + 1
            path == T!PathOf(to, pipeline, last)
            final == T!ViewAt(pipeline, last, view)
            p == T!process(to, pipeline, view)
            q == T!Auxiliary(asked.call, top, index, linked)
            W == WritesTo(to)
            names == IF asked.call = "compress" THEN AuxiliaryFiles ELSE SavedFiles
            wl == T!Write(top, "lengths", final.lengths)
            wi == T!Write(top, "lengthsInfo", "information")
<1>1. /\ pipeline \in T!Pipelines /\ asked.call \in T!Calls /\ Seen(view)
      /\ asked.call = "compress" => pipeline = <<>>
      /\ asked.call = "reorder" => pipeline = <<"reorder">>
      /\ index.vocab \in T!Dirs \cup {Absent} /\ index.analyzer \in T!Dirs \cup {Absent}
  BY DEF Asked
<1>2. view.lengths = index.lengths /\ index.lengths \in T!Contents \cup {Absent}
  BY <1>1 DEF T!ViewOf, Seen
<1>3. Processed(p, to, pipeline, view, path, final)
  BY <1>1, ProcessFacts
<1>4. /\ q \in Seq(In(top, names)) /\ Careful(q)
      /\ T!VocabularyWritten(asked) => Relinks(q, to, index.vocab)
      /\ asked.call = "compress" /\ index.lengths # Absent
           => Ends(q, T!Write(top, "lengths", index.lengths)) /\ Ends(q, wi)
  BY <1>1, <1>2, AuxiliaryFacts DEF T!VocabularyWritten
<1>. HIDE DEF p, q, final, path, view
<1>5. p \in Seq(W) /\ q \in Seq(W) /\ \A i \in DOMAIN p : p[i].file \notin VocabFiles
  <2>1. In(top, names) \subseteq W
    BY DEF In
  <2>2. q \in Seq(W)
    BY <1>4, <2>1, SeqGrows
  <2>. QED
    BY <2>2, <1>3 DEF Processed
<1>6. p \o q \in Seq(W)
  <2>. HIDE DEF W
  <2>. QED
    BY <1>5, ConcatFacts
<1>7. /\ Careful(p \o q)
      /\ T!VocabularyWritten(asked) => Relinks(p \o q, to, index.vocab)
  <2>. HIDE DEF W
  <2>. QED
    BY <1>4, <1>5, CarefulConcat
<1>8. ASSUME NEW w, Ends(p, w), w.file \notin names
      PROVE  Ends(p \o q, w)
  <2>1. \A i \in DOMAIN q : ~Same(q[i], w)
    BY <1>4, <1>8, Apart
  <2>. HIDE DEF W
  <2>. QED
    BY <1>5, <1>8, <2>1, EndsBefore
<1>9. /\ DataFiles \cap names = {}
      /\ asked.call # "compress" => LengthFiles \cap names = {}
  BY DEF DataFiles, AuxiliaryFiles, SavedFiles, VocabFiles, LengthFiles
<1>10. \A file : \A content : \A at : T!Write(at, file, content).file = file
  BY DEF T!Write
<1>11. \A at : \A file \in DataFiles : \A content :
         Ends(p, T!Write(at, file, content)) => Ends(p \o q, T!Write(at, file, content))
  BY <1>8, <1>9, <1>10
<1>12. HasIndex(p \o q, path, final)
  <2>1. HasIndex(p, path, final)
    BY <1>3 DEF Processed
  <2>. QED
    BY <1>11, <2>1 DEF HasIndex, DataFiles
<1>13. path # top => /\ Ends(p \o q, T!Write(top, "manifest", "split"))
                     /\ Ends(p \o q, T!Write(top, "cbor", "split"))
  BY <1>3, <1>11 DEF Processed, DataFiles
<1>14. ASSUME T!LengthsWritten(asked)
       PROVE  Ends(p \o q, wl) /\ Ends(p \o q, wi)
  <2>1. index.lengths # Absent
    BY <1>14 DEF T!LengthsWritten
  <2>2. CASE asked.call = "compress"
    <3>1. final = view
      BY <1>1, <1>3, <2>2 DEF Processed
    <3>2. Ends(q, wl) /\ Ends(q, wi)
      BY <1>2, <1>4, <2>1, <2>2, <3>1
    <3>. HIDE DEF W, wl, wi
    <3>. QED
      BY <1>5, <3>2, EndsAfter
  <2>3. CASE asked.call # "compress"
    <3>1. pipeline = <<"reorder">>
      BY <1>1, <1>14, <2>3 DEF T!LengthsWritten, T!Calls
    <3>2. Ends(p, wl) /\ Ends(p, wi)
      BY <1>2, <1>3, <2>1, <3>1 DEF Processed
    <3>3. wl.file \notin names /\ wi.file \notin names
      BY <1>9, <1>10, <2>3 DEF LengthFiles
    <3>. QED
      BY <1>8, <3>2, <3>3
  <2>. QED
    BY <2>2, <2>3
<1>15. ASSUME NEW w \in Owed(asked)
       PROVE  Ends(p \o q, w)
  <2>1. \/ w = T!Write(path, "manifest", "compressed") \/ w = T!Write(path, "cbor", "compressed")
        \/ w = T!Write(path, "bin", [postings |-> final.postings, positions |-> final.positions])
        \/ w = T!Write(path, "docids", final.postings)
        \/ w = T!Write(path, "impacts", final.postings)
        \/ final.positions /\ w = T!Write(path, "positions", final.postings)
        \/ /\ path # top
           /\ w = T!Write(top, "manifest", "split") \/ w = T!Write(top, "cbor", "split")
        \/ T!LengthsWritten(asked) /\ (w = wl \/ w = wi)
    BY <1>15 DEF Owed, path, final, view
  <2>. HIDE DEF wl, wi
  <2>. QED
    BY <1>12, <1>13, <1>14, <2>1 DEF HasIndex
<1>. QED
  BY <1>6, <1>7, <1>15 DEF p, q, view

\* The writes are those of files of the target.
LEMMA OwedFacts ==
  ASSUME NEW asked, asked.target \in Targets, Asked(asked)
  PROVE  \A w \in Owed(asked) :
           /\ w.path \in {asked.target} \X T!Levels /\ w.path[1] = asked.target
           /\ w.file \in Names /\ w.file \notin VocabFiles /\ w.file # "information"
<1>1. \A n : T!PathOf(asked.target, asked.pipeline, n) \in {asked.target} \X T!Levels
  BY DEF T!PathOf, T!Levels
<1>2. <<asked.target, "top">> \in {asked.target} \X T!Levels
  BY DEF T!Levels
<1>. SUFFICES ASSUME NEW w \in Owed(asked)
              PROVE  w.path \in {asked.target} \X T!Levels /\ w.file \in DataFiles \cup LengthFiles
  BY DEF DataFiles, LengthFiles, Names, VocabFiles
<1>. QED
  BY <1>1, <1>2 DEF Owed, T!Write, DataFiles, LengthFiles

\* The files of an empty directory.
LEMMA NamesFacts == DOMAIN T!NoFiles = Names /\ \A name \in Names : T!NoFiles[name] = Absent
BY DEF T!NoFiles, Names

\* What an index is loaded from is well-formed.
LEMMA LoadedFacts ==
  ASSUME DiskOK, NEW dir \in T!Dirs, T!Readable(dir)
  PROVE  LET index == T!load_index(disk[dir])
         IN /\ Seen(T!ViewOf(index))
            /\ index.vocab \in T!Dirs \cup {Absent} /\ index.analyzer \in T!Dirs \cup {Absent}
            /\ T!There(index.vocab) => VocabOf(dir) = index.vocab
<1>. DEFINE top == disk[dir]["top"]
            inner == disk[dir]["inner"]
            index == T!load_index(disk[dir])
<1>1. \A level \in T!Levels :
        LET files == disk[dir][level]
        IN /\ files.information \in T!Contents \cup {Absent}
           /\ files.bin \in T!BinContents \cup {Absent, Short}
           /\ files.lengths \in T!Contents \cup {Absent, Short}
           /\ files.vocab \in T!Dirs \cup {Absent}
           /\ files.analyzer \in T!Dirs \cup {Absent, Short}
  BY DEF DiskOK, Names, Proper
<1>2. "top" \in T!Levels /\ "inner" \in T!Levels
  BY DEF T!Levels
<1>3. \A level \in T!Levels : /\ T!LengthsIn(disk[dir][level]) \in T!Contents \cup {Absent}
                              /\ T!AnalyzerIn(disk[dir][level]) \in T!Dirs \cup {Absent}
  BY <1>1 DEF T!LengthsIn, T!AnalyzerIn, T!Whole
<1>4. CASE T!ForwardOpens(top)
  <2>1. index = T!LoadedForward(top)
    BY <1>4 DEF T!load_index
  <2>2. /\ index.postings = top.information /\ index.lengths = T!LengthsIn(top)
        /\ index.vocab = top.vocab /\ index.analyzer = T!AnalyzerIn(top)
    BY <2>1 DEF T!LoadedForward
  <2>3. top.information \in T!Contents
    BY <1>1, <1>2, <1>4 DEF T!ForwardOpens, T!Whole
  <2>. HIDE DEF index
  <2>4. Seen(T!ViewOf(index))
    BY <1>2, <1>3, <2>2, <2>3 DEF Seen, T!ViewOf
  <2>. QED
    BY <1>1, <1>2, <1>3, <2>2, <2>4 DEF VocabOf, index
<1>5. CASE ~T!ForwardOpens(top) /\ T!CompressedOpens(top)
  <2>1. index = T!LoadedCompressed(top)
    BY <1>5 DEF T!load_index
  <2>2. /\ index.postings = top.bin.postings /\ index.lengths = T!LengthsIn(top)
        /\ index.vocab = top.vocab /\ index.analyzer = T!AnalyzerIn(top)
    BY <2>1 DEF T!LoadedCompressed
  <2>3. top.bin.postings \in T!Contents
    BY <1>1, <1>2, <1>5 DEF T!CompressedOpens, T!Whole, T!BinContents
  <2>. HIDE DEF index
  <2>4. Seen(T!ViewOf(index))
    BY <1>2, <1>3, <2>2, <2>3 DEF Seen, T!ViewOf
  <2>. QED
    BY <1>1, <1>2, <1>3, <2>2, <2>4 DEF VocabOf, index
<1>6. CASE ~T!ForwardOpens(top) /\ ~T!CompressedOpens(top)
  <2>1. T!CompressedOpens(inner)
    BY <1>6 DEF T!Readable, T!Opens, T!SplitOpens
  <2>2. index = T!LoadedSplit(T!LoadedCompressed(inner))
    BY <1>6 DEF T!load_index
  <2>3. /\ index.postings = inner.bin.postings /\ index.lengths = Absent
        /\ index.vocab = Absent /\ index.analyzer = Absent
    BY <2>2 DEF T!LoadedSplit, T!LoadedCompressed
  <2>4. inner.bin.postings \in T!Contents
    BY <1>1, <1>2, <2>1 DEF T!CompressedOpens, T!Whole, T!BinContents
  <2>. HIDE DEF index
  <2>5. Seen(T!ViewOf(index))
    BY <2>3, <2>4 DEF Seen, T!ViewOf
  <2>. QED
    BY <2>3, <2>5 DEF T!There, index
<1>. QED
  BY <1>4, <1>5, <1>6

\* What finished stays while its files and its words do.
LEMMA DoneStays ==
  ASSUME DiskOK, NEW t \in Targets, NEW asked, DoneOK(t, asked), disk'[t] = disk[t],
         \A i \in T!Dirs : VocabOf(t) = i => inodes'[i] = inodes[i]
  PROVE  DoneOK(t, asked)'
<1>1. \A w \in Owed(asked) : OnDisk(w)'
  BY OwedFacts DEF DoneOK, OnDisk
<1>2. HasWords(t, asked.words) => HasWords(t, asked.words)'
  BY DEF HasWords, VocabOf
<1>. QED
  BY <1>1, <1>2 DEF DoneOK

\* There is an inode for the vocabulary of a directory without one.
LEMMA FreshExists ==
  ASSUME NEW dir \in T!Dirs, VocabOf(dir) = Absent
  PROVE  \E i \in T!Dirs : \A other \in T!Dirs : VocabOf(other) # i
<1>1. IsFiniteSet(T!Dirs) /\ Absent \notin T!Dirs
  BY RewritingAssumption, NoneDiffer DEF T!TransformsAssumption, T!IsFiniteSet, IsFiniteSet
<1>. SUFFICES ASSUME \A i \in T!Dirs : \E other \in T!Dirs : VocabOf(other) = i
              PROVE  FALSE
  OBVIOUS
<1>. DEFINE f == [i \in T!Dirs |-> CHOOSE other \in T!Dirs : VocabOf(other) = i]
<1>2. \A i \in T!Dirs : f[i] \in T!Dirs \ {dir} /\ VocabOf(f[i]) = i
  BY <1>1
<1>3. f \in [T!Dirs -> T!Dirs \ {dir}]
  BY <1>2
<1>4. /\ IsFiniteSet(T!Dirs \ {dir})
      /\ Cardinality(T!Dirs) \in Nat /\ Cardinality(T!Dirs \ {dir}) = Cardinality(T!Dirs) - 1
  BY <1>1, FS_RemoveElement, FS_CardinalityType
<1>. HIDE DEF f
<1>5. PICK x \in T!Dirs, y \in T!Dirs : x # y /\ f[x] = f[y]
  <2>1. Cardinality(T!Dirs \ {dir}) < Cardinality(T!Dirs)
    BY <1>4
  <2>. QED
    BY <1>1, <1>3, <1>4, <2>1, FS_PigeonHole
<1>. QED
  BY <1>2, <1>5

\* A vocabulary no other directory has is written through, or a new one made.
LEMMA WriteVocabFacts ==
  ASSUME DiskOK, NEW dir \in T!Dirs, Alone(dir), NEW content, T!WriteVocab(<<dir, "top">>, content)
  PROVE  \E inode \in T!Dirs :
           /\ disk' = [disk EXCEPT ![dir]["top"].vocab = inode]
           /\ inodes' = [inodes EXCEPT ![inode] =
                           IF content = Short THEN Short ELSE inodes[content]]
           /\ \A other \in T!Dirs \ {dir} : VocabOf(other) # inode
<1>1. VocabOf(dir) \in T!Dirs \cup {Absent}
  BY DEF DiskOK, VocabOf, T!Levels, Names, Proper
<1>2. CASE VocabOf(dir) # Absent
  <2>1. T!There(disk[dir]["top"].vocab)
    BY <1>2 DEF T!There, VocabOf
  <2>. QED
    BY <1>1, <1>2, <2>1 DEF T!WriteVocab, Alone, VocabOf
<1>3. CASE VocabOf(dir) = Absent
  <2>1. PICK i \in T!Dirs : \A other \in T!Dirs : VocabOf(other) # i
    BY <1>3, FreshExists
  <2>2. DOMAIN disk = T!Dirs
    BY DEF DiskOK
  <2>3. T!FreshInode \in T!Dirs /\ \A other \in T!Dirs : VocabOf(other) # T!FreshInode
    BY <2>1, <2>2 DEF T!FreshInode, VocabOf
  <2>4. ~T!There(disk[dir]["top"].vocab)
    BY <1>3 DEF T!There, VocabOf
  <2>. HIDE DEF T!FreshInode
  <2>. QED
    BY <2>3, <2>4 DEF T!WriteVocab
<1>. QED
  BY <1>2, <1>3

-----------------------------------------------------------------------------
(***************************************************************************)
(* Each step of a transform                                                *)
(***************************************************************************)
\* The initial state of the sources and the targets.
LEMMA TransformsInvInit ==
  ASSUME T!Init
  PROVE  TransformsInv
<1>1. ASSUME NEW dir \in T!Dirs, NEW level \in T!Levels
      PROVE  LET files == disk[dir][level]
             IN /\ DOMAIN files = Names /\ \A name \in Names : Proper(name, files[name])
                /\ dir \in Targets => files.information = Absent
  <2>1. CASE dir \in Sources /\ level = "top"
    <3>1. disk[dir][level] = T!ForwardFiles(dir) /\ dir \notin Targets
      BY <2>1, RewritingAssumption DEF T!Init, T!TransformsAssumption
    <3>2. T!Original(dir) \in T!Contents
      BY <2>1 DEF T!Original, T!Contents
    <3>. DEFINE f == T!ForwardFiles(dir)
    <3>3. /\ DOMAIN f = Names
          /\ f.information = T!Original(dir) /\ f.bin = Absent
          /\ f.lengths \in {T!Original(dir), Absent}
          /\ f.vocab \in {dir, Absent} /\ f.analyzer \in {dir, Absent}
      BY DEF T!ForwardFiles, T!NoFiles, Names
    <3>4. dir \in T!Dirs /\ "words" \notin Names
      BY DEF Names
    <3>. HIDE DEF f
    <3>5. \A name \in Names : Proper(name, f[name])
      BY <3>2, <3>3, <3>4 DEF Proper
    <3>. QED
      BY <3>1, <3>3, <3>5 DEF f
  <2>2. CASE ~(dir \in Sources /\ level = "top")
    <3>1. disk[dir][level] = T!NoFiles
      BY <2>2 DEF T!Init
    <3>2. \A name \in Names : Proper(name, T!NoFiles[name])
      BY NamesFacts DEF Proper, Names
    <3>3. T!NoFiles.information = Absent
      BY NamesFacts DEF Names
    <3>. QED
      BY <3>1, <3>2, <3>3, NamesFacts
  <2>. QED
    BY <2>1, <2>2
<1>2. DOMAIN disk = T!Dirs /\ \A dir \in T!Dirs : DOMAIN disk[dir] = T!Levels
  BY DEF T!Init
<1>3. DiskOK
  BY <1>1, <1>2 DEF DiskOK
<1>4. inodes \in [T!Dirs -> T!Dirs \cup {Short}]
  BY DEF T!Init
<1>5. DOMAIN wrote = Targets /\ \A t \in Targets : wrote[t] = T!Idle
  BY DEF T!Init
<1>6. job = T!Idle /\ plan = <<>> /\ jobs \in 0 .. MaxJobs /\ crashes \in 0 .. MaxCrashes
  BY RewritingAssumption DEF T!Init, T!TransformsAssumption
<1>. QED
  BY <1>3, <1>4, <1>5, <1>6 DEF TransformsInv

\* Transforms write to directories.
LEMMA TargetsAreDirs == Targets \subseteq T!Dirs
BY DEF T!Dirs

\* A call that starts owes what it was asked, of an index that stays.
LEMMA StartKeeps ==
  ASSUME TransformsInv, NEW from \in T!Dirs, NEW to \in Targets, NEW pipeline \in T!Pipelines,
         NEW call \in T!Calls, NEW lossless \in BOOLEAN, NEW linked \in BOOLEAN,
         T!Start(from, to, pipeline, call, lossless, linked)
  PROVE  TransformsInv'
<1>1. PICK index : index = T!load_index(disk[from])
  OBVIOUS
<1>2. PICK words : words = T!WordsOf(index)
  OBVIOUS
<1>. DEFINE asked == [target |-> to, pipeline |-> pipeline, call |-> call, index |-> index,
                      words |-> words]
<1>3. /\ T!Readable(from) /\ from # to /\ jobs < MaxJobs
      /\ call = "compress" => pipeline = <<>>
      /\ call = "reorder" => pipeline = <<"reorder">>
      /\ plan' = T!process(to, pipeline, T!ViewOf(index))
                   \o T!Auxiliary(call, <<to, "top">>, index, linked)
      /\ job' = asked
      /\ wrote' = [wrote EXCEPT ![to] = T!Idle] /\ jobs' = jobs + 1
      /\ disk' = disk /\ inodes' = inodes /\ crashes' = crashes
  BY <1>1, <1>2 DEF T!Start
<1>4. /\ Seen(T!ViewOf(index))
      /\ index.vocab \in T!Dirs \cup {Absent} /\ index.analyzer \in T!Dirs \cup {Absent}
      /\ T!There(index.vocab) => VocabOf(from) = index.vocab
  BY <1>1, <1>3, LoadedFacts DEF TransformsInv
<1>5. /\ asked.target = to /\ asked.pipeline = pipeline /\ asked.call = call
      /\ asked.index = index /\ asked.words = words
  OBVIOUS
<1>. HIDE DEF asked
<1>6. Asked(asked)
  BY <1>3, <1>4, <1>5 DEF Asked
<1>7. /\ plan' \in Seq(WritesTo(to))
      /\ \A w \in Owed(asked) : Ends(plan', w)
      /\ Careful(plan')
      /\ T!VocabularyWritten(asked) => Relinks(plan', to, index.vocab)
  BY <1>3, <1>5, <1>6, PlanFacts
<1>8. JobOK(asked)'
  <2>1. asked.target \in Targets /\ wrote'[asked.target] = T!Idle
    BY <1>3, <1>5 DEF TransformsInv
  <2>2. \A w \in Owed(asked) : Coming(w)'
    BY <1>7 DEF Coming
  <2>3. WordsApart(asked.target)'
    BY <1>7 DEF WordsApart, Careful
  <2>4. T!VocabularyWritten(asked) => WordsComing(asked)'
    BY <1>5, <1>7 DEF WordsComing, Relinks
  <2>5. T!There(asked.index.vocab) =>
          /\ inodes'[asked.index.vocab] = asked.words
          /\ \E other \in T!Dirs \ {asked.target} : VocabOf(other)' = asked.index.vocab
    BY <1>2, <1>3, <1>4, <1>5 DEF T!WordsOf, VocabOf
  <2>. QED
    BY <1>5, <1>6, <1>7, <2>1, <2>2, <2>3, <2>4, <2>5 DEF JobOK
<1>9. DiskOK' /\ inodes' \in [T!Dirs -> T!Dirs \cup {Short}]
  BY <1>3 DEF TransformsInv, DiskOK
<1>10. ASSUME NEW t \in Targets
       PROVE  (wrote[t] = T!Idle \/ DoneOK(t, wrote[t]))'
  <2>1. CASE t = to \/ wrote[t] = T!Idle
    <3>1. wrote'[t] = T!Idle
      BY <1>3, <2>1 DEF TransformsInv
    <3>. QED
      BY <3>1
  <2>2. CASE t # to /\ wrote[t] # T!Idle
    <3>1. PICK done : done = wrote[t]
      OBVIOUS
    <3>2. DoneOK(t, done) /\ DiskOK
      BY <2>2, <3>1 DEF TransformsInv
    <3>3. DoneOK(t, done)'
      BY <1>3, <3>2, DoneStays
    <3>4. wrote'[t] = done
      BY <1>3, <2>2, <3>1 DEF TransformsInv
    <3>. QED
      BY <3>3, <3>4 DEF DoneOK
  <2>. QED
    BY <2>1, <2>2
<1>11. DOMAIN wrote' = Targets /\ jobs' \in 0 .. MaxJobs /\ crashes' \in 0 .. MaxCrashes
  BY <1>3, RewritingAssumption DEF TransformsInv, T!TransformsAssumption
<1>12. JobOK(job)'
  BY <1>3, <1>8 DEF JobOK
<1>. QED
  BY <1>9, <1>10, <1>11, <1>12 DEF TransformsInv

\* What is left of a plan once its first write is done.
LEMMA TailEnds ==
  ASSUME NEW W, NEW p \in Seq(W), p # <<>>, NEW v
  PROVE  /\ Ends(p, v) => \/ Ends(Tail(p), v)
                          \/ Head(p) = v /\ \A i \in DOMAIN Tail(p) : ~Same(Tail(p)[i], v)
         /\ (\A i \in DOMAIN p : ~Same(p[i], v)) =>
              ~Same(Head(p), v) /\ \A i \in DOMAIN Tail(p) : ~Same(Tail(p)[i], v)
<1>. DEFINE q == Tail(p)
<1>1. /\ Len(p) \in Nat /\ Len(p) > 0 /\ DOMAIN p = 1 .. Len(p) /\ Head(p) = p[1]
      /\ q \in Seq(W) /\ Len(q) = Len(p) - 1 /\ DOMAIN q = 1 .. Len(p) - 1
      /\ \A i \in DOMAIN q : i + 1 \in DOMAIN p /\ q[i] = p[i + 1]
  OBVIOUS
<1>. HIDE DEF q
<1>2. ASSUME Ends(p, v)
      PROVE  Ends(q, v) \/ (Head(p) = v /\ \A i \in DOMAIN q : ~Same(q[i], v))
  <2>1. PICK n \in DOMAIN p : p[n] = v /\ \A j \in n + 1 .. Len(p) : ~Same(p[j], v)
    BY <1>2 DEF Ends
  <2>2. CASE n = 1
    BY <1>1, <2>1, <2>2
  <2>3. CASE n # 1
    <3>1. n - 1 \in DOMAIN q /\ q[n - 1] = v
      BY <1>1, <2>1, <2>3
    <3>2. ASSUME NEW j \in (n - 1) + 1 .. Len(q)
          PROVE  ~Same(q[j], v)
      <4>1. j \in DOMAIN q /\ j + 1 \in n + 1 .. Len(p)
        BY <1>1, <2>3
      <4>2. q[j] = p[j + 1]
        BY <1>1, <4>1
      <4>. QED
        BY <2>1, <4>1, <4>2
    <3>. QED
      BY <3>1, <3>2 DEF Ends
  <2>. QED
    BY <2>2, <2>3
<1>3. ASSUME \A i \in DOMAIN p : ~Same(p[i], v)
      PROVE  ~Same(Head(p), v) /\ \A i \in DOMAIN q : ~Same(q[i], v)
  BY <1>1, <1>3
<1>. QED
  BY <1>2, <1>3 DEF q

\* What is left of the writes of a vocabulary once the first write is done.
LEMMA TailCareful ==
  ASSUME NEW W, NEW p \in Seq(W), p # <<>>
  PROVE  /\ \A name : Without(p, name) => Head(p).file # name /\ Without(Tail(p), name)
         /\ \A name : Head(p).file # name /\ ~Without(p, name) => ~Without(Tail(p), name)
         /\ Removes(p) =>
              /\ Head(p).file # "words"
              /\ \/ Removes(Tail(p))
                 \/ Head(p).file = "vocab" /\ Head(p).content = Absent /\ Without(Tail(p), "vocab")
<1>. DEFINE q == Tail(p)
<1>1. /\ Len(p) \in Nat /\ Len(p) > 0 /\ DOMAIN p = 1 .. Len(p) /\ Head(p) = p[1]
      /\ Len(q) = Len(p) - 1 /\ DOMAIN q = 1 .. Len(p) - 1
      /\ \A i \in DOMAIN q : i + 1 \in DOMAIN p /\ q[i] = p[i + 1]
  OBVIOUS
<1>. HIDE DEF q
<1>2. \A i \in DOMAIN p : i # 1 => i - 1 \in DOMAIN q /\ q[i - 1] = p[i]
  BY <1>1
<1>3. ASSUME NEW name
      PROVE  /\ Without(p, name) => Head(p).file # name /\ Without(q, name)
             /\ Head(p).file # name /\ ~Without(p, name) => ~Without(q, name)
  <2>1. Without(p, name) => Head(p).file # name /\ Without(q, name)
    BY <1>1 DEF Without
  <2>2. Head(p).file # name /\ Without(q, name) => Without(p, name)
    BY <1>1, <1>2 DEF Without
  <2>. QED
    BY <2>1, <2>2
<1>4. ASSUME Removes(p)
      PROVE  /\ Head(p).file # "words"
             /\ \/ Removes(q)
                \/ Head(p).file = "vocab" /\ Head(p).content = Absent /\ Without(q, "vocab")
  <2>1. PICK n \in DOMAIN p :
          /\ p[n].file = "vocab" /\ p[n].content = Absent
          /\ \A i \in DOMAIN p : /\ p[i].file = "vocab" => i = n
                                 /\ p[i].file = "words" => i > n
    BY <1>4 DEF Removes
  <2>2. Head(p).file # "words"
    BY <1>1, <2>1
  <2>3. CASE n = 1
    <3>1. Without(q, "vocab")
      BY <1>1, <2>1, <2>3 DEF Without
    <3>. QED
      BY <1>1, <2>1, <2>2, <2>3, <3>1
  <2>4. CASE n # 1
    <3>1. n - 1 \in DOMAIN q /\ q[n - 1] = p[n]
      BY <1>2, <2>4
    <3>2. ASSUME NEW i \in DOMAIN q
          PROVE  (q[i].file = "vocab" => i = n - 1) /\ (q[i].file = "words" => i > n - 1)
      <4>1. i + 1 \in DOMAIN p /\ q[i] = p[i + 1]
        BY <1>1
      <4>2. (p[i + 1].file = "vocab" => i + 1 = n) /\ (p[i + 1].file = "words" => i + 1 > n)
        BY <2>1, <4>1
      <4>. QED
        BY <1>1, <4>1, <4>2
    <3>3. Removes(q)
      BY <2>1, <3>1, <3>2 DEF Removes
    <3>. QED
      BY <2>2, <3>3
  <2>. QED
    BY <2>3, <2>4
<1>. QED
  BY <1>3, <1>4 DEF q

\* Those of the writes of a transform that are of one file of its vocabulary are of the same.
LEMMA VocabWrites ==
  ASSUME NEW dir \in Targets, NEW p \in Seq(WritesTo(dir)), NEW name \in VocabFiles, NEW content,
         \A i \in DOMAIN p : ~Same(p[i], T!Write(<<dir, "top">>, name, content))
  PROVE  Without(p, name)
<1>1. \A w \in WritesTo(dir) : w.file = name => Same(w, T!Write(<<dir, "top">>, name, content))
  <2>. SUFFICES ASSUME NEW w \in WritesTo(dir), w.file = name
                PROVE  w.path = <<dir, "top">>
    BY DEF Same, T!Write
  <2>1. w.path \in Targets \X T!Levels /\ w.path[1] = dir /\ w.path[2] = "top"
    BY DEF WritesTo, Writes, VocabFiles
  <2>. QED
    BY <2>1
<1>. QED
  BY <1>1 DEF Without

\* The words of a vocabulary that is copied go to an inode of its own.
LEMMA WordsKept ==
  ASSUME TransformsInv, NEW asked, asked = job, JobOK(asked),
         plan # <<>>, Head(plan).file = "words", T!WriteNext
  PROVE  TransformsInv'
<1>. DEFINE t == asked.target
            w == Head(plan)
            top == <<t, "top">>
            vocab == asked.index.vocab
<1>1. /\ t \in Targets /\ t \in T!Dirs /\ wrote[t] = T!Idle /\ Asked(asked)
      /\ plan \in Seq(WritesTo(t)) /\ w \in WritesTo(t) /\ Tail(plan) \in Seq(WritesTo(t))
  BY TargetsAreDirs DEF JobOK
<1>2. w.path = top /\ w.content \in T!Dirs \cup {Short}
  <2>1. w.path \in Targets \X T!Levels /\ w.path[1] = t /\ w.path[2] = "top"
    BY <1>1 DEF WritesTo, Writes
  <2>2. w.content \in T!Dirs \cup {Short}
    BY <1>1 DEF WritesTo, Proper
  <2>. QED
    BY <2>1, <2>2
<1>3. /\ T!WriteVocab(top, w.content) /\ plan' = Tail(plan)
      /\ UNCHANGED <<wrote, job, jobs, crashes>>
  BY <1>2 DEF T!WriteNext
<1>4. ~Without(plan, "words") /\ Without(plan, "vocab") /\ Alone(t)
  <2>1. ~Without(plan, "words") /\ ~Removes(plan)
    BY <1>1, TailCareful
  <2>. QED
    BY <2>1 DEF JobOK, WordsApart
<1>5. DiskOK /\ inodes \in [T!Dirs -> T!Dirs \cup {Short}]
  BY DEF TransformsInv
<1>6. PICK inode \in T!Dirs :
        /\ disk' = [disk EXCEPT ![t]["top"].vocab = inode]
        /\ inodes' = [inodes EXCEPT ![inode] =
                        IF w.content = Short THEN Short ELSE inodes[w.content]]
        /\ \A other \in T!Dirs \ {t} : VocabOf(other) # inode
  BY <1>1, <1>3, <1>4, <1>5, WriteVocabFacts
<1>7. /\ \A dir \in T!Dirs \ {t} : disk'[dir] = disk[dir]
      /\ \A level \in T!Levels, name \in Names :
           <<level, name>> # <<"top", "vocab">> => disk'[t][level][name] = disk[t][level][name]
      /\ disk'[t]["top"].vocab = inode
      /\ DOMAIN disk' = T!Dirs /\ DOMAIN disk'[t] = T!Levels
      /\ \A level \in T!Levels : DOMAIN disk'[t][level] = Names
  BY <1>1, <1>5, <1>6 DEF DiskOK, T!Levels, Names
<1>8. DiskOK'
  <2>1. ASSUME NEW dir \in T!Dirs, NEW level \in T!Levels
        PROVE  /\ DOMAIN disk'[dir][level] = Names
               /\ \A name \in Names : Proper(name, disk'[dir][level][name])
               /\ dir \in Targets => disk'[dir][level].information = Absent
    <3>1. CASE dir # t
      BY <1>5, <1>7, <3>1 DEF DiskOK
    <3>2. CASE dir = t
      <4>1. Proper("vocab", inode)
        BY DEF Proper
      <4>2. "information" \in Names /\ "information" # "vocab"
        BY DEF Names
      <4>3. \A name \in Names : Proper(name, disk'[dir][level][name])
        BY <1>1, <1>5, <1>7, <3>2, <4>1 DEF DiskOK
      <4>4. disk'[dir][level].information = Absent
        BY <1>1, <1>5, <1>7, <3>2, <4>2 DEF DiskOK
      <4>. QED
        BY <1>7, <3>2, <4>3, <4>4
    <3>. QED
      BY <3>1, <3>2
  <2>2. \A dir \in T!Dirs : DOMAIN disk'[dir] = T!Levels
    BY <1>5, <1>7 DEF DiskOK
  <2>. QED
    BY <1>7, <2>1, <2>2 DEF DiskOK
<1>9. inodes' \in [T!Dirs -> T!Dirs \cup {Short}]
  BY <1>2, <1>5, <1>6
<1>10. ASSUME NEW v \in Owed(asked)
       PROVE  Coming(v)'
  <2>1. v.path \in {t} \X T!Levels /\ v.file \in Names /\ v.file \notin VocabFiles
    BY <1>1, OwedFacts
  <2>2. ~Same(w, v) /\ w # v
    BY <2>1 DEF Same, VocabFiles
  <2>3. Ends(plan, v) \/ (OnDisk(v) /\ \A i \in DOMAIN plan : ~Same(plan[i], v))
    BY DEF JobOK, Coming
  <2>4. CASE Ends(plan, v)
    BY <1>1, <1>3, <2>2, <2>4, TailEnds DEF Coming
  <2>5. CASE OnDisk(v) /\ \A i \in DOMAIN plan : ~Same(plan[i], v)
    <3>1. OnDisk(v)'
      BY <1>7, <2>1, <2>5 DEF OnDisk, VocabFiles
    <3>. QED
      BY <1>1, <1>3, <2>5, <3>1, TailEnds DEF Coming
  <2>. QED
    BY <2>3, <2>4, <2>5
<1>11. Without(Tail(plan), "vocab") /\ Alone(t)'
  <2>1. Without(Tail(plan), "vocab")
    BY <1>1, <1>4, TailCareful
  <2>2. Alone(t)'
    BY <1>6, <1>7 DEF Alone, VocabOf
  <2>. QED
    BY <2>1, <2>2
<1>12. ASSUME T!There(vocab)
       PROVE  /\ vocab \in T!Dirs /\ vocab # Short
              /\ inodes[vocab] = asked.words /\ inodes'[vocab] = asked.words
              /\ \E from \in T!Dirs \ {t} : VocabOf(from)' = vocab
  <2>1. vocab \in T!Dirs /\ vocab # Short
    BY <1>1, <1>12, RewritingAssumption, NoneDiffer DEF Asked, T!There
  <2>2. PICK from \in T!Dirs \ {t} : VocabOf(from) = vocab
    BY <1>12 DEF JobOK
  <2>3. inodes[vocab] = asked.words
    BY <1>12 DEF JobOK
  <2>4. inodes'[vocab] = inodes[vocab]
    BY <1>5, <1>6, <2>1, <2>2
  <2>5. VocabOf(from)' = vocab
    BY <1>7, <2>2 DEF VocabOf
  <2>. QED
    BY <2>1, <2>2, <2>3, <2>4, <2>5
<1>13. ASSUME T!VocabularyWritten(asked)
       PROVE  WordsComing(asked)'
  <2>. DEFINE ww == T!Write(top, "words", vocab)
  <2>1. Ends(plan, ww)
    BY <1>4, <1>13 DEF JobOK, WordsComing
  <2>2. CASE Ends(Tail(plan), ww)
    <3>1. ~Without(Tail(plan), "words")
      BY <2>2 DEF Ends, Without, T!Write
    <3>. QED
      BY <1>3, <2>2, <3>1 DEF WordsComing
  <2>3. CASE w = ww /\ \A i \in DOMAIN Tail(plan) : ~Same(Tail(plan)[i], ww)
    <3>1. Without(Tail(plan), "words")
      BY <1>1, <2>3, VocabWrites DEF VocabFiles
    <3>2. w.content = vocab
      BY <2>3 DEF T!Write
    <3>3. vocab \in T!Dirs /\ vocab # Short /\ inodes[vocab] = asked.words
      BY <1>12, <1>13 DEF T!VocabularyWritten
    <3>4. inodes'[inode] = asked.words
      BY <1>5, <1>6, <3>2, <3>3
    <3>5. HasWords(t, asked.words)'
      BY <1>7, <3>4 DEF HasWords, VocabOf
    <3>. QED
      BY <1>3, <1>11, <3>1, <3>5 DEF WordsComing
  <2>. QED
    BY <1>1, <2>1, <2>2, <2>3, TailEnds
<1>14. JobOK(asked)'
  <2>1. wrote'[t] = T!Idle
    BY <1>1, <1>3
  <2>2. WordsApart(t)'
    BY <1>3, <1>11 DEF WordsApart
  <2>3. plan' \in Seq(WritesTo(t))
    BY <1>1, <1>3
  <2>. QED
    BY <1>1, <1>10, <1>12, <1>13, <2>1, <2>2, <2>3 DEF JobOK
<1>15. ASSUME NEW d \in Targets
       PROVE  (wrote[d] = T!Idle \/ DoneOK(d, wrote[d]))'
  <2>1. CASE wrote[d] = T!Idle
    BY <1>3, <2>1
  <2>2. CASE wrote[d] # T!Idle
    <3>1. PICK done : done = wrote[d]
      OBVIOUS
    <3>2. DoneOK(d, done) /\ DiskOK /\ d # t /\ d \in T!Dirs
      BY <1>1, <2>2, <3>1, TargetsAreDirs DEF TransformsInv
    <3>3. \A i \in T!Dirs : VocabOf(d) = i => inodes'[i] = inodes[i]
      BY <1>5, <1>6, <3>2
    <3>4. DoneOK(d, done)'
      BY <1>7, <3>2, <3>3, DoneStays
    <3>5. wrote'[d] = done
      BY <1>3, <3>1
    <3>. QED
      BY <3>4, <3>5 DEF DoneOK
  <2>. QED
    BY <2>1, <2>2
<1>16. JobOK(job)'
  BY <1>3, <1>14 DEF JobOK
<1>. QED
  BY <1>3, <1>8, <1>9, <1>15, <1>16 DEF TransformsInv

\* Any other write is of a file of the target alone.
LEMMA FileKept ==
  ASSUME TransformsInv, NEW asked, asked = job, JobOK(asked),
         plan # <<>>, Head(plan).file # "words", T!WriteNext
  PROVE  TransformsInv'
<1>. DEFINE t == asked.target
            top == <<t, "top">>
            vocab == asked.index.vocab
<1>1. PICK w : w = Head(plan)
  OBVIOUS
<1>2. /\ t \in Targets /\ t \in T!Dirs /\ wrote[t] = T!Idle /\ Asked(asked)
      /\ plan \in Seq(WritesTo(t)) /\ w \in WritesTo(t) /\ Tail(plan) \in Seq(WritesTo(t))
  BY <1>1, TargetsAreDirs DEF JobOK
<1>3. PICK level \in T!Levels : w.path = <<t, level>>
  BY <1>2 DEF WritesTo, Writes
<1>4. /\ w.file \in Names /\ w.file # "information" /\ Proper(w.file, w.content)
      /\ w.file = "vocab" => level = "top" /\ w.content \in T!Dirs \cup {Absent}
  BY <1>1, <1>2, <1>3 DEF WritesTo, Writes, Proper
<1>5. /\ disk' = [disk EXCEPT ![t][level][w.file] = w.content]
      /\ plan' = Tail(plan)
      /\ UNCHANGED <<inodes, wrote, job, jobs, crashes>>
  <2>1. w.path[1] = t /\ w.path[2] = level /\ w.file # "words"
    BY <1>1, <1>3
  <2>2. /\ disk' = [disk EXCEPT ![w.path[1]][w.path[2]][w.file] = w.content]
        /\ plan' = Tail(plan)
        /\ UNCHANGED <<inodes, wrote, job, jobs, crashes>>
    BY <1>1, <2>1 DEF T!WriteNext
  <2>. QED
    BY <2>1, <2>2
<1>6. DiskOK /\ inodes \in [T!Dirs -> T!Dirs \cup {Short}]
  BY DEF TransformsInv
<1>7. /\ \A dir \in T!Dirs \ {t} : disk'[dir] = disk[dir]
      /\ \A other \in T!Levels, name \in Names :
           <<other, name>> # <<level, w.file>> => disk'[t][other][name] = disk[t][other][name]
      /\ disk'[t][level][w.file] = w.content
      /\ DOMAIN disk' = T!Dirs /\ DOMAIN disk'[t] = T!Levels
      /\ \A other \in T!Levels : DOMAIN disk'[t][other] = Names
  BY <1>2, <1>4, <1>5, <1>6 DEF DiskOK
<1>8. DiskOK'
  <2>1. ASSUME NEW dir \in T!Dirs, NEW other \in T!Levels
        PROVE  /\ DOMAIN disk'[dir][other] = Names
               /\ \A name \in Names : Proper(name, disk'[dir][other][name])
               /\ dir \in Targets => disk'[dir][other].information = Absent
    <3>1. CASE dir # t
      BY <1>6, <1>7, <3>1 DEF DiskOK
    <3>2. CASE dir = t
      <4>1. "information" \in Names
        BY DEF Names
      <4>2. \A name \in Names : Proper(name, disk'[dir][other][name])
        BY <1>2, <1>4, <1>6, <1>7, <3>2 DEF DiskOK
      <4>3. disk'[dir][other].information = Absent
        BY <1>2, <1>4, <1>6, <1>7, <3>2, <4>1 DEF DiskOK
      <4>. QED
        BY <1>7, <3>2, <4>2, <4>3
    <3>. QED
      BY <3>1, <3>2
  <2>2. \A dir \in T!Dirs : DOMAIN disk'[dir] = T!Levels
    BY <1>6, <1>7 DEF DiskOK
  <2>. QED
    BY <1>7, <2>1, <2>2 DEF DiskOK
<1>9. ASSUME NEW v, v.path \in {t} \X T!Levels, v.file \in Names
      PROVE  /\ w = v => OnDisk(v)'
             /\ ~Same(w, v) /\ OnDisk(v) => OnDisk(v)'
  <2>1. PICK other \in T!Levels : v.path = <<t, other>>
    BY <1>9
  <2>2. w = v => OnDisk(v)'
    BY <1>3, <1>7 DEF OnDisk
  <2>3. ASSUME ~Same(w, v), OnDisk(v)
        PROVE  OnDisk(v)'
    <3>1. <<other, v.file>> # <<level, w.file>>
      BY <1>3, <2>1, <2>3 DEF Same
    <3>. QED
      BY <1>7, <1>9, <2>1, <2>3, <3>1 DEF OnDisk
  <2>. QED
    BY <2>2, <2>3
<1>10. ASSUME NEW v \in Owed(asked)
       PROVE  Coming(v)'
  <2>1. v.path \in {t} \X T!Levels /\ v.file \in Names
    BY <1>2, OwedFacts
  <2>2. Ends(plan, v) \/ (OnDisk(v) /\ \A i \in DOMAIN plan : ~Same(plan[i], v))
    BY DEF JobOK, Coming
  <2>3. CASE Ends(plan, v)
    <3>1. Ends(Tail(plan), v) \/ (w = v /\ \A i \in DOMAIN Tail(plan) : ~Same(Tail(plan)[i], v))
      BY <1>1, <1>2, <2>3, TailEnds
    <3>2. w = v => OnDisk(v)'
      BY <1>9, <2>1
    <3>. QED
      BY <1>5, <3>1, <3>2 DEF Coming
  <2>4. CASE OnDisk(v) /\ \A i \in DOMAIN plan : ~Same(plan[i], v)
    <3>1. ~Same(w, v) /\ \A i \in DOMAIN Tail(plan) : ~Same(Tail(plan)[i], v)
      BY <1>1, <1>2, <2>4, TailEnds
    <3>2. OnDisk(v)'
      BY <1>9, <2>1, <2>4, <3>1
    <3>. QED
      BY <1>5, <3>1, <3>2 DEF Coming
  <2>. QED
    BY <2>2, <2>3, <2>4
<1>11. /\ \A dir \in T!Dirs \ {t} : VocabOf(dir)' = VocabOf(dir)
       /\ w.file # "vocab" => VocabOf(t)' = VocabOf(t)
       /\ w.file = "vocab" => VocabOf(t)' = w.content
  <2>1. "top" \in T!Levels /\ "vocab" \in Names
    BY DEF T!Levels, Names
  <2>2. w.file # "vocab" => VocabOf(t)' = VocabOf(t)
    BY <1>7, <2>1 DEF VocabOf
  <2>3. w.file = "vocab" => VocabOf(t)' = w.content
    BY <1>4, <1>7 DEF VocabOf
  <2>4. \A dir \in T!Dirs \ {t} : VocabOf(dir)' = VocabOf(dir)
    BY <1>7 DEF VocabOf
  <2>. QED
    BY <2>2, <2>3, <2>4
<1>12. WordsApart(t)'
  <2>1. Without(plan, "words") \/ Removes(plan) \/ (Without(plan, "vocab") /\ Alone(t))
    BY DEF JobOK, WordsApart
  <2>2. CASE Without(plan, "words")
    BY <1>2, <1>5, <2>2, TailCareful DEF WordsApart
  <2>3. CASE Removes(plan)
    <3>1. \/ Removes(Tail(plan))
          \/ w.file = "vocab" /\ w.content = Absent /\ Without(Tail(plan), "vocab")
      BY <1>1, <1>2, <2>3, TailCareful
    <3>2. w.file = "vocab" /\ w.content = Absent => Alone(t)'
      BY <1>11 DEF Alone
    <3>. QED
      BY <1>5, <3>1, <3>2 DEF WordsApart
  <2>4. CASE Without(plan, "vocab") /\ Alone(t)
    <3>1. w.file # "vocab" /\ Without(Tail(plan), "vocab")
      BY <1>1, <1>2, <2>4, TailCareful
    <3>2. Alone(t)'
      BY <1>11, <2>4, <3>1 DEF Alone
    <3>. QED
      BY <1>5, <3>1, <3>2 DEF WordsApart
  <2>. QED
    BY <2>1, <2>2, <2>3, <2>4
<1>13. ASSUME T!There(vocab)
       PROVE  /\ vocab \in T!Dirs
              /\ inodes[vocab] = asked.words /\ inodes'[vocab] = asked.words
              /\ \E from \in T!Dirs \ {t} : VocabOf(from)' = vocab
  <2>1. vocab \in T!Dirs
    BY <1>2, <1>13 DEF Asked, T!There
  <2>2. PICK from \in T!Dirs \ {t} : VocabOf(from) = vocab
    BY <1>13 DEF JobOK
  <2>3. inodes[vocab] = asked.words
    BY <1>13 DEF JobOK
  <2>4. VocabOf(from)' = vocab
    BY <1>11, <2>2
  <2>. QED
    BY <1>5, <2>1, <2>3, <2>4
<1>14. ASSUME T!VocabularyWritten(asked)
       PROVE  WordsComing(asked)'
  <2>. DEFINE wv == T!Write(top, "vocab", vocab)
              ww == T!Write(top, "words", vocab)
  <2>1. \/ Without(plan, "words") /\ Ends(plan, wv)
        \/ Without(plan, "words") /\ Without(plan, "vocab") /\ HasWords(t, asked.words)
        \/ ~Without(plan, "words") /\ Ends(plan, ww)
    BY <1>14 DEF JobOK, WordsComing
  <2>2. CASE Without(plan, "words") /\ Ends(plan, wv)
    <3>1. Without(Tail(plan), "words")
      BY <1>2, <2>2, TailCareful
    <3>2. CASE Ends(Tail(plan), wv)
      BY <1>5, <3>1, <3>2 DEF WordsComing
    <3>3. CASE w = wv /\ \A i \in DOMAIN Tail(plan) : ~Same(Tail(plan)[i], wv)
      <4>1. Without(Tail(plan), "vocab")
        BY <1>2, <3>3, VocabWrites DEF VocabFiles
      <4>2. w.file = "vocab" /\ w.content = vocab
        BY <3>3 DEF T!Write
      <4>3. vocab \in T!Dirs /\ inodes'[vocab] = asked.words
        BY <1>13, <1>14 DEF T!VocabularyWritten
      <4>4. HasWords(t, asked.words)'
        BY <1>11, <4>2, <4>3 DEF HasWords
      <4>. QED
        BY <1>5, <3>1, <4>1, <4>4 DEF WordsComing
    <3>. QED
      BY <1>1, <1>2, <2>2, <3>2, <3>3, TailEnds
  <2>3. CASE Without(plan, "words") /\ Without(plan, "vocab") /\ HasWords(t, asked.words)
    <3>1. Without(Tail(plan), "words") /\ Without(Tail(plan), "vocab") /\ w.file # "vocab"
      BY <1>1, <1>2, <2>3, TailCareful
    <3>2. HasWords(t, asked.words)'
      BY <1>5, <1>11, <2>3, <3>1 DEF HasWords
    <3>. QED
      BY <1>5, <3>1, <3>2 DEF WordsComing
  <2>4. CASE ~Without(plan, "words") /\ Ends(plan, ww)
    <3>1. ~Without(Tail(plan), "words")
      BY <1>2, <2>4, TailCareful
    <3>2. w # ww
      BY <1>1 DEF T!Write
    <3>3. Ends(Tail(plan), ww)
      BY <1>1, <1>2, <2>4, <3>2, TailEnds
    <3>. QED
      BY <1>5, <3>1, <3>3 DEF WordsComing
  <2>. QED
    BY <2>1, <2>2, <2>3, <2>4
<1>15. JobOK(asked)'
  <2>1. wrote'[t] = T!Idle /\ plan' \in Seq(WritesTo(t))
    BY <1>2, <1>5
  <2>. QED
    BY <1>2, <1>10, <1>12, <1>13, <1>14, <2>1 DEF JobOK
<1>16. ASSUME NEW d \in Targets
       PROVE  (wrote[d] = T!Idle \/ DoneOK(d, wrote[d]))'
  <2>1. CASE wrote[d] = T!Idle
    BY <1>5, <2>1
  <2>2. CASE wrote[d] # T!Idle
    <3>1. PICK done : done = wrote[d]
      OBVIOUS
    <3>2. DoneOK(d, done) /\ d # t /\ d \in T!Dirs
      BY <1>2, <2>2, <3>1, TargetsAreDirs DEF TransformsInv
    <3>3. DoneOK(d, done)'
      BY <1>5, <1>6, <1>7, <3>2, DoneStays
    <3>4. wrote'[d] = done
      BY <1>5, <3>1
    <3>. QED
      BY <3>3, <3>4 DEF DoneOK
  <2>. QED
    BY <2>1, <2>2
<1>17. JobOK(job)'
  BY <1>5, <1>15 DEF JobOK
<1>. QED
  BY <1>5, <1>6, <1>8, <1>16, <1>17 DEF TransformsInv

\* A job that is under way has a target.
LEMMA UnderWay ==
  ASSUME TransformsInv
  PROVE  (plan # <<>> \/ job # T!Idle) => JobOK(job)
BY DEF TransformsInv

\* A call that returns has written what it owed.
LEMMA FinishKeeps ==
  ASSUME TransformsInv, T!Finish
  PROVE  TransformsInv'
<1>1. PICK asked : asked = job
  OBVIOUS
<1>. DEFINE t == asked.target
<1>2. JobOK(asked) /\ plan = <<>> /\ DOMAIN plan = {}
  BY <1>1, UnderWay DEF T!Finish
<1>3. /\ wrote' = [wrote EXCEPT ![t] = asked] /\ job' = T!Idle /\ plan' = plan
      /\ UNCHANGED <<disk, inodes, jobs, crashes>>
  BY <1>1 DEF T!Finish
<1>4. DoneOK(t, asked)
  <2>1. \A w : ~Ends(plan, w)
    BY <1>2 DEF Ends
  <2>2. \A w \in Owed(asked) : OnDisk(w)
    BY <1>2, <2>1 DEF JobOK, Coming
  <2>3. T!VocabularyWritten(asked) => HasWords(t, asked.words)
    BY <1>2, <2>1 DEF JobOK, WordsComing
  <2>. QED
    BY <1>2, <2>2, <2>3 DEF JobOK, DoneOK
<1>5. t \in Targets /\ DiskOK
  BY <1>2 DEF JobOK, TransformsInv
<1>6. ASSUME NEW d \in Targets
      PROVE  (wrote[d] = T!Idle \/ DoneOK(d, wrote[d]))'
  <2>1. PICK done : done = wrote'[d]
    OBVIOUS
  <2>2. done = T!Idle \/ DoneOK(d, done)
    BY <1>3, <1>4, <2>1 DEF TransformsInv
  <2>3. CASE done = T!Idle
    BY <2>1, <2>3
  <2>4. CASE DoneOK(d, done)
    <3>1. DoneOK(d, done)'
      BY <1>3, <1>5, <2>4, DoneStays
    <3>. QED
      BY <2>1, <3>1 DEF DoneOK
  <2>. QED
    BY <2>2, <2>3, <2>4
<1>7. DiskOK' /\ inodes' \in [T!Dirs -> T!Dirs \cup {Short}]
  BY <1>3 DEF TransformsInv, DiskOK
<1>. QED
  BY <1>2, <1>3, <1>6, <1>7 DEF TransformsInv

\* What a crash interrupts owes nothing.
LEMMA TransformCrashKeeps ==
  ASSUME TransformsInv, T!Crash
  PROVE  TransformsInv'
<1>1. /\ plan' = <<>> /\ job' = T!Idle /\ crashes' = crashes + 1 /\ crashes < MaxCrashes
      /\ UNCHANGED <<disk, inodes, wrote, jobs>>
  BY DEF T!Crash
<1>2. ASSUME NEW d \in Targets
      PROVE  (wrote[d] = T!Idle \/ DoneOK(d, wrote[d]))'
  <2>1. PICK done : done = wrote[d]
    OBVIOUS
  <2>2. done = T!Idle \/ DoneOK(d, done)
    BY <2>1 DEF TransformsInv
  <2>3. CASE done = T!Idle
    BY <1>1, <2>1, <2>3
  <2>4. CASE DoneOK(d, done)
    <3>1. DoneOK(d, done)'
      BY <1>1, <2>4, DoneStays DEF TransformsInv
    <3>. QED
      BY <1>1, <2>1, <3>1 DEF DoneOK
  <2>. QED
    BY <2>2, <2>3, <2>4
<1>3. DiskOK' /\ inodes' \in [T!Dirs -> T!Dirs \cup {Short}]
  BY <1>1 DEF TransformsInv, DiskOK
<1>4. crashes' \in 0 .. MaxCrashes
  BY <1>1, RewritingAssumption DEF TransformsInv, T!TransformsAssumption
<1>. QED
  BY <1>1, <1>2, <1>3, <1>4 DEF TransformsInv

\* A step that is not of a transform leaves it as it is.
LEMMA OthersKeep ==
  ASSUME TransformsInv, UNCHANGED ofTransforms, crashes' \in 0 .. MaxCrashes
  PROVE  TransformsInv'
<1>1. UNCHANGED <<disk, inodes, plan, wrote, job, jobs>>
  BY DEF ofTransforms
<1>2. PICK asked : asked = job
  OBVIOUS
<1>3. JobOK(asked) => JobOK(asked)'
  BY <1>1 DEF JobOK, Coming, OnDisk, WordsApart, Alone, VocabOf, WordsComing, HasWords
<1>4. JobOK(job) => JobOK(job)'
  BY <1>1, <1>2, <1>3 DEF JobOK
<1>5. ASSUME NEW d \in Targets
      PROVE  (wrote[d] = T!Idle \/ DoneOK(d, wrote[d]))'
  <2>1. PICK done : done = wrote[d]
    OBVIOUS
  <2>2. done = T!Idle \/ DoneOK(d, done)
    BY <2>1 DEF TransformsInv
  <2>3. CASE done = T!Idle
    BY <1>1, <2>1, <2>3
  <2>4. CASE DoneOK(d, done)
    <3>1. DoneOK(d, done)'
      BY <1>1, <2>4, DoneStays DEF TransformsInv
    <3>. QED
      BY <1>1, <2>1, <3>1 DEF DoneOK
  <2>. QED
    BY <2>2, <2>3, <2>4
<1>6. DiskOK' /\ inodes' \in [T!Dirs -> T!Dirs \cup {Short}]
  BY <1>1 DEF TransformsInv, DiskOK
<1>. QED
  BY <1>1, <1>4, <1>5, <1>6 DEF TransformsInv

\* Transforms and crashes in any order leave what the invariant says.
LEMMA TransformsKeep ==
  ASSUME TransformsInv, [T!Next]_(T!vars)
  PROVE  TransformsInv'
<1>1. CASE \E from \in T!Dirs, to \in Targets, pipeline \in T!Pipelines,
              call \in T!Calls, lossless, linked \in BOOLEAN :
             T!Start(from, to, pipeline, call, lossless, linked)
  BY <1>1, StartKeeps
<1>2. CASE T!WriteNext
  <2>1. PICK asked : asked = job
    OBVIOUS
  <2>2. JobOK(asked) /\ plan # <<>>
    BY <1>2, <2>1, UnderWay DEF T!WriteNext
  <2>. QED
    BY <1>2, <2>1, <2>2, WordsKept, FileKept
<1>3. CASE T!Finish
  BY <1>3, FinishKeeps
<1>4. CASE T!Crash
  BY <1>4, TransformCrashKeeps
<1>5. CASE UNCHANGED T!vars
  BY <1>5, OthersKeep DEF T!vars, ofTransforms, TransformsInv
<1>. QED
  BY <1>1, <1>2, <1>3, <1>4, <1>5 DEF T!Next

-----------------------------------------------------------------------------
(***************************************************************************)
(* What finished transforms leave                                          *)
(***************************************************************************)
\* The files of a compression that finished are those of an index that loads.
LEMMA CompressedLoads ==
  ASSUME DiskOK, NEW t \in Targets, NEW level \in T!Levels, NEW view, Seen(view),
         LET path == <<t, level>>
         IN /\ OnDisk(T!Write(path, "manifest", "compressed"))
            /\ OnDisk(T!Write(path, "cbor", "compressed"))
            /\ OnDisk(T!Write(path, "bin",
                              [postings |-> view.postings, positions |-> view.positions]))
            /\ OnDisk(T!Write(path, "docids", view.postings))
            /\ OnDisk(T!Write(path, "impacts", view.postings))
            /\ view.positions => OnDisk(T!Write(path, "positions", view.postings))
  PROVE  LET files == disk[t][level]
             index == T!LoadedCompressed(files)
         IN /\ T!CompressedOpens(files) /\ ~T!ForwardOpens(files)
            /\ index.postings = view.postings /\ index.docids = view.postings
            /\ index.impacts = view.postings
            /\ index.positions = IF view.positions THEN view.postings ELSE Absent
            /\ index.lengths = T!LengthsIn(files) /\ index.vocab = files.vocab
<1>. DEFINE files == disk[t][level]
            index == T!LoadedCompressed(files)
            bin == [postings |-> view.postings, positions |-> view.positions]
<1>1. \A name : \A content : OnDisk(T!Write(<<t, level>>, name, content)) <=> files[name] = content
  BY DEF OnDisk, T!Write
<1>2. /\ files.manifest = "compressed" /\ files.cbor = "compressed" /\ files.bin = bin
      /\ files.docids = view.postings /\ files.impacts = view.postings
      /\ view.positions => files.positions = view.postings
  <2>. HIDE DEF files
  <2>. QED
    BY <1>1
<1>3. files.information = Absent
  BY TargetsAreDirs DEF DiskOK
<1>4. bin \in T!BinContents /\ view.postings \in T!Contents /\ view.positions \in BOOLEAN
  BY DEF Seen, T!BinContents
<1>5. /\ Absent # Short /\ Short # "compressed"
      /\ \A none \in {Absent, Short} : none \notin T!Contents /\ none \notin T!BinContents
  BY RewritingAssumption, NoneDiffer
<1>6. bin.postings = view.postings /\ bin.positions = view.positions
  OBVIOUS
<1>. HIDE DEF files, bin
<1>7. T!CompressedOpens(files)
  BY <1>2, <1>3, <1>4, <1>5 DEF T!CompressedOpens, T!ManifestAccepted, T!Whole, T!There
<1>8. ~T!ForwardOpens(files)
  BY <1>3 DEF T!ForwardOpens, T!Whole
<1>9. T!LoadedPositions(files) = IF view.positions THEN view.postings ELSE Absent
  BY <1>2, <1>4, <1>5, <1>6 DEF T!LoadedPositions, T!There
<1>10. /\ index.postings = files.bin.postings /\ index.docids = files.docids
       /\ index.impacts = files.impacts /\ index.positions = T!LoadedPositions(files)
       /\ index.lengths = T!LengthsIn(files) /\ index.vocab = files.vocab
  BY DEF T!LoadedCompressed
<1>. HIDE DEF index
<1>. QED
  BY <1>2, <1>6, <1>7, <1>8, <1>9, <1>10 DEF files, index

\* Where a pipeline leaves the postings, and the view it makes of an index.
LEMMA FinalFacts ==
  ASSUME NEW to, NEW pipeline \in T!Pipelines, NEW view, Seen(view)
  PROVE  LET final == T!ViewAt(pipeline, Len(pipeline) + 1, view)
             path == T!PathOf(to, pipeline, Len(pipeline) + 1)
         IN /\ Seen(final)
            /\ \/ path = <<to, "top">>
               \/ /\ path = <<to, "inner">> /\ final.positions = FALSE
                  /\ pipeline \notin {<<>>, <<"reorder">>}
            /\ pipeline \in {<<>>, <<"reorder">>} /\ view.lengths # Absent => final.lengths # Absent
<1>. DEFINE reordered == T!ReorderedIndexView(view)
            split == T!SplitIndexView(view)
<1>1. /\ Seen(reordered) /\ Seen(split) /\ Seen(T!ReorderedIndexView(split))
      /\ Seen(T!SplitIndexView(reordered))
      /\ T!ReorderedIndexView(split).positions = FALSE
      /\ view.lengths # Absent => reordered.lengths # Absent
  <2>1. Seen(reordered) /\ Seen(split)
    BY ViewFacts
  <2>2. view.lengths # Absent => reordered.lengths = T!Renumbered(view.lengths)
    BY ViewFacts
  <2>3. view.lengths # Absent => T!Renumbered(view.lengths) \in T!Contents
    BY RenumberedFacts DEF Seen
  <2>4. Absent \notin T!Contents
    BY RewritingAssumption, NoneDiffer
  <2>. HIDE DEF reordered, split
  <2>. QED
    BY <2>1, <2>2, <2>3, <2>4, ViewFacts
<1>2. split.positions = FALSE /\ T!SplitIndexView(reordered).positions = FALSE
  BY DEF T!SplitIndexView, T!ReorderedIndexView
<1>. DEFINE final == T!ViewAt(pipeline, Len(pipeline) + 1, view)
            path == T!PathOf(to, pipeline, Len(pipeline) + 1)
<1>3. \/ pipeline = <<>> /\ path = <<to, "top">> /\ final = view
      \/ pipeline = <<"reorder">> /\ path = <<to, "top">> /\ final = reordered
      \/ pipeline = <<"split">> /\ path = <<to, "inner">> /\ final = split
      \/ /\ pipeline = <<"reorder", "split">> /\ path = <<to, "inner">>
         /\ final = T!SplitIndexView(reordered)
      \/ /\ pipeline = <<"split", "reorder">> /\ path = <<to, "inner">>
         /\ final = T!ReorderedIndexView(split)
  BY Shapes DEF Shaped, T!Pipelines
<1>4. /\ <<"split">> \notin {<<>>, <<"reorder">>}
      /\ <<"reorder", "split">> \notin {<<>>, <<"reorder">>}
      /\ <<"split", "reorder">> \notin {<<>>, <<"reorder">>}
  OBVIOUS
<1>. HIDE DEF final, path, reordered, split
<1>. QED
  BY <1>1, <1>2, <1>3, <1>4 DEF final, path

\* A transform that finished is as complete as the properties say.
LEMMA DoneDelivers ==
  ASSUME DiskOK, NEW t \in Targets, DoneOK(t, wrote[t])
  PROVE  T!PostingsKept(t) /\ T!LengthsKept(t) /\ T!VocabularyKept(t)
<1>1. PICK asked : asked = wrote[t]
  OBVIOUS
<1>2. /\ DoneOK(t, asked) /\ asked.target = t /\ Asked(asked)
      /\ asked.pipeline \in T!Pipelines /\ Seen(T!ViewOf(asked.index))
  BY <1>1 DEF DoneOK, Asked
<1>. DEFINE pipeline == asked.pipeline
            final == T!ViewAt(pipeline, Len(pipeline) + 1, T!ViewOf(asked.index))
            path == T!PathOf(t, pipeline, Len(pipeline) + 1)
            top == disk[t]["top"]
            inner == disk[t]["inner"]
            index == T!Result(t)
<1>3. /\ Seen(final)
      /\ \/ path = <<t, "top">>
         \/ /\ path = <<t, "inner">> /\ final.positions = FALSE
            /\ pipeline \notin {<<>>, <<"reorder">>}
      /\ pipeline \in {<<>>, <<"reorder">>} /\ asked.index.lengths # Absent
           => final.lengths # Absent
  <2>1. T!ViewOf(asked.index).lengths = asked.index.lengths
    BY DEF T!ViewOf
  <2>. QED
    BY <1>2, <2>1, FinalFacts
<1>4. T!Compressed(t) = final
  BY <1>1 DEF T!Compressed
<1>5. T!LengthsWritten(asked) \/ T!VocabularyWritten(asked) => pipeline \in {<<>>, <<"reorder">>}
  BY <1>2 DEF T!LengthsWritten, T!VocabularyWritten, Asked, T!Calls
<1>6. /\ OnDisk(T!Write(path, "manifest", "compressed"))
      /\ OnDisk(T!Write(path, "cbor", "compressed"))
      /\ OnDisk(T!Write(path, "bin", [postings |-> final.postings, positions |-> final.positions]))
      /\ OnDisk(T!Write(path, "docids", final.postings))
      /\ OnDisk(T!Write(path, "impacts", final.postings))
      /\ final.positions => OnDisk(T!Write(path, "positions", final.postings))
      /\ path # <<t, "top">> => /\ OnDisk(T!Write(<<t, "top">>, "manifest", "split"))
                                /\ OnDisk(T!Write(<<t, "top">>, "cbor", "split"))
      /\ T!LengthsWritten(asked) => /\ OnDisk(T!Write(<<t, "top">>, "lengths", final.lengths))
                                    /\ OnDisk(T!Write(<<t, "top">>, "lengthsInfo", "information"))
  BY <1>2 DEF DoneOK, Owed
<1>7. "top" \in T!Levels /\ "inner" \in T!Levels
  BY DEF T!Levels
<1>. HIDE DEF final, path
<1>8. CASE path = <<t, "top">>
  <2>1. /\ T!CompressedOpens(top) /\ ~T!ForwardOpens(top)
        /\ T!LoadedCompressed(top).postings = final.postings
        /\ T!LoadedCompressed(top).docids = final.postings
        /\ T!LoadedCompressed(top).impacts = final.postings
        /\ T!LoadedCompressed(top).positions = IF final.positions THEN final.postings ELSE Absent
        /\ T!LoadedCompressed(top).lengths = T!LengthsIn(top)
        /\ T!LoadedCompressed(top).vocab = top.vocab
    BY <1>3, <1>6, <1>7, <1>8, CompressedLoads
  <2>2. T!Opens(disk[t]) /\ index = T!LoadedCompressed(top)
    BY <2>1 DEF T!Opens, T!Result, T!load_index
  <2>. HIDE DEF index
  <2>3. T!PostingsKept(t)
    BY <1>4, <2>1, <2>2 DEF T!PostingsKept, index
  <2>4. T!LengthsWritten(asked) => index.lengths = final.lengths
    <3>. SUFFICES ASSUME T!LengthsWritten(asked)
                  PROVE  T!LengthsIn(top) = final.lengths
      BY <2>1, <2>2
    <3>1. top.lengths = final.lengths /\ top.lengthsInfo = "information"
      BY <1>6 DEF OnDisk, T!Write
    <3>2. final.lengths # Absent /\ final.lengths \in T!Contents \cup {Absent}
      BY <1>3, <1>5 DEF T!LengthsWritten, Seen
    <3>3. final.lengths # Short /\ "information" # Absent /\ "information" # Short
      BY <3>2, RewritingAssumption, NoneDiffer
    <3>. QED
      BY <3>1, <3>2, <3>3 DEF T!LengthsIn, T!Whole
  <2>5. T!LengthsKept(t)
    BY <1>1, <1>4, <2>4 DEF T!LengthsKept, index
  <2>6. T!VocabularyKept(t)
    <3>1. T!VocabularyWritten(asked) => inodes[top.vocab] = asked.words
      BY <1>2 DEF DoneOK, HasWords, VocabOf
    <3>. QED
      BY <1>1, <2>1, <2>2, <3>1 DEF T!VocabularyKept, index
  <2>. QED
    BY <2>3, <2>5, <2>6
<1>9. CASE path # <<t, "top">>
  <2>1. /\ path = <<t, "inner">> /\ final.positions = FALSE
        /\ ~T!LengthsWritten(asked) /\ ~T!VocabularyWritten(asked)
    BY <1>3, <1>5, <1>9
  <2>2. /\ T!CompressedOpens(inner)
        /\ T!LoadedCompressed(inner).postings = final.postings
        /\ T!LoadedCompressed(inner).docids = final.postings
        /\ T!LoadedCompressed(inner).impacts = final.postings
    BY <1>3, <1>6, <1>7, <2>1, CompressedLoads
  <2>3. top.manifest = "split" /\ top.cbor = "split" /\ top.information = Absent
    <3>1. top.manifest = "split" /\ top.cbor = "split"
      BY <1>6, <1>9 DEF OnDisk, T!Write
    <3>2. top.information = Absent
      BY <1>7, TargetsAreDirs DEF DiskOK
    <3>. QED
      BY <3>1, <3>2
  <2>4. ~T!ForwardOpens(top) /\ ~T!CompressedOpens(top) /\ Short # "split"
    BY <2>3, RewritingAssumption, NoneDiffer DEF T!ForwardOpens, T!CompressedOpens, T!Whole
  <2>5. T!Opens(disk[t]) /\ index = T!LoadedSplit(T!LoadedCompressed(inner))
    BY <2>2, <2>3, <2>4 DEF T!Opens, T!SplitOpens, T!ManifestAccepted, T!Result, T!load_index
  <2>6. /\ DOMAIN T!LoadedCompressed(inner) =
             {"postings", "docids", "impacts", "lengths", "map", "analyzer", "positions", "vocab"}
        /\ T!LoadedSplit(T!LoadedCompressed(inner)).positions = Absent
        /\ T!LoadedSplit(T!LoadedCompressed(inner)).postings = T!LoadedCompressed(inner).postings
        /\ T!LoadedSplit(T!LoadedCompressed(inner)).docids = T!LoadedCompressed(inner).docids
        /\ T!LoadedSplit(T!LoadedCompressed(inner)).impacts = T!LoadedCompressed(inner).impacts
    BY DEF T!LoadedSplit, T!LoadedCompressed
  <2>. HIDE DEF index
  <2>7. T!PostingsKept(t)
    BY <1>4, <2>1, <2>2, <2>5, <2>6 DEF T!PostingsKept, index
  <2>. QED
    BY <1>1, <2>1, <2>7 DEF T!LengthsKept, T!VocabularyKept
<1>. QED
  BY <1>8, <1>9

\* Nothing a transform writes is read through the name of a source, or through its
\* link to a vocabulary.
LEMMA TransformsSpareTheSources ==
  ASSUME TransformsInv, T!Next
  PROVE  T!SourcesKept
<1>. SUFFICES ASSUME NEW s \in Sources
              PROVE  /\ disk'[s] = disk[s]
                     /\ VocabOf(s) # Absent => inodes'[VocabOf(s)] = inodes[VocabOf(s)]
  BY DEF T!SourcesKept, VocabOf, T!There
<1>1. /\ s \in T!Dirs /\ s \notin Targets
      /\ DiskOK /\ inodes \in [T!Dirs -> T!Dirs \cup {Short}]
  BY RewritingAssumption DEF TransformsInv, T!TransformsAssumption, T!Dirs
<1>2. CASE T!WriteNext /\ Head(plan).file = "words"
  <2>1. PICK asked : asked = job
    OBVIOUS
  <2>. DEFINE t == asked.target
              w == Head(plan)
  <2>2. /\ JobOK(asked) /\ plan # <<>> /\ t \in Targets /\ t \in T!Dirs
        /\ plan \in Seq(WritesTo(t)) /\ w \in WritesTo(t)
    BY <1>2, <2>1, UnderWay, TargetsAreDirs DEF T!WriteNext, JobOK
  <2>3. w.path = <<t, "top">> /\ w.content \in T!Dirs \cup {Short}
    <3>1. w.path \in Targets \X T!Levels /\ w.path[1] = t /\ w.path[2] = "top"
      BY <1>2, <2>2 DEF WritesTo, Writes
    <3>2. w.content \in T!Dirs \cup {Short}
      BY <1>2, <2>2 DEF WritesTo, Proper
    <3>. QED
      BY <3>1, <3>2
  <2>4. T!WriteVocab(<<t, "top">>, w.content)
    BY <1>2, <2>3 DEF T!WriteNext
  <2>5. Alone(t)
    <3>1. ~Without(plan, "words") /\ ~Removes(plan)
      BY <1>2, <2>2, TailCareful
    <3>. QED
      BY <2>2, <3>1 DEF JobOK, WordsApart
  <2>6. PICK inode \in T!Dirs :
          /\ disk' = [disk EXCEPT ![t]["top"].vocab = inode]
          /\ inodes' = [inodes EXCEPT ![inode] =
                          IF w.content = Short THEN Short ELSE inodes[w.content]]
          /\ \A other \in T!Dirs \ {t} : VocabOf(other) # inode
    BY <1>1, <2>2, <2>4, <2>5, WriteVocabFacts
  <2>. QED
    BY <1>1, <2>2, <2>6 DEF DiskOK
<1>3. CASE T!WriteNext /\ Head(plan).file # "words"
  <2>1. PICK asked : asked = job
    OBVIOUS
  <2>2. /\ JobOK(asked) /\ plan # <<>> /\ asked.target \in Targets
        /\ Head(plan) \in WritesTo(asked.target)
    <3>1. plan # <<>>
      BY <1>3 DEF T!WriteNext
    <3>2. JobOK(asked)
      BY <2>1, <3>1, UnderWay
    <3>3. asked.target \in Targets /\ plan \in Seq(WritesTo(asked.target))
      BY <3>2 DEF JobOK
    <3>. QED
      BY <3>1, <3>2, <3>3
  <2>3. PICK w : w = Head(plan)
    OBVIOUS
  <2>4. w.path[1] = asked.target
    BY <2>2, <2>3 DEF WritesTo
  <2>5. /\ disk' = [disk EXCEPT ![w.path[1]][w.path[2]][w.file] = w.content]
        /\ inodes' = inodes
    BY <1>3, <2>3 DEF T!WriteNext
  <2>. QED
    BY <1>1, <2>2, <2>4, <2>5
<1>4. CASE T!Finish \/ T!Crash
  BY <1>4 DEF T!Finish, T!Crash
<1>5. CASE \E from \in T!Dirs, to \in Targets, pipeline \in T!Pipelines,
              call \in T!Calls, lossless, linked \in BOOLEAN :
             T!Start(from, to, pipeline, call, lossless, linked)
  BY <1>5 DEF T!Start
<1>. QED
  BY <1>2, <1>3, <1>4, <1>5 DEF T!Next

-----------------------------------------------------------------------------
(***************************************************************************)
(* The theorems                                                            *)
(***************************************************************************)
\* Whatever stops the calls and in whatever order they are made, the directories
\* and the calls under way are as the inductive invariant says, or nothing is updated.
LEMMA UpdateInvariant ==
  DirSpec => []((kind = "migration" /\ IInv) \/ (kind = "transforms" /\ IdleMigration))
<1>1. DirInit => (kind = "migration" /\ IInv) \/ (kind = "transforms" /\ IdleMigration)
  <2>1. Init => IInv
    BY InitInvariant
  <2>. QED
    BY <2>1 DEF DirInit
<1>2. kind = "migration" /\ IInv /\ [DirNext]_dirVars => (kind = "migration" /\ IInv)'
  <2> SUFFICES ASSUME kind = "migration", IInv, [DirNext]_dirVars
               PROVE  (kind = "migration" /\ IInv)'
    OBVIOUS
  <2>1. [Next]_vars /\ UNCHANGED kind
    BY DEF DirNext, dirVars, ofMigration, vars
  <2>. QED
    BY <2>1, NextKeeps
<1>3. kind = "transforms" /\ IdleMigration /\ [DirNext]_dirVars
        => (kind = "transforms" /\ IdleMigration)'
  <2>1. kind = "transforms" /\ [DirNext]_dirVars => UNCHANGED <<kind, ofMigration>>
    BY DEF DirNext, dirVars
  <2>2. IdleMigration /\ UNCHANGED ofMigration => IdleMigration'
    BY DEF ofMigration, IdleMigration
  <2>. QED
    BY <2>1, <2>2
<1>. QED
  BY <1>1, <1>2, <1>3, PTL DEF DirSpec

\* Whatever is called, from what state an earlier call or a crash left, transforms keep
\* their invariant, and updates have nothing to do with it.
LEMMA TransformsInvariant == DirSpec => []TransformsInv
<1>1. DirInit => TransformsInv
  BY TransformsInvInit DEF DirInit, IdleTransforms
<1>2. /\ ((kind = "migration" /\ IInv) \/ (kind = "transforms" /\ IdleMigration))'
      /\ TransformsInv /\ [DirNext]_dirVars
      => TransformsInv'
  <2>. SUFFICES ASSUME ((kind = "migration" /\ IInv) \/ (kind = "transforms" /\ IdleMigration))',
                       TransformsInv, [DirNext]_dirVars
                PROVE  TransformsInv'
    OBVIOUS
  <2>1. CASE kind = "transforms" /\ T!Next
    BY <2>1, TransformsKeep
  <2>2. CASE kind = "migration" /\ Next /\ UNCHANGED ofTransforms /\ UNCHANGED kind
    <3>1. CountersOK'
      BY <2>2 DEF IInv
    <3>. QED
      BY <2>2, <3>1, OthersKeep DEF CountersOK
  <2>3. CASE UNCHANGED dirVars
    BY <2>3, OthersKeep DEF dirVars, TransformsInv
  <2>. QED
    BY <2>1, <2>2, <2>3 DEF DirNext
<1>. QED
  BY <1>1, <1>2, UpdateInvariant, PTL DEF DirSpec

\* Where nothing is updated there is no file of an index.
LEMMA IdleFacts ==
  ASSUME IdleMigration
  PROVE  /\ Idle /\ target = "index" /\ outcome = "none" /\ calls = 0
         /\ \A path \in Paths : At(path) = NoFiles
BY DEF IdleMigration, Idle, Paths, At, NoFiles

\* The state of an update is well-formed: update_index calls itself at most once.
LEMMA UpdateTypes ==
  ASSUME IInv
  PROVE  MigrationTypeOK
<1>1. \A path \in Paths : DOMAIN At(path) = FileNames
  BY DEF IInv, TreeOK, Paths, Roots, At
<1>2. ASSUME NEW f \in Frames
      PROVE  f.path \in Paths /\ f.version \in 0 .. 4
  BY DEF Frames, Paths, Roots, CURRENT_FORMAT_VERSION
<1>3. Len(stack) <= 2 /\ \A i \in DOMAIN stack : stack[i] \in Frames
  <2>1. CASE stack = <<>>
    BY <2>1
  <2>2. CASE stack # <<>>
    <3>1. StackOK
      BY <2>2 DEF IInv, RunOK
    <3>2. ASSUME NEW f \in Frames, stack = <<f>>
          PROVE  Len(stack) <= 2 /\ \A i \in DOMAIN stack : stack[i] \in Frames
      BY <3>2
    <3>3. ASSUME NEW g \in Frames, NEW f \in Frames, stack = <<g, f>>
          PROVE  Len(stack) <= 2 /\ \A i \in DOMAIN stack : stack[i] \in Frames
      BY <3>3
    <3>. QED
      BY <3>1, <3>2, <3>3 DEF StackOK
  <2>. QED
    BY <2>1, <2>2
<1>. QED
  BY <1>1, <1>2, <1>3 DEF MigrationTypeOK, IInv, CountersOK

\* A manifest never promises more than the data it describes, whatever stopped an
\* update between its writes, as long as no copy was made over an earlier one.
THEOREM ManifestsClaimWhatTheyHave == DirSpec => []ClaimsWhatItHas
<1>1. IInv => ClaimsWhatItHas
  <2>. SUFFICES ASSUME IInv, ~overwritten, NEW r \in Roots, NEW l \in Levels,
                       Whole(tree[r][l].manifest), Whole(tree[r][l].bin)
                PROVE  tree[r][l].bin.version >= Promised(tree[r][l].manifest.version)
    BY DEF ClaimsWhatItHas, Paths, Roots, At, Whole
  <2>1. Faithful(r, l)
    BY DEF IInv, IndexOK, CopyOK, Roots
  <2>. QED
    BY <2>1 DEF Faithful
<1>2. IdleMigration => ClaimsWhatItHas
  BY IdleFacts DEF ClaimsWhatItHas, NoFiles, FileNames
<1>. QED
  BY <1>1, <1>2, UpdateInvariant, PTL

\* An update that returns leaves an index that loads, none of whose blocks was
\* misread, after any number of crashes and earlier calls.
THEOREM ReturnedUpdateLoads == DirSpec => []UpdatedLoads
<1>1. IInv => UpdatedLoads
  <2>. SUFFICES ASSUME IInv, outcome = "updated", ~(overwritten /\ Unversioned("index"))
                PROVE  Migrated(target)
    BY DEF UpdatedLoads
  <2>1. Trusted
    BY DEF Trusted
  <2>2. Idle /\ Loads(target) /\ \A level \in Levels : WellRead(target, level)
    BY <2>1 DEF IInv, UpdatedOK
  <2>3. ASSUME NEW level \in Levels, tree[target][level].bin # Absent
        PROVE  tree[target][level].bin.lengths # "misread"
    <3>1. target \in Roots /\ IndexOK /\ CopyOK
      BY DEF IInv, CountersOK
    <3>2. tree["index"][level].bin # Absent
      BY <2>3, <3>1 DEF CopyOK, Data, FileNames, Roots
    <3>3. Of(level) = "compressed" /\ (level = "inner" => Of("top") = "split")
      BY <3>1, <3>2, BinFacts
    <3>4. Layout(tree[target], "top") = Of("top")
      BY <2>2, <3>1, LoadedLayout DEF Levels
    <3>5. DataLoads(<<target, level>>) /\ (level = "inner" => Held(tree[target], "inner"))
      BY <2>2, <3>3, <3>4 DEF Loads, detect_index_kind, Layout, Levels
    <3>6. Layout(tree[target], level) = "compressed"
      BY <2>2, <3>1, <3>3, <3>5, LoadedLayout
    <3>7. tree[target][level].bin # Short
      BY <3>5, <3>6 DEF DataLoads, detect_index_kind, At
    <3>. QED
      BY <2>2, <2>3, <3>7 DEF WellRead, Whole
  <2>. QED
    BY <2>2, <2>3 DEF Migrated
<1>2. IdleMigration => UpdatedLoads
  BY IdleFacts DEF UpdatedLoads
<1>. QED
  BY <1>1, <1>2, UpdateInvariant, PTL

\* A call fails on a half-written manifest or on one of a later version only:
\* every other crash leaves what the next call brings up to date.
THEOREM FailsOnManifestsOnly == DirSpec => []ResumesUnlessManifest
<1>1. IInv => ResumesUnlessManifest
  BY DEF IInv
<1>2. IdleMigration => ResumesUnlessManifest
  BY IdleFacts DEF ResumesUnlessManifest
<1>. QED
  BY <1>1, <1>2, UpdateInvariant, PTL

\* Once a copy is being made, no step of it and none of its migration writes to the
\* index it is of.
LEMMA UpdateSparesTheIndex ==
  ASSUME IInv, Next
  PROVE  OriginalUnchanged
<1>. SUFFICES ASSUME ~Idle, target = "copy"
              PROVE  tree'["index"] = tree["index"]
  BY DEF OriginalUnchanged
<1>. DEFINE Unwritten == tree'["index"] = tree["index"]
<1>1. ASSUME stack # <<>>, NEW name, NEW content, Put(Top.path, name, content)
      PROVE  Unwritten
  <2>1. PICK level \in Levels, f \in Frames : Top = f /\ FrameOK(f, level)
    BY <1>1, TopFacts
  <2>2. Top.path = <<"copy", level>>
    BY <2>1 DEF FrameOK
  <2>3. tree' = [tree EXCEPT !["copy"][level][name] = content]
    BY <1>1, <2>2 DEF Put
  <2>. QED
    BY <2>3 DEF IInv, TreeOK, Roots
<1>2. CASE BeginInPlace \/ BeginCopy
  BY <1>2 DEF BeginInPlace, BeginCopy
<1>3. CASE CopyNext
  BY <1>3, CopyFileFacts DEF CopyNext
<1>4. CASE RewriteData
  BY <1>1, <1>4 DEF RewriteData, Fail
<1>5. CASE Stamp \/ Stamped
  BY <1>1, <1>5 DEF Stamp, Stamped, Fail
<1>6. CASE Enter \/ Newer \/ Return \/ Step
  BY <1>6 DEF Enter, Newer, Return, Step, Fail
<1>7. CASE Crash
  BY <1>7 DEF Crash
<1>8. CASE \E root \in {"index", "copy"}, level \in Levels : StampLegacy(root, level)
  BY <1>8 DEF StampLegacy
<1>. QED
  BY <1>2, <1>3, <1>4, <1>5, <1>6, <1>7, <1>8 DEF Next, Migrate

\* The directories are well-formed: update_index calls itself at most once, and every
\* write that is still to come is one to the target of the transform under way.
THEOREM DirectoriesWellFormed == DirSpec => []DirTypeOK
<1>1. TransformsInv => T!TransformsTypeOK
  <2>. SUFFICES ASSUME TransformsInv
                PROVE  T!TransformsTypeOK
    OBVIOUS
  <2>1. \A i \in DOMAIN plan : plan[i].path[1] = job.target
    <3>1. CASE plan = <<>>
      BY <3>1
    <3>2. CASE plan # <<>>
      <4>1. plan \in Seq(WritesTo(job.target))
        BY <3>2, UnderWay DEF JobOK
      <4>. QED
        BY <4>1 DEF WritesTo
    <3>. QED
      BY <3>1, <3>2
  <2>2. \A dir \in T!Dirs, level \in T!Levels :
          DOMAIN disk[dir][level] = DOMAIN T!NoFiles
    BY NamesFacts DEF TransformsInv, DiskOK
  <2>. QED
    BY <2>1, <2>2 DEF T!TransformsTypeOK, TransformsInv
<1>2. IInv => MigrationTypeOK
  BY UpdateTypes
<1>3. IdleMigration /\ TransformsInv => MigrationTypeOK
  BY MigrationAssumption
     DEF IdleMigration, TransformsInv, MigrationTypeOK, MigrationAssumption, Paths, At
<1>. QED
  BY <1>1, <1>2, <1>3, UpdateInvariant, TransformsInvariant, PTL DEF DirTypeOK

\* A transform that returns leaves an index that opens, with the postings, the lengths
\* and the words of the index it was given, over whatever was in the directory: an
\* earlier transform that finished, or one that was interrupted anywhere.
THEOREM FinishedTransformsAreComplete == DirSpec => []Complete
<1>1. TransformsInv => Complete
  <2>. SUFFICES ASSUME TransformsInv, NEW t \in Targets, wrote[t] # T!Idle
                PROVE  /\ T!PostingsKept(t) /\ T!LengthsKept(t)
                       /\ T!VocabularyKept(t)
    BY DEF Complete, T!TransformComplete, T!Done
  <2>1. DiskOK /\ DoneOK(t, wrote[t])
    BY DEF TransformsInv
  <2>. QED
    BY <2>1, DoneDelivers
<1>. QED
  BY <1>1, TransformsInvariant, PTL

\* No step of a transform changes a source or the vocabulary it has, through a link
\* neither, and none of an update of a copy changes the index that was copied.
THEOREM WhatIsReadStays == DirSpec => SourcesUntouched
<1>1. ASSUME (kind = "migration" /\ IInv) \/ (kind = "transforms" /\ IdleMigration),
             TransformsInv, [DirNext]_dirVars
      PROVE  [T!SourcesKept /\ OriginalUnchanged]_dirVars
  <2>1. CASE kind = "transforms" /\ T!Next /\ UNCHANGED ofMigration
    <3>1. T!SourcesKept
      BY <1>1, <2>1, TransformsSpareTheSources
    <3>2. OriginalUnchanged
      BY <2>1 DEF OriginalUnchanged, ofMigration
    <3>. QED
      BY <3>1, <3>2
  <2>2. CASE kind = "migration" /\ Next /\ UNCHANGED ofTransforms
    <3>1. T!SourcesKept
      BY <2>2 DEF T!SourcesKept, ofTransforms
    <3>2. OriginalUnchanged
      BY <1>1, <2>2, UpdateSparesTheIndex
    <3>. QED
      BY <3>1, <3>2
  <2>. QED
    BY <1>1, <2>1, <2>2 DEF DirNext
<1>. QED
  BY <1>1, UpdateInvariant, TransformsInvariant, PTL DEF DirSpec, SourcesUntouched
-----------------------------------------------------------------------------
(***************************************************************************)
(* What a search over a split index reads: the cursor that merges the      *)
(* splits of a term.  It keeps the contract of a cursor over one list, for *)
(* all lists, cuts into splits and calls.                                  *)
(***************************************************************************)
CONSTANT NoLimit
VARIABLES source, cursor, seen, reply

Merging == INSTANCE SplitCursor
CursorContract ==
  INSTANCE PostingCursor WITH list <- Merging!Postings, term <- Merging!Term

AnyPosting == [doc : Nat, value : Nat, run : Seq(Nat)]

InDocOrder(list) == \A i, j \in DOMAIN list : i < j => list[i].doc < list[j].doc

(***************************************************************************)
(* The lists are in the order of documents and share none: what IsSource   *)
(* says, in the words of the proofs.                                       *)
(***************************************************************************)
SplitsOK ==
  /\ NoLimit \in Nat
  /\ source.lists \in Seq(Seq(AnyPosting))
  /\ \A k \in DOMAIN source.lists : InDocOrder(source.lists[k])
  /\ \A k, l \in DOMAIN source.lists :
       \A i \in DOMAIN source.lists[k], j \in DOMAIN source.lists[l] :
         source.lists[k][i].doc = source.lists[l][j].doc => k = l
  /\ source.ceiling \in Nat /\ source.floor \in Nat
  /\ source.postings = Merging!Merged(source.lists, source.ceiling, source.floor)

\* The lists, the target of the moves, what is counted of a posting, and the
\* posting a cursor of a split is at.
Splits == source.lists
Target == cursor.target
Counts(p) == Merging!Counted(p, source.ceiling, source.floor)
NextOf(i) == Merging!ChildNext(cursor.children[i])
PostingOf(i) == Merging!ChildPosting(cursor.children[i])

\* The types.
CursorOK ==
  /\ cursor \in [doing : {"idle", "opening", "moving", "reading"}, asking : 0 .. NoLimit,
                 children : [DOMAIN Splits -> [list : Seq(AnyPosting), at : Nat, least : Nat]],
                 heap : SUBSET [index : DOMAIN Splits, doc : Nat,
                                posting : [doc : Int, value : Int, run : {<<>>}]],
                 initialized : BOOLEAN, target : Nat, last : Int]
  /\ IsFiniteSet(cursor.heap)
  /\ seen \in [at : 0 .. Len(source.postings), least : Nat, asked : Nat, moved : BOOLEAN]

\* No cursor of a split was asked for more than the merged one.
ChildrenOK ==
  \A i \in DOMAIN Splits :
    LET child == cursor.children[i] IN
    /\ child.list = Splits[i]
    /\ child.at \in 0 .. Len(Splits[i])
    /\ child.least <= Target

\* An entry is not above the posting of its cursor, which is the first from the
\* target on; one that was read is that posting.
EntriesOK ==
  /\ \A e, f \in cursor.heap : e.index = f.index => e = f
  /\ \A e \in cursor.heap :
       LET child == cursor.children[e.index] IN
       /\ child.at # 0 => Splits[e.index][child.at].doc <= e.doc
       /\ NextOf(e.index) \in DOMAIN Splits[e.index]
       /\ e.doc <= PostingOf(e.index).doc
       /\ \A j \in DOMAIN Splits[e.index] :
            Splits[e.index][j].doc >= Target => Splits[e.index][j].doc >= PostingOf(e.index).doc
       /\ e.posting # Merging!NotRead =>
            e.posting = Counts(PostingOf(e.index)) /\ e.doc = PostingOf(e.index).doc

\* A cursor outside the heap has nothing left.
AbsentOK ==
  cursor.initialized =>
    \A i \in DOMAIN Splits : (\A e \in cursor.heap : e.index # i) =>
      \A j \in DOMAIN Splits[i] : Splits[i][j].doc < Target

\* Nothing happens before the first move.
UnusedOK ==
  ~cursor.initialized =>
    /\ cursor.heap = {}
    /\ \A i \in DOMAIN Splits : cursor.children[i].at = 0
    /\ reply = Merging!Start
    /\ cursor.doing \in {"idle", "opening"}

\* The end is the answer for an empty heap, and only then.
AnswerOK ==
  /\ cursor.doing = "opening" => ~cursor.initialized
  /\ reply = Merging!Ended => cursor.heap = {}
  /\ cursor.doing \in {"idle", "reading"} /\ reply \notin {Merging!Start, Merging!Ended} =>
       cursor.heap # {}
  /\ cursor.doing = "reading" => reply \notin {Merging!Start, Merging!Ended}

(***************************************************************************)
(* What the caller has seen: between two calls the target is what it asked *)
(* for, and nothing in the heap is behind it; the posting it read last is  *)
(* the first from there on, unless it moved since.                         *)
(***************************************************************************)
SeenOK ==
  /\ seen.least <= seen.asked
  /\ cursor.last = IF seen.at = 0 THEN -1 ELSE source.postings[seen.at].doc
  /\ IF cursor.doing \in {"idle", "reading"}
     THEN /\ Target = seen.asked
          /\ \A e \in cursor.heap : e.doc >= Target
          /\ seen.at # 0 /\ cursor.last >= seen.least =>
               /\ cursor.last >= Target
               /\ \A i \in DOMAIN source.postings :
                    source.postings[i].doc >= Target => cursor.last <= source.postings[i].doc
     ELSE Target = Merging!Max({cursor.asking, seen.asked, cursor.last + 1})

\* The inductive invariant.
SplitInv ==
  /\ SplitsOK /\ CursorOK /\ ChildrenOK /\ EntriesOK /\ AbsentOK /\ UnusedOK /\ AnswerOK /\ SeenOK

-----------------------------------------------------------------------------
\* The cursor's counting is the one the lemmas are about.
LEMMA SameCardinality ==
  ASSUME NEW S
  PROVE  Merging!Cardinality(S) = Cardinality(S)
  BY DEF Merging!Cardinality, Cardinality

\* The largest and the smallest member of a set of integers, of two and of three.
LEMMA MaxIs ==
  ASSUME NEW S, S \subseteq Int, NEW m \in S, \A x \in S : x <= m
  PROVE  Merging!Max(S) = m
<1>1. \A y \in S : m >= y
  OBVIOUS
<1>2. \A x \in S : (\A y \in S : x >= y) => x = m
  OBVIOUS
<1>3. QED
  BY <1>1, <1>2 DEF Merging!Max

LEMMA MinIs ==
  ASSUME NEW S, S \subseteq Int, NEW m \in S, \A x \in S : m <= x
  PROVE  Merging!Min(S) = m
<1>1. \A x \in S : (\A y \in S : x <= y) => x = m
  OBVIOUS
<1>2. QED
  BY <1>1 DEF Merging!Min

LEMMA MaxOfFinite ==
  ASSUME NEW S, IsFiniteSet(S), S \subseteq Int, S # {}
  PROVE  Merging!Max(S) \in S /\ \A x \in S : x <= Merging!Max(S)
<1>1. Max(S) \in S /\ \A x \in S : x <= Max(S)
  BY LargestMember
<1>2. QED
  BY <1>1, MaxIs

LEMMA MinOfFinite ==
  ASSUME NEW S, IsFiniteSet(S), S \subseteq Int, S # {}
  PROVE  Merging!Min(S) \in S /\ \A x \in S : Merging!Min(S) <= x
<1>1. Min(S) \in S /\ \A x \in S : Min(S) <= x
  BY SmallestMember
<1>2. QED
  BY <1>1, MinIs

LEMMA MaxOfTwo ==
  ASSUME NEW a \in Int, NEW b \in Int
  PROVE  Merging!Max({a, b}) = IF a >= b THEN a ELSE b
<1>1. CASE a >= b
  BY <1>1, MaxIs
<1>2. CASE ~(a >= b)
  BY <1>2, MaxIs
<1>3. QED
  BY <1>1, <1>2

LEMMA MinOfTwo ==
  ASSUME NEW a \in Int, NEW b \in Int
  PROVE  Merging!Min({a, b}) = IF a <= b THEN a ELSE b
<1>1. CASE a <= b
  BY <1>1, MinIs
<1>2. CASE ~(a <= b)
  BY <1>2, MinIs
<1>3. QED
  BY <1>1, <1>2

LEMMA MaxOfThree ==
  ASSUME NEW a \in Int, NEW b \in Int, NEW c \in Int
  PROVE  LET m == Merging!Max({a, b, c}) IN
         m \in {a, b, c} /\ m >= a /\ m >= b /\ m >= c
<1>1. CASE a >= b /\ a >= c
  BY <1>1, MaxIs
<1>2. CASE b >= a /\ b >= c
  BY <1>2, MaxIs
<1>3. CASE c >= a /\ c >= b
  BY <1>3, MaxIs
<1>4. QED
  BY <1>1, <1>2, <1>3

\* The first posting of a list from a document on.
LEMMA FirstFromFacts ==
  ASSUME NEW list \in Seq(AnyPosting), NEW d \in Int
  PROVE  LET n == Merging!FirstFrom(list, d) IN
         IF \E i \in DOMAIN list : list[i].doc >= d
         THEN /\ n \in DOMAIN list /\ list[n].doc >= d
              /\ \A i \in DOMAIN list : list[i].doc >= d => n <= i
         ELSE n = 0
<1> DEFINE later == {i \in DOMAIN list : list[i].doc >= d}
<1>1. later \subseteq 1 .. Len(list) /\ IsFiniteSet(1 .. Len(list)) /\ later \subseteq Int
  BY FS_Interval
<1>2. IsFiniteSet(later)
  BY <1>1, FS_Subset
<1>3. later # {} => Merging!Min(later) \in later /\ \A i \in later : Merging!Min(later) <= i
  BY <1>1, <1>2, MinOfFinite
<1>4. Merging!FirstFrom(list, d) = IF later = {} THEN 0 ELSE Merging!Min(later)
  BY DEF Merging!FirstFrom
<1> HIDE DEF later
<1>5. \A i : i \in later <=> i \in DOMAIN list /\ list[i].doc >= d
  BY DEF later
<1>6. QED
  BY <1>3, <1>4, <1>5

(***************************************************************************)
(* A cursor moved forward is where its list has the first document asked   *)
(* for; what the move answers is no bound above it.                        *)
(***************************************************************************)
IsMoved(moved, child, list, t) ==
  /\ moved \in [list : Seq(AnyPosting), at : Nat, least : Nat]
  /\ moved.list = list /\ moved.at = child.at /\ moved.least = t
  /\ Merging!ChildEnded(moved) => \A j \in DOMAIN list : list[j].doc < t
  /\ ~Merging!ChildEnded(moved) =>
       /\ Merging!ChildNext(moved) \in DOMAIN list
       /\ Merging!ChildPosting(moved).doc >= t
       /\ \A j \in DOMAIN list :
            list[j].doc >= t => list[j].doc >= Merging!ChildPosting(moved).doc
       /\ \A bound \in Merging!ChildBounds(moved) :
            /\ Merging!Max({bound, t}) \in Nat
            /\ Merging!Max({bound, t}) >= t
            /\ Merging!Max({bound, t}) <= Merging!ChildPosting(moved).doc

LEMMA ChildMoved ==
  ASSUME NEW list \in Seq(AnyPosting), InDocOrder(list), NEW child, NEW t \in Nat,
         child \in [list : Seq(AnyPosting), at : Nat, least : Nat], child.list = list,
         child.at \in 0 .. Len(list), child.least <= t,
         child.at # 0 => list[child.at].doc < t
  PROVE  IsMoved(Merging!ChildMove(child, t), child, list, t)
<1> DEFINE moved == Merging!ChildMove(child, t)
           past == Merging!ChildPast(child)
           n == Merging!FirstFrom(list, t)
<1>0. \A i \in DOMAIN list : list[i] \in AnyPosting /\ list[i].doc \in Nat
  <2>1. \A i \in DOMAIN list : list[i] \in AnyPosting
    OBVIOUS
  <2>2. QED
    BY <2>1 DEF AnyPosting
<1>1. past \in Nat /\ past <= t
  <2>1. CASE child.at = 0
    BY <2>1 DEF Merging!ChildPast
  <2>2. CASE child.at # 0
    <3>1. child.at \in DOMAIN list
      BY <2>2
    <3>2. past = list[child.at].doc + 1
      BY <2>2 DEF Merging!ChildPast
    <3>3. QED
      BY <3>1, <3>2, <2>2, <1>0
  <2>3. QED
    BY <2>1, <2>2
<1>2. Merging!Max({t, past, child.least}) = t
  <2>1. {t, past, child.least} \subseteq Int /\ child.least <= t
    BY <1>1
  <2>2. \A x \in {t, past, child.least} : x <= t
    BY <1>1
  <2>3. QED
    BY <2>1, <2>2, MaxIs
<1>3. moved = [child EXCEPT !.least = t]
  BY <1>2 DEF Merging!ChildMove
<1>4. /\ moved \in [list : Seq(AnyPosting), at : Nat, least : Nat]
      /\ moved.list = list /\ moved.at = child.at /\ moved.least = t
  BY <1>3
<1> HIDE DEF moved
<1>5. ~(moved.at # 0 /\ moved.list[moved.at].doc >= moved.least)
  <2>1. CASE child.at # 0
    <3>1. list[child.at].doc \in Nat /\ list[child.at].doc < t
      BY <2>1, <1>0
    <3>2. QED
      BY <3>1, <1>4
  <2>2. QED
    BY <2>1, <1>4
<1>6. Merging!ChildNext(moved) = n
  BY <1>4, <1>5 DEF Merging!ChildNext
<1>7. Merging!ChildEnded(moved) <=> n = 0
  BY <1>6 DEF Merging!ChildEnded
<1>8. CASE n = 0
  <2>1. \A j \in DOMAIN list : ~(list[j].doc >= t)
    BY <1>8, FirstFromFacts
  <2>2. \A j \in DOMAIN list : list[j].doc < t
    BY <2>1, <1>0
  <2>3. QED
    BY <2>2, <1>4, <1>7, <1>8 DEF moved, IsMoved
<1>9. CASE n # 0
  <2>1. n \in DOMAIN list /\ list[n].doc >= t /\ \A i \in DOMAIN list : list[i].doc >= t => n <= i
    BY <1>9, FirstFromFacts
  <2>2. Merging!ChildPosting(moved) = list[n]
    BY <1>4, <1>6 DEF Merging!ChildPosting
  <2>3. \A i, j \in DOMAIN list : i <= j => list[i].doc <= list[j].doc
    <3>1. TAKE i, j \in DOMAIN list
    <3>2. i \in Int /\ j \in Int
      OBVIOUS
    <3>3. CASE i = j
      BY <3>3, <1>0
    <3>4. CASE i < j
      BY <3>4, <1>0 DEF InDocOrder
    <3>5. QED
      BY <3>2, <3>3, <3>4
  <2>4. \A j \in DOMAIN list : list[j].doc >= t => list[j].doc >= list[n].doc
    BY <2>1, <2>3, <1>0
  <2>5. 1 \in DOMAIN list /\ list[1].doc <= list[n].doc
    <3>1. 1 \in DOMAIN list /\ 1 <= n
      BY <2>1
    <3>2. QED
      BY <3>1, <2>1, <2>3
  <2>6. ASSUME NEW bound \in Merging!ChildBounds(moved)
        PROVE  /\ bound \in Nat /\ Merging!Max({bound, t}) \in Nat
               /\ Merging!Max({bound, t}) >= t /\ Merging!Max({bound, t}) <= list[n].doc
    <3>1. bound \in {t, list[1].doc, list[n].doc}
      BY <1>4, <1>6 DEF Merging!ChildBounds
    <3>2. bound \in Nat /\ bound <= list[n].doc
      BY <3>1, <2>1, <2>5, <1>0
    <3>3. Merging!Max({bound, t}) = IF bound >= t THEN bound ELSE t
      BY <3>2, MaxOfTwo
    <3>4. QED
      BY <3>2, <3>3, <2>1
  <2>7. ~Merging!ChildEnded(moved)
    BY <1>7, <1>9
  <2>8. QED
    BY <2>1, <2>2, <2>4, <2>6, <2>7, <1>4, <1>6 DEF moved, IsMoved
<1>10. QED
  BY <1>8, <1>9

-----------------------------------------------------------------------------
(***************************************************************************)
(* The members of a set in their order: all of them, each once.            *)
(***************************************************************************)
LEMMA InOrderFacts ==
  ASSUME NEW S, IsFiniteSet(S), S \subseteq Int
  PROVE  LET ordered == Merging!InOrder(S) IN
         /\ Cardinality(S) \in Nat /\ ordered \in [1 .. Cardinality(S) -> S]
         /\ \A i, j \in 1 .. Cardinality(S) : i < j => ordered[i] < ordered[j]
         /\ \A d \in S : \E i \in 1 .. Cardinality(S) : ordered[i] = d
<1> DEFINE below(d) == {e \in S : e < d}
           rank(d) == Cardinality(below(d))
           n == Cardinality(S)
           ordered == Merging!InOrder(S)
<1>1. n \in Nat
  BY FS_CardinalityType
<1>2. ASSUME NEW d \in S
      PROVE  rank(d) \in 0 .. n - 1 /\ IsFiniteSet(below(d))
  <2>1. IsFiniteSet(below(d)) /\ rank(d) <= n /\ (n = rank(d) => S = below(d))
    BY FS_Subset
  <2>2. d \notin below(d)
    OBVIOUS
  <2>3. rank(d) \in Nat
    BY <2>1, FS_CardinalityType
  <2>4. QED
    BY <2>1, <2>2, <2>3, <1>1
<1>3. ASSUME NEW d \in S, NEW e \in S, d < e
      PROVE  rank(d) < rank(e)
  <2>1. below(d) \in SUBSET below(e) /\ d \in below(e) /\ d \notin below(d)
    <3>1. d \in Int /\ e \in Int /\ \A x \in S : x \in Int
      OBVIOUS
    <3>2. d \in below(e) /\ d \notin below(d)
      BY <3>1, <1>3
    <3>3. \A x \in S : x < d => x < e
      BY <3>1, <1>3
    <3>4. QED
      BY <3>2, <3>3
  <2>2. IsFiniteSet(below(e)) /\ rank(d) \in Nat /\ rank(e) \in Nat
    BY <1>2
  <2>3. rank(d) <= rank(e) /\ (rank(e) = rank(d) => below(e) = below(d))
    BY <2>1, <2>2, FS_Subset
  <2>4. QED
    BY <2>1, <2>2, <2>3
<1>4. \A d, e \in S : rank(d) = rank(e) => d = e
  <2>1. TAKE d, e \in S
  <2>2. d \in Int /\ e \in Int /\ rank(d) \in Int /\ rank(e) \in Int
    BY <1>2
  <2>3. CASE d < e
    BY <2>2, <2>3, <1>3
  <2>4. CASE e < d
    BY <2>2, <2>4, <1>3
  <2>5. QED
    BY <2>2, <2>3, <2>4
<1> HIDE DEF rank
<1>5. ASSUME NEW i \in 1 .. n
      PROVE  \E d \in S : rank(d) = i - 1
  <2> DEFINE rk == [d \in S |-> rank(d)]
  <2>1. rk \in [S -> 0 .. n - 1]
    BY <1>2
  <2>2. rk \in Injection(S, 0 .. n - 1)
    BY <2>1, <1>4 DEF Injection, IsInjective
  <2>3. IsFiniteSet(0 .. n - 1) /\ Cardinality(0 .. n - 1) = n
    <3>1. 0 \in Int /\ n - 1 \in Int /\ (0 > n - 1 <=> n = 0) /\ (n - 1) - 0 + 1 = n
      BY <1>1
    <3>2. QED
      BY <3>1, FS_Interval
  <2>4. rk \in Surjection(S, 0 .. n - 1)
    BY <2>2, <2>3, FS_Injection
  <2>5. i - 1 \in 0 .. n - 1
    BY <1>1
  <2>6. QED
    BY <2>4, <2>5 DEF Surjection
<1>6. ordered = [i \in 1 .. n |->
         CHOOSE d \in S : Merging!Cardinality({e \in S : e < d}) = i - 1]
  BY SameCardinality DEF Merging!InOrder
<1> HIDE DEF ordered
<1>7. \A i \in 1 .. n : ordered[i] \in S /\ rank(ordered[i]) = i - 1
  <2>1. \A d : Merging!Cardinality({e \in S : e < d}) = rank(d)
    BY SameCardinality DEF rank
  <2>2. TAKE i \in 1 .. n
  <2>3. \E d \in S : Merging!Cardinality({e \in S : e < d}) = i - 1
    BY <2>1, <1>5
  <2>4. /\ ordered[i] \in S
        /\ Merging!Cardinality({e \in S : e < ordered[i]}) = i - 1
    BY <2>3, <1>6
  <2>5. QED
    BY <2>1, <2>4
<1>8. ASSUME NEW i \in 1 .. n, NEW j \in 1 .. n, i < j
      PROVE  ordered[i] < ordered[j]
  <2>1. ordered[i] \in S /\ ordered[j] \in S /\ ordered[i] \in Int /\ ordered[j] \in Int
    BY <1>7
  <2>2. rank(ordered[i]) = i - 1 /\ rank(ordered[j]) = j - 1
    BY <1>7
  <2>3. CASE ordered[j] < ordered[i]
    BY <2>1, <2>2, <2>3, <1>3, <1>8
  <2>4. ordered[i] # ordered[j]
    BY <2>2, <1>8
  <2>5. QED
    BY <2>1, <2>3, <2>4
<1>9. ASSUME NEW d \in S
      PROVE  \E i \in 1 .. n : ordered[i] = d
  <2>1. rank(d) + 1 \in 1 .. n /\ (rank(d) + 1) - 1 = rank(d)
    <3>1. rank(d) \in 0 .. n - 1
      BY <1>2
    <3>2. QED
      BY <3>1, <1>1
  <2>2. ordered[rank(d) + 1] \in S /\ rank(ordered[rank(d) + 1]) = rank(d)
    BY <2>1, <1>7
  <2>3. ordered[rank(d) + 1] = d
    BY <2>2, <1>4
  <2>4. QED
    BY <2>1, <2>3
<1>10. ordered \in [1 .. n -> S]
  BY <1>6, <1>7
<1>11. QED
  BY <1>1, <1>8, <1>9, <1>10 DEF ordered

\* The documents of a list are finitely many.
LEMMA DocsFacts ==
  ASSUME NEW list \in Seq(AnyPosting)
  PROVE  IsFiniteSet(Merging!DocsOf(list)) /\ Merging!DocsOf(list) \subseteq Nat
<1> DEFINE f == [i \in DOMAIN list |-> list[i].doc]
<1>1. IsFiniteSet(DOMAIN list)
  BY FS_Interval
<1>2. IsFiniteSet({f[i] : i \in DOMAIN list})
  BY <1>1, FiniteValues
<1>3. Merging!DocsOf(list) = {f[i] : i \in DOMAIN list}
  BY DEF Merging!DocsOf
<1>4. \A i \in DOMAIN list : list[i] \in AnyPosting
  OBVIOUS
<1>5. \A i \in DOMAIN list : list[i].doc \in Nat
  BY <1>4 DEF AnyPosting
<1>6. Merging!DocsOf(list) \subseteq Nat
  BY <1>5 DEF Merging!DocsOf
<1>7. QED
  BY <1>2, <1>3, <1>6

\* In a list in its order a document is found where it is.
LEMMA PostingAtFacts ==
  ASSUME NEW list \in Seq(AnyPosting), InDocOrder(list), NEW j \in DOMAIN list
  PROVE  Merging!PostingAt(list, list[j].doc) = list[j]
<1> DEFINE d == list[j].doc
           n == Merging!FirstFrom(list, d)
<1>1. \A i \in DOMAIN list : list[i] \in AnyPosting
  OBVIOUS
<1>2. \A i \in DOMAIN list : list[i].doc \in Nat
  BY <1>1 DEF AnyPosting
<1>3. d \in Int /\ d >= d
  BY <1>2
<1>4. n \in DOMAIN list /\ list[n].doc >= d /\ n <= j
  BY <1>3, FirstFromFacts
<1>5. n = j
  <2>1. n \in Int /\ j \in Int
    BY <1>4
  <2>2. ~(n < j)
    <3>1. SUFFICES ASSUME n < j PROVE FALSE
      OBVIOUS
    <3>2. list[n].doc < list[j].doc
      BY <3>1, <1>4 DEF InDocOrder
    <3>3. QED
      BY <3>2, <1>2, <1>4
  <2>3. QED
    BY <2>1, <2>2, <1>4
<1>6. QED
  BY <1>5 DEF Merging!PostingAt

AnyCounted == [doc : Nat, value : Int, run : {<<>>}]

\* What is counted of a posting.
LEMMA CountedFacts ==
  ASSUME SplitsOK, NEW p \in AnyPosting
  PROVE  /\ Counts(p) \in AnyCounted /\ Counts(p).doc = p.doc
         /\ Counts(p).value <= source.ceiling - source.floor
<1>1. p.doc \in Nat /\ p.value \in Nat
  BY DEF AnyPosting
<1>2. source.ceiling \in Nat /\ source.floor \in Nat
  BY DEF SplitsOK
<1> DEFINE m == Merging!Min({p.value, source.ceiling})
<1>3. m \in Int /\ m <= source.ceiling
  <2>1. p.value \in Int /\ source.ceiling \in Int
    BY <1>1, <1>2
  <2>2. m = IF p.value <= source.ceiling THEN p.value ELSE source.ceiling
    BY <2>1, MinOfTwo
  <2>3. QED
    BY <2>1, <2>2
<1> HIDE DEF m
<1>4. Counts(p) = [doc |-> p.doc, value |-> m - source.floor, run |-> <<>>]
  BY DEF Counts, Merging!Counted, Merging!Posting, m
<1>5. m - source.floor \in Int /\ m - source.floor <= source.ceiling - source.floor
  BY <1>2, <1>3
<1>6. QED
  BY <1>1, <1>4, <1>5 DEF AnyCounted

(***************************************************************************)
(* The merged list: the postings of all splits, as they are counted, in    *)
(* the order of documents.                                                 *)
(***************************************************************************)
AllDocs == UNION {Merging!DocsOf(Splits[i]) : i \in DOMAIN Splits}

\* The documents of the splits are finitely many.
LEMMA AllDocsFacts ==
  ASSUME SplitsOK
  PROVE  /\ IsFiniteSet(AllDocs) /\ AllDocs \subseteq Nat
         /\ \A d : d \in AllDocs <=>
              \E k \in DOMAIN Splits : \E j \in DOMAIN Splits[k] : d = Splits[k][j].doc
<1> DEFINE f == [i \in DOMAIN Splits |-> Merging!DocsOf(Splits[i])]
           sets == {f[i] : i \in DOMAIN Splits}
<1>1. Splits \in Seq(Seq(AnyPosting))
  BY DEF SplitsOK, Splits
<1>2. \A k \in DOMAIN Splits : Splits[k] \in Seq(AnyPosting)
  BY <1>1
<1>3. IsFiniteSet(DOMAIN Splits)
  BY <1>1, FS_Interval
<1>4. IsFiniteSet(sets)
  BY <1>3, FiniteValues
<1>5. \A s \in sets : IsFiniteSet(s) /\ s \subseteq Nat
  BY <1>2, DocsFacts
<1>6. AllDocs = UNION sets
  BY DEF AllDocs
<1> HIDE DEF sets
<1>7. IsFiniteSet(AllDocs) /\ AllDocs \subseteq Nat
  BY <1>4, <1>5, <1>6, FS_UNION
<1>8. \A d : d \in AllDocs <=>
        \E k \in DOMAIN Splits : \E j \in DOMAIN Splits[k] : d = Splits[k][j].doc
  BY DEF AllDocs, Merging!DocsOf
<1>9. QED
  BY <1>7, <1>8

MergeFacts ==
  /\ source.postings \in Seq(AnyCounted)
  /\ Len(source.postings) = Cardinality(AllDocs)
  /\ InDocOrder(source.postings)
  /\ \A k \in DOMAIN Splits : \A j \in DOMAIN Splits[k] :
       \E i \in DOMAIN source.postings : source.postings[i] = Counts(Splits[k][j])
  /\ \A i \in DOMAIN source.postings :
       \E k \in DOMAIN Splits : \E j \in DOMAIN Splits[k] :
         source.postings[i] = Counts(Splits[k][j])

\* The merged list has the postings of the splits and no other, in order.
LEMMA MergedInOrder ==
  ASSUME SplitsOK
  PROVE  MergeFacts
<1> DEFINE ordered == Merging!InOrder(AllDocs)
           n == Cardinality(AllDocs)
           holder(d) == CHOOSE k \in DOMAIN Splits : d \in Merging!DocsOf(Splits[k])
           of(d) == Counts(Merging!PostingAt(Splits[holder(d)], d))
           M == source.postings
<1>1. IsFiniteSet(AllDocs) /\ AllDocs \subseteq Int
  BY AllDocsFacts
<1>2. /\ n \in Nat /\ ordered \in [1 .. n -> AllDocs]
      /\ \A i, j \in 1 .. n : i < j => ordered[i] < ordered[j]
      /\ \A d \in AllDocs : \E i \in 1 .. n : ordered[i] = d
  BY <1>1, InOrderFacts
<1>3. \A k \in DOMAIN Splits : Splits[k] \in Seq(AnyPosting) /\ InDocOrder(Splits[k])
  BY DEF SplitsOK, Splits
<1>4. ASSUME NEW k \in DOMAIN Splits, NEW j \in DOMAIN Splits[k]
      PROVE  of(Splits[k][j].doc) = Counts(Splits[k][j])
  <2> DEFINE d == Splits[k][j].doc
  <2>1. d \in Merging!DocsOf(Splits[k])
    BY DEF Merging!DocsOf
  <2>2. \A l \in DOMAIN Splits : d \in Merging!DocsOf(Splits[l]) => l = k
    BY DEF SplitsOK, Splits, Merging!DocsOf
  <2>3. holder(d) = k
    BY <2>1, <2>2
  <2>4. Merging!PostingAt(Splits[k], d) = Splits[k][j]
    BY <1>3, PostingAtFacts
  <2>5. QED
    BY <2>3, <2>4
<1>5. M = [i \in DOMAIN ordered |-> of(ordered[i])]
  BY DEF SplitsOK, Merging!Merged, Merging!Listing, AllDocs, Splits, Counts
<1> HIDE DEF ordered, of, holder
<1>6. DOMAIN M = 1 .. n /\ \A i \in 1 .. n : M[i] = of(ordered[i])
  BY <1>2, <1>5
<1>7. \A i \in 1 .. n : \E k \in DOMAIN Splits : \E j \in DOMAIN Splits[k] :
        ordered[i] = Splits[k][j].doc
  BY <1>2, AllDocsFacts
<1>8. \A i \in 1 .. n : \E k \in DOMAIN Splits : \E j \in DOMAIN Splits[k] :
        ordered[i] = Splits[k][j].doc /\ M[i] = Counts(Splits[k][j])
  BY <1>4, <1>6, <1>7
<1>9. \A i \in 1 .. n : M[i] \in AnyCounted /\ M[i].doc = ordered[i]
  <2>1. TAKE i \in 1 .. n
  <2>2. PICK k \in DOMAIN Splits : \E j \in DOMAIN Splits[k] :
          ordered[i] = Splits[k][j].doc /\ M[i] = Counts(Splits[k][j])
    BY <1>8
  <2>3. PICK j \in DOMAIN Splits[k] :
          ordered[i] = Splits[k][j].doc /\ M[i] = Counts(Splits[k][j])
    BY <2>2
  <2>4. Splits[k][j] \in AnyPosting
    BY <1>3
  <2>5. QED
    BY <2>3, <2>4, CountedFacts
<1>10. M \in Seq(AnyCounted) /\ Len(M) = n
  <2>1. M \in [1 .. n -> AnyCounted]
    BY <1>5, <1>6, <1>9
  <2>2. QED
    BY <2>1, <1>2
<1>11. InDocOrder(M)
  BY <1>2, <1>6, <1>9 DEF InDocOrder
<1>12. ASSUME NEW k \in DOMAIN Splits, NEW j \in DOMAIN Splits[k]
       PROVE  \E i \in DOMAIN M : M[i] = Counts(Splits[k][j])
  <2>1. Splits[k][j].doc \in AllDocs
    BY AllDocsFacts
  <2>2. PICK i \in 1 .. n : ordered[i] = Splits[k][j].doc
    BY <2>1, <1>2
  <2>3. QED
    BY <2>2, <1>4, <1>6
<1>13. \A i \in DOMAIN M : \E k \in DOMAIN Splits : \E j \in DOMAIN Splits[k] :
         M[i] = Counts(Splits[k][j])
  BY <1>6, <1>8
<1>14. QED
  BY <1>10, <1>11, <1>12, <1>13 DEF MergeFacts

(***************************************************************************)
(* The bounds of the merged cursor: of its values, its documents and its   *)
(* length, a sum of those of the splits.                                   *)
(***************************************************************************)

\* A list has no more documents than postings.
LEMMA FewDocs ==
  ASSUME NEW list \in Seq(AnyPosting)
  PROVE  Cardinality(Merging!DocsOf(list)) <= Len(list)
<1> DEFINE f == [i \in DOMAIN list |-> list[i].doc]
           docs == Merging!DocsOf(list)
<1>1. IsFiniteSet(DOMAIN list) /\ Cardinality(DOMAIN list) = Len(list)
  <2>1. DOMAIN list = 1 .. Len(list) /\ Len(list) \in Nat
    OBVIOUS
  <2>2. QED
    BY <2>1, FS_Interval
<1>2. docs = {list[i].doc : i \in DOMAIN list}
  BY DEF Merging!DocsOf
<1>3. f \in [DOMAIN list -> docs] /\ \A d \in docs : \E i \in DOMAIN list : f[i] = d
  BY <1>2
<1>4. f \in Surjection(DOMAIN list, docs)
  BY <1>3 DEF Surjection
<1>5. QED
  BY <1>1, <1>4, FS_Surjection

\* The recursion that adds up the lengths, of the splits of a set.
IsTotal(it) ==
  it = [s \in SUBSET DOMAIN Splits |->
          IF s = {} THEN 0
          ELSE LET x == Merging!Max(s) IN it[s \ {x}] + Len(Splits[x])]

\* The fold that adds up the lengths is a function: it can be computed for any splits.
LEMMA TotalExists ==
  ASSUME SplitsOK
  PROVE  \E it : IsTotal(it) /\ it \in [SUBSET DOMAIN Splits -> Nat]
<1> DEFINE S == DOMAIN Splits
           pick == [s \in SUBSET S |-> Merging!Max(s)]
           step == [p \in S \X Nat |-> p[2] + Len(Splits[p[1]])]
<1>1. Splits \in Seq(Seq(AnyPosting))
  BY DEF SplitsOK, Splits
<1>2. IsFiniteSet(S) /\ S \subseteq Int
  BY <1>1, FS_Interval
<1>3. \A x \in S : Len(Splits[x]) \in Nat
  BY <1>1
<1>4. \A s \in SUBSET S : s # {} => pick[s] \in s /\ pick[s] = Merging!Max(s)
  <2>1. TAKE s \in SUBSET S
  <2>2. IsFiniteSet(s) /\ s \subseteq Int
    BY <1>2, FS_Subset
  <2>3. QED
    BY <2>2, MaxOfFinite
<1>5. \A x \in S, v \in Nat : step[<<x, v>>] = v + Len(Splits[x]) /\ step[<<x, v>>] \in Nat
  BY <1>3
<1> HIDE DEF pick, step
<1>6. PICK it \in [SUBSET S -> Nat] : Solves(it, S, 0, pick, step)
  BY <1>2, <1>4, <1>5, SubsetRecursion
<1>7. it[{}] = 0
  BY <1>6 DEF Solves
<1>8. \A s \in SUBSET S : s # {} =>
        it[s] = it[s \ {Merging!Max(s)}] + Len(Splits[Merging!Max(s)])
  <2> SUFFICES ASSUME NEW s \in SUBSET S, s # {}
               PROVE  it[s] = it[s \ {Merging!Max(s)}] + Len(Splits[Merging!Max(s)])
    OBVIOUS
  <2>1. pick[s] \in S /\ it[s \ {pick[s]}] \in Nat /\ pick[s] = Merging!Max(s)
    BY <1>4
  <2>2. it[s] = step[<<pick[s], it[s \ {pick[s]}]>>]
    BY <1>6 DEF Solves
  <2>3. QED
    BY <2>1, <2>2, <1>5
<1>9. it = [s \in SUBSET S |-> it[s]]
  OBVIOUS
<1>10. \A s \in SUBSET S : it[s] =
         IF s = {} THEN 0 ELSE LET x == Merging!Max(s) IN it[s \ {x}] + Len(Splits[x])
  BY <1>7, <1>8
<1>11. IsTotal(it)
  BY <1>9, <1>10 DEF IsTotal
<1>12. QED
  BY <1>6, <1>11

\* The sum of the lengths bounds the number of documents of any of the splits.
LEMMA MergedLength ==
  ASSUME SplitsOK
  PROVE  Cardinality(AllDocs) <= Merging!Term.length
<1> DEFINE S == DOMAIN Splits
           docs(s) == UNION {Merging!DocsOf(Splits[i]) : i \in s}
           it == CHOOSE it : IsTotal(it)
           Good(s) == it[s] \in Nat /\ IsFiniteSet(docs(s)) /\ Cardinality(docs(s)) <= it[s]
           F == {s \in SUBSET S : ~Good(s)}
<1>1. Splits \in Seq(Seq(AnyPosting))
  BY DEF SplitsOK, Splits
<1>2. IsFiniteSet(S) /\ S \subseteq Int /\ \A x \in S : Splits[x] \in Seq(AnyPosting)
  BY <1>1, FS_Interval
<1>3. Merging!Term.length = it[S]
  BY DEF Merging!Term, Merging!FoldLeft, Merging!MapThenFoldSet, IsTotal, Splits
<1>4. IsTotal(it)
  BY TotalExists
<1> HIDE DEF it
<1>5. it[{}] = 0 /\ \A s \in SUBSET S : s # {} =>
        it[s] = it[s \ {Merging!Max(s)}] + Len(Splits[Merging!Max(s)])
  BY <1>4 DEF IsTotal
<1>6. F = {}
  <2> SUFFICES ASSUME F # {} PROVE FALSE
    OBVIOUS
  <2>1. F \subseteq SUBSET S
    OBVIOUS
  <2>2. PICK U \in F : \A W \in F : W \subseteq U => W = U
    <3> HIDE DEF F
    <3>1. QED
      BY <2>1, <1>2, SmallestSubset
  <2>3. U # {}
    <3>1. docs({}) = {}
      OBVIOUS
    <3>2. IsFiniteSet({}) /\ Cardinality({}) = 0
      BY FS_EmptySet
    <3>3. IsFiniteSet(docs({})) /\ Cardinality(docs({})) = 0
      BY <3>1, <3>2
    <3>4. it[{}] = 0
      BY <1>5
    <3>5. Good({})
      BY <3>3, <3>4
    <3>6. QED
      BY <3>5, <2>2
  <2> DEFINE x == Merging!Max(U)
             V == U \ {x}
  <2>4. x \in U
    <3>1. IsFiniteSet(U) /\ U \subseteq Int
      BY <1>2, <2>1, FS_Subset
    <3>2. QED
      BY <3>1, <2>3, MaxOfFinite
  <2> HIDE DEF x
  <2>5. V \in SUBSET S /\ Good(V)
    <3>1. V \subseteq U /\ V # U /\ V \in SUBSET S
      BY <2>4
    <3>2. V \notin F
      BY <3>1, <2>2
    <3>3. QED
      BY <3>1, <3>2
  <2>6. docs(U) = docs(V) \cup Merging!DocsOf(Splits[x])
    BY <2>4
  <2>7. Splits[x] \in Seq(AnyPosting) /\ Len(Splits[x]) \in Nat
    BY <2>4, <2>1, <1>2
  <2>8. /\ IsFiniteSet(Merging!DocsOf(Splits[x]))
        /\ Cardinality(Merging!DocsOf(Splits[x])) <= Len(Splits[x])
    BY <2>7, DocsFacts, FewDocs
  <2> DEFINE A == docs(V)
             B == Merging!DocsOf(Splits[x])
  <2>9. IsFiniteSet(A) /\ Cardinality(A) <= it[V] /\ it[V] \in Nat
    BY <2>5
  <2>10. docs(U) = A \cup B
    BY <2>6
  <2>11. it[U] = it[V] + Len(Splits[x])
    BY <2>3, <1>5, <2>1 DEF x
  <2> HIDE DEF A, B
  <2>12. /\ IsFiniteSet(A \cup B)
         /\ Cardinality(A \cup B) = Cardinality(A) + Cardinality(B) - Cardinality(A \cap B)
         /\ Cardinality(A) \in Nat /\ Cardinality(B) \in Nat /\ Cardinality(A \cap B) \in Nat
    <3>1. IsFiniteSet(A) /\ IsFiniteSet(B)
      BY <2>8, <2>9 DEF B
    <3>2. IsFiniteSet(A \cap B)
      BY <3>1, FS_Intersection
    <3>3. QED
      BY <3>1, <3>2, FS_Union, FS_CardinalityType
  <2>13. Cardinality(B) <= Len(Splits[x])
    BY <2>8 DEF B
  <2>14. Cardinality(A \cup B) <= it[V] + Len(Splits[x]) /\ it[V] + Len(Splits[x]) \in Nat
    BY <2>7, <2>9, <2>12, <2>13
  <2>15. Good(U)
    BY <2>10, <2>11, <2>12, <2>14
  <2>16. QED
    BY <2>2, <2>15
<1>7. Good(S)
  BY <1>6
<1>8. docs(S) = AllDocs
  BY DEF AllDocs
<1>9. QED
  BY <1>3, <1>7, <1>8

\* What the merged cursor says of its list holds for each of its postings.
LEMMA BoundsOfMerged ==
  ASSUME SplitsOK
  PROVE  /\ CursorContract!TermSound
         /\ \A i \in DOMAIN source.postings :
              CursorContract!BlockSound(Merging!TermBlock(Merging!Term), i)
<1> DEFINE M == source.postings
           docs == {0} \cup {M[i].doc : i \in DOMAIN M}
           last == Merging!MaxDocId(M)
<1>1. MergeFacts
  BY MergedInOrder
<1>2. M \in Seq(AnyCounted) /\ Len(M) = Cardinality(AllDocs)
  BY <1>1 DEF MergeFacts
<1>3. \A i \in DOMAIN M : M[i] \in AnyCounted
  BY <1>2
<1>4. \A i \in DOMAIN M : M[i].doc \in Nat /\ M[i].value \in Int
  BY <1>3 DEF AnyCounted
<1>5. \A i \in DOMAIN M : M[i].value <= source.ceiling - source.floor
  <2>1. TAKE i \in DOMAIN M
  <2>2. PICK k \in DOMAIN Splits : \E j \in DOMAIN Splits[k] : M[i] = Counts(Splits[k][j])
    BY <1>1 DEF MergeFacts
  <2>3. PICK j \in DOMAIN Splits[k] : M[i] = Counts(Splits[k][j])
    BY <2>2
  <2>4. Splits[k][j] \in AnyPosting
    BY DEF SplitsOK, Splits
  <2>5. QED
    BY <2>3, <2>4, CountedFacts
<1>6. \A i \in DOMAIN M : M[i].doc <= last
  <2> DEFINE f == [i \in DOMAIN M |-> M[i].doc]
             S == {f[i] : i \in DOMAIN M}
  <2>1. IsFiniteSet(DOMAIN M)
    BY <1>2, FS_Interval
  <2>2. IsFiniteSet(S)
    BY <2>1, FiniteValues
  <2>3. docs = S \cup {0}
    OBVIOUS
  <2>4. IsFiniteSet(docs)
    BY <2>2, <2>3, FS_AddElement
  <2>5. docs \subseteq Int /\ docs # {}
    BY <1>4
  <2>6. \A d \in docs : d <= Merging!Max(docs)
    BY <2>4, <2>5, MaxOfFinite
  <2>7. QED
    BY <2>6 DEF Merging!MaxDocId
<1>7. /\ Merging!Postings = M /\ Merging!Term.most = source.ceiling - source.floor
      /\ Merging!Term.last = last
  BY DEF Merging!Postings, Merging!Term
<1>8. Len(M) <= Merging!Term.length
  BY <1>2, MergedLength
<1>9. CursorContract!TermSound
  BY <1>5, <1>6, <1>7, <1>8 DEF CursorContract!TermSound
<1>10. Merging!TermBlock(Merging!Term) =
         [first |-> 0, last |-> last, most |-> source.ceiling - source.floor]
  BY <1>7 DEF Merging!TermBlock, Merging!Block
<1>11. ASSUME NEW i \in DOMAIN M
       PROVE  CursorContract!BlockSound(Merging!TermBlock(Merging!Term), i)
  <2>1. \A j \in i .. Len(M) : M[j].value <= source.ceiling - source.floor
    <3>1. \A j \in i .. Len(M) : j \in DOMAIN M
      BY <1>2
    <3>2. QED
      BY <3>1, <1>5
  <2>2. 0 <= M[i].doc /\ M[i].doc <= last
    BY <1>4, <1>6
  <2>3. QED
    BY <2>1, <2>2, <1>7, <1>10 DEF CursorContract!BlockSound
<1>12. QED
  BY <1>9, <1>11

-----------------------------------------------------------------------------
(***************************************************************************)
(* The invariant holds before the first call.                              *)
(***************************************************************************)
LEMMA SplitInvInit == SplitsOK /\ Merging!Init => SplitInv
<1> SUFFICES ASSUME SplitsOK, Merging!Init PROVE SplitInv
  OBVIOUS
<1>1. /\ Splits \in Seq(Seq(AnyPosting)) /\ NoLimit \in Nat
      /\ \A i \in DOMAIN Splits : Splits[i] \in Seq(AnyPosting)
  BY DEF SplitsOK, Splits
<1>2. /\ cursor = Merging!New /\ reply = Merging!Start
      /\ seen = [at |-> 0, least |-> 0, asked |-> 0, moved |-> FALSE]
  BY DEF Merging!Init, Merging!Unseen
<1>3. cursor = [doing |-> "idle", asking |-> 0,
                children |-> [i \in DOMAIN Splits |-> [list |-> Splits[i], at |-> 0, least |-> 0]],
                heap |-> {}, initialized |-> FALSE, target |-> 0, last |-> -1]
  BY <1>2 DEF Merging!New, Merging!Child, Splits
<1>4. MergeFacts
  BY MergedInOrder
<1>5. Len(source.postings) \in Nat
  BY <1>4 DEF MergeFacts
<1>6. cursor.children \in [DOMAIN Splits -> [list : Seq(AnyPosting), at : Nat, least : Nat]]
  BY <1>1, <1>3
<1>7. CursorOK
  <2>1. cursor.heap = {} /\ IsFiniteSet(cursor.heap)
    BY <1>3, FS_EmptySet
  <2>2. 0 \in 0 .. NoLimit /\ 0 \in 0 .. Len(source.postings)
    BY <1>1, <1>5
  <2>3. seen \in [at : 0 .. Len(source.postings), least : Nat, asked : Nat, moved : BOOLEAN]
    BY <2>2, <1>2
  <2>4. QED
    BY <2>1, <2>2, <2>3, <1>3, <1>6 DEF CursorOK
<1>8. ChildrenOK
  <2>1. \A i \in DOMAIN Splits : 0 \in 0 .. Len(Splits[i])
    BY <1>1
  <2>2. QED
    BY <2>1, <1>3 DEF ChildrenOK, Target
<1>9. EntriesOK /\ AbsentOK /\ UnusedOK
  BY <1>2, <1>3 DEF EntriesOK, AbsentOK, UnusedOK
<1>10. AnswerOK
  BY <1>2, <1>3 DEF AnswerOK, Merging!Start, Merging!Ended
<1>11. SeenOK
  BY <1>2, <1>3 DEF SeenOK, Target
<1>12. QED
  BY <1>7, <1>8, <1>9, <1>10, <1>11 DEF SplitInv

(***************************************************************************)
(* What every step keeps: the lists.                                       *)
(***************************************************************************)
LEMMA SplitsStay ==
  ASSUME SplitsOK, source' = source
  PROVE  SplitsOK' /\ Splits' = Splits
  BY DEF SplitsOK, Splits

\* The types in the form the steps use them.
LEMMA CursorTypes ==
  ASSUME SplitInv
  PROVE  /\ NoLimit \in Nat /\ Splits \in Seq(Seq(AnyPosting))
         /\ Target \in Nat /\ cursor.asking \in Nat /\ cursor.last \in Int
         /\ cursor.last + 1 \in Nat
         /\ seen.asked \in Nat /\ seen.least \in Nat /\ Len(source.postings) \in Nat
         /\ \A i \in DOMAIN Splits :
              /\ Splits[i] \in Seq(AnyPosting)
              /\ \A j \in DOMAIN Splits[i] : Splits[i][j] \in AnyPosting /\ Splits[i][j].doc \in Nat
         /\ \A e \in cursor.heap : e.index \in DOMAIN Splits /\ e.doc \in Nat
         /\ \A i \in DOMAIN source.postings :
              source.postings[i] \in AnyCounted /\ source.postings[i].doc \in Nat
<1>1. MergeFacts /\ SplitsOK /\ CursorOK
  BY MergedInOrder DEF SplitInv
<1>2. NoLimit \in Nat /\ Splits \in Seq(Seq(AnyPosting))
  BY <1>1 DEF SplitsOK, Splits
<1>3. \A i \in DOMAIN Splits : Splits[i] \in Seq(AnyPosting)
  BY <1>2
<1>4. \A i \in DOMAIN Splits : \A j \in DOMAIN Splits[i] : Splits[i][j] \in AnyPosting
  BY <1>3
<1>5. \A i \in DOMAIN Splits : \A j \in DOMAIN Splits[i] : Splits[i][j].doc \in Nat
  BY <1>4 DEF AnyPosting
<1>6. source.postings \in Seq(AnyCounted)
  BY <1>1 DEF MergeFacts
<1>7. \A i \in DOMAIN source.postings : source.postings[i] \in AnyCounted
  BY <1>6
<1>8. \A i \in DOMAIN source.postings : source.postings[i].doc \in Nat
  BY <1>7 DEF AnyCounted
<1>9. Target \in Nat /\ cursor.asking \in 0 .. NoLimit /\ cursor.last \in Int
  BY <1>1 DEF CursorOK, Target
<1>10. seen.asked \in Nat /\ seen.least \in Nat /\ seen.at \in 0 .. Len(source.postings)
  BY <1>1 DEF CursorOK
<1>11. \A e \in cursor.heap : e.index \in DOMAIN Splits /\ e.doc \in Nat
  BY <1>1 DEF CursorOK
<1>12. cursor.last + 1 \in Nat
  <2>1. cursor.last = IF seen.at = 0 THEN -1 ELSE source.postings[seen.at].doc
    BY DEF SplitInv, SeenOK
  <2>2. seen.at # 0 => seen.at \in DOMAIN source.postings
    BY <1>6, <1>10
  <2>3. QED
    BY <2>1, <2>2, <1>8
<1>13. cursor.asking \in Nat /\ Len(source.postings) \in Nat
  BY <1>2, <1>6, <1>9
<1>14. QED
  BY <1>2, <1>3, <1>4, <1>5, <1>7, <1>8, <1>9, <1>10, <1>11, <1>12, <1>13

(***************************************************************************)
(* A move begins: what is asked for is only ever later.                    *)
(***************************************************************************)
LEMMA BeginMoveInv ==
  ASSUME SplitInv, NEW d \in 0 .. NoLimit, Merging!BeginMove(d)
  PROVE  SplitInv'
<1>1. source' = source /\ seen' = seen /\ reply' = reply /\ cursor.doing = "idle"
  BY DEF Merging!BeginMove
<1> DEFINE t == Merging!Max({d, Target, cursor.last + 1})
<1>2. cursor' = [cursor EXCEPT !.doing = IF cursor.initialized THEN "moving" ELSE "opening",
                               !.asking = d, !.target = t]
  BY DEF Merging!BeginMove, Target
<1>3. NoLimit \in Nat /\ Target \in Nat /\ cursor.last + 1 \in Nat /\ d \in Nat
  BY CursorTypes
<1>4. t \in Nat /\ t >= Target
  <2>1. d \in Int /\ Target \in Int /\ cursor.last + 1 \in Int
    BY <1>3
  <2>2. t \in {d, Target, cursor.last + 1} /\ t >= Target
    BY <2>1, MaxOfThree
  <2>3. QED
    BY <2>2, <1>3
<1>5. SplitsOK' /\ Splits' = Splits /\ SplitsOK
  BY <1>1, SplitsStay DEF SplitInv
<1>6. CursorOK
  BY DEF SplitInv
<1> HIDE DEF t
<1>7. /\ cursor'.children = cursor.children /\ cursor'.heap = cursor.heap /\ Target' = t
      /\ cursor'.initialized = cursor.initialized /\ cursor'.last = cursor.last
      /\ cursor'.asking = d
      /\ cursor'.doing = IF cursor.initialized THEN "moving" ELSE "opening"
  BY <1>2, <1>6 DEF CursorOK, Target
<1>8. CursorOK'
  BY <1>1, <1>2, <1>4, <1>5, <1>6 DEF CursorOK
<1>9. ChildrenOK'
  <2>1. \A i \in DOMAIN Splits : cursor.children[i].least \in Nat
    BY <1>6 DEF CursorOK
  <2>2. ChildrenOK
    BY DEF SplitInv
  <2>3. QED
    BY <2>1, <2>2, <1>3, <1>4, <1>5, <1>7 DEF ChildrenOK
<1>10. EntriesOK'
  <2>1. EntriesOK
    BY DEF SplitInv
  <2>2. \A i : NextOf(i)' = NextOf(i) /\ PostingOf(i)' = PostingOf(i)
    BY <1>7 DEF NextOf, PostingOf
  <2>3. \A p : Counts(p)' = Counts(p)
    BY <1>1 DEF Counts
  <2>4. \A e \in cursor.heap : \A j \in DOMAIN Splits[e.index] :
          Splits[e.index][j].doc >= t => Splits[e.index][j].doc >= Target
    BY <1>3, <1>4, CursorTypes
  <2>5. QED
    BY <2>1, <2>2, <2>3, <2>4, <1>5, <1>7 DEF EntriesOK
<1>11. AbsentOK'
  <2>1. AbsentOK
    BY DEF SplitInv
  <2>2. \A i \in DOMAIN Splits : \A j \in DOMAIN Splits[i] :
          Splits[i][j].doc < Target => Splits[i][j].doc < t
    BY <1>3, <1>4, CursorTypes
  <2>3. QED
    BY <2>1, <2>2, <1>5, <1>7 DEF AbsentOK
<1>12. UnusedOK'
  BY <1>1, <1>5, <1>7 DEF SplitInv, UnusedOK
<1>13. AnswerOK'
  BY <1>1, <1>7 DEF SplitInv, AnswerOK
<1>14. SeenOK'
  <2>1. SeenOK /\ Target = seen.asked
    BY <1>1 DEF SplitInv, SeenOK
  <2>2. t = Merging!Max({d, seen.asked, cursor.last + 1})
    BY <2>1 DEF t
  <2>3. QED
    BY <2>1, <2>2, <1>1, <1>7 DEF SeenOK
<1>15. QED
  BY <1>5, <1>8, <1>9, <1>10, <1>11, <1>12, <1>13, <1>14 DEF SplitInv

(***************************************************************************)
(* The first move opens every cursor of a split that has something left.   *)
(***************************************************************************)
LEMMA OpenAllInv ==
  ASSUME SplitInv, Merging!OpenAll
  PROVE  SplitInv'
<1> DEFINE moved == [i \in DOMAIN cursor.children |->
                       Merging!ChildMove(cursor.children[i], cursor.target)]
           left == {i \in DOMAIN moved : ~Merging!ChildEnded(moved[i])}
           entry(i, b) == Merging!Entry(i, Merging!NotRead, Merging!Max({b, cursor.target}))
<1>1. source' = source /\ seen' = seen /\ reply' = reply /\ cursor.doing = "opening"
  BY DEF Merging!OpenAll
<1>2. SplitsOK' /\ Splits' = Splits /\ SplitsOK
  BY <1>1, SplitsStay DEF SplitInv
<1>3. CursorOK
  BY DEF SplitInv
<1>4. ~cursor.initialized /\ \A i \in DOMAIN Splits : cursor.children[i].at = 0
  BY <1>1 DEF SplitInv, AnswerOK, UnusedOK
<1>5. DOMAIN cursor.children = DOMAIN Splits
  BY <1>3 DEF CursorOK
<1>6. PICK bound \in [left -> UNION {Merging!ChildBounds(moved[i]) : i \in left}] :
        /\ \A i \in left : bound[i] \in Merging!ChildBounds(moved[i])
        /\ cursor' = [cursor EXCEPT
             !.doing = "moving", !.initialized = TRUE, !.children = moved,
             !.heap = {entry(i, bound[i]) : i \in left}]
  BY DEF Merging!OpenAll
<1>7. \A i \in DOMAIN Splits : Splits[i] \in Seq(AnyPosting) /\ InDocOrder(Splits[i])
  BY <1>2 DEF SplitsOK, Splits
<1>8. ASSUME NEW i \in DOMAIN Splits
      PROVE  /\ IsMoved(moved[i], cursor.children[i], Splits[i], Target)
             /\ cursor.children[i].at = 0
             /\ i \in left <=> ~Merging!ChildEnded(moved[i])
  <2> DEFINE child == cursor.children[i]
  <2>1. child \in [list : Seq(AnyPosting), at : Nat, least : Nat] /\ child.at = 0
    BY <1>3, <1>4 DEF CursorOK
  <2>2. child.list = Splits[i] /\ child.at \in 0 .. Len(Splits[i]) /\ child.least <= Target
    BY DEF SplitInv, ChildrenOK
  <2>3. Target \in Nat
    BY CursorTypes
  <2>4. moved[i] = Merging!ChildMove(child, Target)
    BY <1>5 DEF Target
  <2>5. i \in left <=> ~Merging!ChildEnded(moved[i])
    BY <1>5
  <2> HIDE DEF child, moved, left
  <2>6. IsMoved(Merging!ChildMove(child, Target), child, Splits[i], Target)
    BY <2>1, <2>2, <2>3, <1>7, ChildMoved
  <2>7. QED
    BY <2>1, <2>4, <2>5, <2>6 DEF child
<1>9. DOMAIN moved = DOMAIN Splits
  BY <1>5
<1>10. left \subseteq DOMAIN Splits
  BY <1>9
<1>11. Target \in Nat
  BY CursorTypes
<1> DEFINE H == {entry(i, bound[i]) : i \in left}
<1>12. IsFiniteSet(H)
  <2> DEFINE f == [i \in left |-> entry(i, bound[i])]
  <2>1. IsFiniteSet(DOMAIN Splits)
    <3>1. Splits \in Seq(Seq(AnyPosting))
      BY CursorTypes
    <3>2. QED
      BY <3>1, FS_Interval
  <2>2. IsFiniteSet(left)
    BY <2>1, <1>10, FS_Subset
  <2>3. H = {f[i] : i \in left}
    OBVIOUS
  <2> HIDE DEF f, H, left
  <2>4. IsFiniteSet({f[i] : i \in left})
    BY <2>2, FiniteValues
  <2>5. QED
    BY <2>3, <2>4
<1>13. \A e \in H : /\ e.index \in left /\ e.posting = Merging!NotRead
                    /\ e.doc = Merging!Max({bound[e.index], Target})
                    /\ e = [index |-> e.index, posting |-> e.posting, doc |-> e.doc]
  <2>1. TAKE e \in H
  <2>2. PICK i \in left : e = entry(i, bound[i])
    OBVIOUS
  <2>3. e = [index |-> i, posting |-> Merging!NotRead, doc |-> Merging!Max({bound[i], Target})]
    BY <2>2 DEF Merging!Entry, Target
  <2>4. QED
    BY <2>3
<1>14. \A i \in left : \E e \in H : e.index = i
  <2>1. TAKE i \in left
  <2>2. entry(i, bound[i]) \in H
    OBVIOUS
  <2>3. entry(i, bound[i]).index = i
    BY DEF Merging!Entry
  <2>4. QED
    BY <2>2, <2>3
<1> HIDE DEF H, moved, left
<1>15. \A e \in H : e.doc \in Nat /\ e.doc <= Merging!ChildPosting(moved[e.index]).doc
  <2>1. TAKE e \in H
  <2>2. /\ e.index \in left /\ e.index \in DOMAIN Splits
        /\ bound[e.index] \in Merging!ChildBounds(moved[e.index])
        /\ ~Merging!ChildEnded(moved[e.index])
    BY <1>6, <1>8, <1>10, <1>13
  <2>3. IsMoved(moved[e.index], cursor.children[e.index], Splits[e.index], Target)
    BY <2>2, <1>8
  <2>4. QED
    BY <2>2, <2>3, <1>13 DEF IsMoved
<1>16. /\ cursor'.children = moved /\ cursor'.heap = H /\ Target' = Target
       /\ cursor'.initialized = TRUE /\ cursor'.last = cursor.last
       /\ cursor'.asking = cursor.asking /\ cursor'.doing = "moving"
  BY <1>3, <1>6 DEF CursorOK, Target, H
<1>17. CursorOK'
  <2>1. moved \in [DOMAIN Splits -> [list : Seq(AnyPosting), at : Nat, least : Nat]]
    <3>1. moved = [i \in DOMAIN Splits |-> moved[i]]
      BY <1>5 DEF moved
    <3>2. QED
      BY <3>1, <1>8, <1>9 DEF IsMoved
  <2>2. Merging!NotRead \in [doc : Int, value : Int, run : {<<>>}]
    BY DEF Merging!NotRead, Merging!Posting
  <2>3. \A e \in H : e \in [index : DOMAIN Splits, doc : Nat,
                            posting : [doc : Int, value : Int, run : {<<>>}]]
    <3>1. TAKE e \in H
    <3>2. e.index \in DOMAIN Splits /\ e.doc \in Nat
      BY <1>10, <1>13, <1>15
    <3>3. e = [index |-> e.index, posting |-> Merging!NotRead, doc |-> e.doc]
      BY <1>13
    <3>4. QED
      BY <3>2, <3>3, <2>2
  <2>4. QED
    BY <2>1, <2>3, <1>1, <1>2, <1>3, <1>6, <1>12, <1>16 DEF CursorOK, Target, H
<1>18. ChildrenOK'
  <2>1. \A i \in DOMAIN Splits : 0 \in 0 .. Len(Splits[i])
    BY <1>7
  <2>2. \A i \in DOMAIN Splits :
          moved[i].list = Splits[i] /\ moved[i].at = 0 /\ moved[i].least = Target
    BY <1>8 DEF IsMoved
  <2>3. QED
    BY <2>1, <2>2, <1>2, <1>11, <1>16 DEF ChildrenOK
<1>19. EntriesOK'
  <2>1. \A i : /\ NextOf(i)' = Merging!ChildNext(moved[i])
               /\ PostingOf(i)' = Merging!ChildPosting(moved[i])
    BY <1>16 DEF NextOf, PostingOf
  <2>2. \A e, f \in H : e.index = f.index => e = f
    <3>1. TAKE e, f \in H
    <3>2. HAVE e.index = f.index
    <3>3. e.posting = f.posting /\ e.doc = f.doc
      BY <3>2, <1>13
    <3>4. QED
      BY <3>2, <3>3, <1>13
  <2>3. \A e \in H :
          /\ moved[e.index].at = 0
          /\ Merging!ChildNext(moved[e.index]) \in DOMAIN Splits[e.index]
          /\ e.doc <= Merging!ChildPosting(moved[e.index]).doc
          /\ \A j \in DOMAIN Splits[e.index] :
               Splits[e.index][j].doc >= Target =>
                 Splits[e.index][j].doc >= Merging!ChildPosting(moved[e.index]).doc
          /\ e.posting = Merging!NotRead
    <3>1. TAKE e \in H
    <3>2. e.index \in left /\ e.index \in DOMAIN Splits /\ ~Merging!ChildEnded(moved[e.index])
      BY <1>8, <1>10, <1>13
    <3>3. IsMoved(moved[e.index], cursor.children[e.index], Splits[e.index], Target)
      BY <3>2, <1>8
    <3>4. moved[e.index].at = 0
      BY <3>2, <3>3, <1>8 DEF IsMoved
    <3>5. QED
      BY <3>2, <3>3, <3>4, <1>13, <1>15 DEF IsMoved
  <2>4. Merging!NotRead' = Merging!NotRead
    OBVIOUS
  <2>5. QED
    BY <2>1, <2>2, <2>3, <2>4, <1>2, <1>16 DEF EntriesOK
<1>20. AbsentOK'
  <2>1. SUFFICES ASSUME NEW i \in DOMAIN Splits, \A e \in H : e.index # i
                 PROVE  \A j \in DOMAIN Splits[i] : Splits[i][j].doc < Target
    BY <1>2, <1>16 DEF AbsentOK
  <2>2. i \notin left
    BY <2>1, <1>14
  <2>3. IsMoved(moved[i], cursor.children[i], Splits[i], Target) /\ Merging!ChildEnded(moved[i])
    BY <2>2, <1>8
  <2>4. QED
    BY <2>3 DEF IsMoved
<1>21. UnusedOK'
  BY <1>16 DEF UnusedOK
<1>22. AnswerOK'
  <2>1. reply' = Merging!Start
    BY <1>1, <1>4 DEF SplitInv, UnusedOK
  <2>2. Merging!Start # Merging!Ended
    BY DEF Merging!Start, Merging!Ended
  <2>3. QED
    BY <2>1, <2>2, <1>16 DEF AnswerOK
<1>23. SeenOK'
  <2>1. SeenOK
    BY DEF SplitInv
  <2>2. QED
    BY <2>1, <1>1, <1>16 DEF SeenOK
<1>24. QED
  BY <1>2, <1>17, <1>18, <1>19, <1>20, <1>21, <1>22, <1>23 DEF SplitInv

(***************************************************************************)
(* A cursor behind the target moves.                                       *)
(***************************************************************************)
LEMMA MoveTopInv ==
  ASSUME SplitInv, Merging!MoveTop
  PROVE  SplitInv'
<1>1. source' = source /\ seen' = seen /\ reply' = reply /\ cursor.doing = "moving"
  BY DEF Merging!MoveTop
<1>2. SplitsOK' /\ Splits' = Splits /\ SplitsOK
  BY <1>1, SplitsStay DEF SplitInv
<1>3. CursorOK
  BY DEF SplitInv
<1>4. PICK top \in Merging!Tops :
        /\ top.doc < cursor.target
        /\ LET m == Merging!ChildMove(cursor.children[top.index], cursor.target)
               rest == cursor.heap \ {top}
           IN IF Merging!ChildEnded(m)
              THEN cursor' = [cursor EXCEPT !.children[top.index] = m, !.heap = rest]
              ELSE \E b \in Merging!ChildBounds(m) :
                     cursor' = [cursor EXCEPT
                       !.children[top.index] = m,
                       !.heap = rest \cup {Merging!Entry(top.index, Merging!NotRead,
                                                        Merging!Max({b, cursor.target}))}]
  BY DEF Merging!MoveTop
<1> DEFINE k == top.index
           child == cursor.children[k]
           m == Merging!ChildMove(child, cursor.target)
           rest == cursor.heap \ {top}
           entry(b) == Merging!Entry(k, Merging!NotRead, Merging!Max({b, Target}))
<1>5. PICK H : /\ Merging!ChildEnded(m) => H = rest
               /\ ~Merging!ChildEnded(m) =>
                    \E b \in Merging!ChildBounds(m) : H = rest \cup {entry(b)}
               /\ cursor' = [cursor EXCEPT !.children[k] = m, !.heap = H]
  <2>1. CASE Merging!ChildEnded(m)
    BY <2>1, <1>4
  <2>2. CASE ~Merging!ChildEnded(m)
    <3>1. PICK b \in Merging!ChildBounds(m) :
            cursor' = [cursor EXCEPT !.children[k] = m, !.heap = rest \cup {entry(b)}]
      BY <2>2, <1>4 DEF Target
    <3>2. QED
      BY <3>1, <2>2
  <2>3. QED
    BY <2>1, <2>2
<1>6. top \in cursor.heap /\ top.doc < Target
  BY <1>4 DEF Merging!Tops, Target
<1>7. k \in DOMAIN Splits /\ top.doc \in Nat /\ Target \in Nat
  BY <1>6, CursorTypes
<1>8. Splits[k] \in Seq(AnyPosting) /\ InDocOrder(Splits[k])
  BY <1>2, <1>7 DEF SplitsOK, Splits
<1>9. EntriesOK /\ ChildrenOK
  BY DEF SplitInv
<1>10. /\ child \in [list : Seq(AnyPosting), at : Nat, least : Nat] /\ child.list = Splits[k]
       /\ child.at \in 0 .. Len(Splits[k]) /\ child.least <= Target
  BY <1>3, <1>7, <1>9 DEF CursorOK, ChildrenOK
<1>11. child.at # 0 => Splits[k][child.at].doc < Target
  <2>1. child.at # 0 => Splits[k][child.at].doc <= top.doc
    BY <1>9, <1>6 DEF EntriesOK
  <2>2. child.at # 0 => child.at \in DOMAIN Splits[k]
    BY <1>8, <1>10
  <2>3. child.at # 0 => Splits[k][child.at].doc \in Nat
    BY <2>2, <1>7, CursorTypes
  <2>4. QED
    BY <2>1, <2>3, <1>7, <1>6
<1>12. m = Merging!ChildMove(child, Target)
  BY DEF Target
<1> HIDE DEF m, child
<1>13. IsMoved(m, child, Splits[k], Target)
  BY <1>7, <1>8, <1>10, <1>11, <1>12, ChildMoved
<1>14. /\ m \in [list : Seq(AnyPosting), at : Nat, least : Nat]
       /\ m.list = Splits[k] /\ m.at = child.at /\ m.least = Target
       /\ Merging!ChildEnded(m) => \A j \in DOMAIN Splits[k] : Splits[k][j].doc < Target
       /\ ~Merging!ChildEnded(m) =>
            /\ Merging!ChildNext(m) \in DOMAIN Splits[k]
            /\ Merging!ChildPosting(m).doc >= Target
            /\ \A j \in DOMAIN Splits[k] :
                 Splits[k][j].doc >= Target => Splits[k][j].doc >= Merging!ChildPosting(m).doc
            /\ \A b \in Merging!ChildBounds(m) :
                 /\ Merging!Max({b, Target}) \in Nat /\ Merging!Max({b, Target}) >= Target
                 /\ Merging!Max({b, Target}) <= Merging!ChildPosting(m).doc
  BY <1>13 DEF IsMoved
<1>15. /\ cursor'.children = [cursor.children EXCEPT ![k] = m] /\ cursor'.heap = H
       /\ Target' = Target /\ cursor'.initialized = cursor.initialized
       /\ cursor'.last = cursor.last /\ cursor'.asking = cursor.asking /\ cursor'.doing = "moving"
  BY <1>1, <1>3, <1>5 DEF CursorOK, Target
<1>16. /\ cursor.children \in [DOMAIN Splits -> [list : Seq(AnyPosting), at : Nat, least : Nat]]
       /\ cursor'.children[k] = m
       /\ \A i \in DOMAIN Splits : i # k => cursor'.children[i] = cursor.children[i]
  BY <1>3, <1>7, <1>15 DEF CursorOK
<1>17. \A e \in H :
         \/ e \in cursor.heap /\ e # top /\ e.index # k
         \/ /\ ~Merging!ChildEnded(m) /\ e.index = k /\ e.posting = Merging!NotRead
            /\ e.doc \in Nat /\ e.doc >= Target /\ e.doc <= Merging!ChildPosting(m).doc
            /\ e = [index |-> k, posting |-> Merging!NotRead, doc |-> e.doc]
            /\ H = rest \cup {e}
  <2>1. \A e \in cursor.heap : e # top => e.index # k
    BY <1>9, <1>6 DEF EntriesOK
  <2>2. \A b : entry(b) = [index |-> k, posting |-> Merging!NotRead,
                            doc |-> Merging!Max({b, Target})]
    BY DEF Merging!Entry
  <2> HIDE DEF entry
  <2>3. TAKE e \in H
  <2>4. CASE e \in cursor.heap /\ e # top
    BY <2>1, <2>4
  <2>5. CASE ~(e \in cursor.heap /\ e # top)
    <3>1. ~Merging!ChildEnded(m)
      BY <2>5, <1>5
    <3>2. PICK b \in Merging!ChildBounds(m) : H = rest \cup {entry(b)}
      BY <3>1, <1>5
    <3>3. e = entry(b)
      BY <3>2, <2>5
    <3>4. e = [index |-> k, posting |-> Merging!NotRead, doc |-> Merging!Max({b, Target})]
      BY <3>3, <2>2
    <3>5. /\ Merging!Max({b, Target}) \in Nat /\ Merging!Max({b, Target}) >= Target
          /\ Merging!Max({b, Target}) <= Merging!ChildPosting(m).doc
      BY <3>1, <1>14
    <3>6. e.index = k /\ e.posting = Merging!NotRead /\ e.doc = Merging!Max({b, Target})
      BY <3>4
    <3>7. QED
      BY <3>1, <3>2, <3>3, <3>4, <3>5, <3>6
  <2>6. QED
    BY <2>4, <2>5
<1>18. \A e \in cursor.heap : e # top => e \in H
  BY <1>5
<1>19. CursorOK'
  <2>1. cursor'.children \in [DOMAIN Splits -> [list : Seq(AnyPosting), at : Nat, least : Nat]]
    BY <1>14, <1>15, <1>16
  <2>2. Merging!NotRead \in [doc : Int, value : Int, run : {<<>>}]
    BY DEF Merging!NotRead, Merging!Posting
  <2>3. H \subseteq [index : DOMAIN Splits, doc : Nat,
                     posting : [doc : Int, value : Int, run : {<<>>}]]
    <3>1. cursor.heap \subseteq [index : DOMAIN Splits, doc : Nat,
                                 posting : [doc : Int, value : Int, run : {<<>>}]]
      BY <1>3 DEF CursorOK
    <3>2. QED
      BY <3>1, <2>2, <1>7, <1>17
  <2>4. IsFiniteSet(H)
    <3>1. IsFiniteSet(rest)
      BY <1>3, FS_RemoveElement DEF CursorOK
    <3>2. \A b : IsFiniteSet(rest \cup {entry(b)})
      BY <3>1, FS_AddElement
    <3>3. QED
      BY <3>1, <3>2, <1>5
  <2>5. QED
    BY <2>1, <2>3, <2>4, <1>1, <1>2, <1>3, <1>5, <1>15 DEF CursorOK, Target
<1>20. ChildrenOK'
  <2>1. ASSUME NEW i \in DOMAIN Splits
        PROVE  /\ cursor'.children[i].list = Splits[i]
               /\ cursor'.children[i].at \in 0 .. Len(Splits[i])
               /\ cursor'.children[i].least <= Target
    <3>1. CASE i = k
      BY <3>1, <1>7, <1>10, <1>14, <1>16
    <3>2. CASE i # k
      BY <3>2, <1>9, <1>16 DEF ChildrenOK
    <3>3. QED
      BY <3>1, <3>2
  <2>2. QED
    BY <2>1, <1>2, <1>15 DEF ChildrenOK
<1>21. EntriesOK'
  <2>1. /\ NextOf(k)' = Merging!ChildNext(m) /\ PostingOf(k)' = Merging!ChildPosting(m)
        /\ \A i \in DOMAIN Splits : i # k => NextOf(i)' = NextOf(i) /\ PostingOf(i)' = PostingOf(i)
    BY <1>16 DEF NextOf, PostingOf
  <2>2. \A p : Counts(p)' = Counts(p)
    BY <1>1 DEF Counts
  <2>3. \A e, f \in H : e.index = f.index => e = f
    <3>1. TAKE e, f \in H
    <3>2. CASE e.index = k /\ f.index = k
      <4>1. H = rest \cup {e} /\ (f \notin cursor.heap \/ f = top)
        BY <3>2, <1>9, <1>17, <1>6 DEF EntriesOK
      <4>2. QED
        BY <4>1
    <3>3. CASE ~(e.index = k /\ f.index = k)
      BY <3>3, <1>9, <1>17 DEF EntriesOK
    <3>4. QED
      BY <3>2, <3>3
  <2>4. ASSUME NEW e \in H
        PROVE  LET i == e.index IN
               /\ cursor'.children[i].at # 0 => Splits[i][cursor'.children[i].at].doc <= e.doc
               /\ NextOf(i)' \in DOMAIN Splits[i] /\ e.doc <= PostingOf(i)'.doc
               /\ \A j \in DOMAIN Splits[i] :
                    Splits[i][j].doc >= Target => Splits[i][j].doc >= PostingOf(i)'.doc
               /\ e.posting # Merging!NotRead =>
                    e.posting = Counts(PostingOf(i)') /\ e.doc = PostingOf(i)'.doc
    <3>1. CASE e \in cursor.heap /\ e # top /\ e.index # k
      <4>1. e.index \in DOMAIN Splits
        BY <3>1, CursorTypes
      <4>2. QED
        BY <3>1, <4>1, <2>1, <1>9, <1>16 DEF EntriesOK
    <3>2. CASE /\ ~Merging!ChildEnded(m) /\ e.index = k /\ e.posting = Merging!NotRead
               /\ e.doc \in Nat /\ e.doc >= Target /\ e.doc <= Merging!ChildPosting(m).doc
      <4>1. child.at # 0 => child.at \in DOMAIN Splits[k]
        BY <1>8, <1>10
      <4>2. child.at # 0 => Splits[k][child.at].doc \in Nat
        BY <4>1, <1>7, CursorTypes
      <4>3. child.at # 0 => Splits[k][child.at].doc <= e.doc
        BY <4>2, <3>2, <1>7, <1>11
      <4>4. QED
        BY <3>2, <4>3, <2>1, <1>14, <1>16
    <3>3. QED
      BY <3>1, <3>2, <1>17
  <2>5. QED
    BY <2>2, <2>3, <2>4, <1>2, <1>15 DEF EntriesOK
<1>22. AbsentOK'
  <2>1. AbsentOK
    BY DEF SplitInv
  <2>2. SUFFICES ASSUME cursor.initialized, NEW i \in DOMAIN Splits, \A e \in H : e.index # i,
                        NEW j \in DOMAIN Splits[i]
                 PROVE  Splits[i][j].doc < Target
    BY <1>2, <1>15 DEF AbsentOK
  <2>3. CASE i = k
    <3>1. Merging!ChildEnded(m)
      <4>1. SUFFICES ASSUME ~Merging!ChildEnded(m) PROVE FALSE
        OBVIOUS
      <4>2. PICK b \in Merging!ChildBounds(m) : H = rest \cup {entry(b)}
        BY <4>1, <1>5
      <4>3. entry(b) \in H /\ entry(b).index = k
        BY <4>2 DEF Merging!Entry
      <4>4. QED
        BY <4>3, <2>2, <2>3
    <3>2. QED
      BY <3>1, <2>3, <1>14
  <2>4. CASE i # k
    <3>1. \A e \in cursor.heap : e.index # i
      BY <2>2, <2>4, <1>18
    <3>2. QED
      BY <3>1, <2>1, <2>2 DEF AbsentOK
  <2>5. QED
    BY <2>3, <2>4
<1>23. UnusedOK'
  <2>1. UnusedOK
    BY DEF SplitInv
  <2>2. cursor.initialized
    BY <2>1, <1>1 DEF UnusedOK
  <2>3. QED
    BY <2>2, <1>15 DEF UnusedOK
<1>24. AnswerOK'
  <2>1. AnswerOK
    BY DEF SplitInv
  <2>2. reply # Merging!Ended
    BY <2>1, <1>6 DEF AnswerOK
  <2>3. QED
    BY <2>2, <1>1, <1>15 DEF AnswerOK
<1>25. SeenOK'
  <2>1. SeenOK
    BY DEF SplitInv
  <2>2. QED
    BY <2>1, <1>1, <1>15 DEF SeenOK
<1>26. QED
  BY <1>2, <1>19, <1>20, <1>21, <1>22, <1>23, <1>24, <1>25 DEF SplitInv

(***************************************************************************)
(* The merged list as the heap knows it: no posting from the target on is  *)
(* before all of its entries, and an entry stands for a posting.           *)
(***************************************************************************)
LEMMA HeapCovers ==
  ASSUME SplitInv, cursor.initialized, NEW i \in DOMAIN source.postings,
         source.postings[i].doc >= Target
  PROVE  \E e \in cursor.heap :
           PostingOf(e.index).doc <= source.postings[i].doc /\ e.doc <= source.postings[i].doc
<1>1. MergeFacts /\ SplitsOK
  BY MergedInOrder DEF SplitInv
<1>2. PICK k \in DOMAIN Splits :
        \E j \in DOMAIN Splits[k] : source.postings[i] = Counts(Splits[k][j])
  BY <1>1 DEF MergeFacts
<1>3. PICK j \in DOMAIN Splits[k] : source.postings[i] = Counts(Splits[k][j])
  BY <1>2
<1>4. Splits[k][j] \in AnyPosting /\ Splits[k][j].doc \in Nat /\ Target \in Nat
  BY CursorTypes
<1>5. Splits[k][j].doc = source.postings[i].doc
  BY <1>1, <1>3, <1>4, CountedFacts
<1>6. PICK e \in cursor.heap : e.index = k
  <2>1. ~(Splits[k][j].doc < Target)
    BY <1>4, <1>5
  <2>2. QED
    BY <2>1 DEF SplitInv, AbsentOK
<1>7. /\ NextOf(k) \in DOMAIN Splits[k] /\ e.doc <= PostingOf(k).doc
      /\ PostingOf(k).doc <= Splits[k][j].doc
  BY <1>5, <1>6 DEF SplitInv, EntriesOK
<1>8. PostingOf(k).doc \in Nat /\ e.doc \in Nat
  <2>1. cursor.children[k].list = Splits[k]
    BY DEF SplitInv, ChildrenOK
  <2>2. PostingOf(k) = Splits[k][NextOf(k)]
    BY <2>1 DEF PostingOf, NextOf, Merging!ChildPosting
  <2>3. QED
    BY <2>2, <1>7, CursorTypes
<1>9. QED
  BY <1>4, <1>5, <1>6, <1>7, <1>8

\* The posting of an entry is one of the merged list, as it is counted.
LEMMA EntryStandsFor ==
  ASSUME SplitInv, NEW e \in cursor.heap
  PROVE  /\ PostingOf(e.index) \in AnyPosting /\ PostingOf(e.index).doc \in Nat
         /\ Counts(PostingOf(e.index)).doc = PostingOf(e.index).doc
         /\ \E i \in DOMAIN source.postings : source.postings[i] = Counts(PostingOf(e.index))
<1> DEFINE k == e.index
<1>1. MergeFacts /\ SplitsOK
  BY MergedInOrder DEF SplitInv
<1>2. k \in DOMAIN Splits
  BY CursorTypes
<1>3. NextOf(k) \in DOMAIN Splits[k]
  BY DEF SplitInv, EntriesOK
<1>4. PostingOf(k) = Splits[k][NextOf(k)]
  <2>1. cursor.children[k].list = Splits[k]
    BY <1>2 DEF SplitInv, ChildrenOK
  <2>2. QED
    BY <2>1 DEF PostingOf, NextOf, Merging!ChildPosting
<1>5. PostingOf(k) \in AnyPosting /\ PostingOf(k).doc \in Nat
  BY <1>2, <1>3, <1>4, CursorTypes
<1>6. Counts(PostingOf(k)).doc = PostingOf(k).doc
  BY <1>1, <1>5, CountedFacts
<1>7. \E i \in DOMAIN source.postings : source.postings[i] = Counts(PostingOf(k))
  BY <1>1, <1>2, <1>3, <1>4 DEF MergeFacts
<1>8. QED
  BY <1>5, <1>6, <1>7

\* Some entry is at the top of a heap that is not empty.
LEMMA TopExists ==
  ASSUME SplitInv, cursor.heap # {}
  PROVE  LET docs == {e.doc : e \in cursor.heap} IN
         /\ \E top \in Merging!Tops : top.doc = Merging!Min(docs)
         /\ Merging!Min(docs) \in docs /\ \A e \in cursor.heap : Merging!Min(docs) <= e.doc
<1> DEFINE f == [e \in cursor.heap |-> e.doc]
           docs == {e.doc : e \in cursor.heap}
<1>1. docs = {f[e] : e \in cursor.heap}
  OBVIOUS
<1>2. IsFiniteSet(cursor.heap)
  BY DEF SplitInv, CursorOK
<1>3. IsFiniteSet(docs)
  <2> HIDE DEF f, docs
  <2>1. QED
    BY <1>1, <1>2, FiniteValues
<1>4. docs \subseteq Int /\ docs # {}
  <2>1. \A e \in cursor.heap : e.doc \in Nat
    <3> HIDE DEF f, docs
    <3>1. QED
      BY CursorTypes
  <2>2. QED
    BY <2>1
<1>5. Merging!Min(docs) \in docs /\ \A d \in docs : Merging!Min(docs) <= d
  <2> HIDE DEF docs
  <2>1. QED
    BY <1>3, <1>4, MinOfFinite
<1>6. PICK top \in cursor.heap : top.doc = Merging!Min(docs)
  BY <1>5
<1>7. top \in Merging!Tops
  BY <1>5, <1>6 DEF Merging!Tops
<1>8. QED
  BY <1>5, <1>6, <1>7

\* The first posting of the merged list from a document on.
LEMMA FirstOfMerged ==
  ASSUME SplitInv, NEW d \in Nat
  PROVE  LET n == CursorContract!FirstFrom(source.postings, d) IN
         IF \E i \in DOMAIN source.postings : source.postings[i].doc >= d
         THEN n \in DOMAIN source.postings /\ source.postings[n].doc >= d
         ELSE n = 0
<1> DEFINE M == source.postings
           later == {i \in DOMAIN M : M[i].doc >= d}
<1>1. M \in Seq(AnyCounted)
  BY MergedInOrder DEF SplitInv, MergeFacts
<1>2. later \subseteq 1 .. Len(M) /\ IsFiniteSet(1 .. Len(M)) /\ later \subseteq Int
  BY <1>1, FS_Interval
<1>3. IsFiniteSet(later)
  BY <1>2, FS_Subset
<1>4. later # {} => Merging!Min(later) \in later
  <2> HIDE DEF later
  <2>1. QED
    BY <1>2, <1>3, MinOfFinite
<1>5. CursorContract!FirstFrom(M, d) = IF later = {} THEN 0 ELSE Merging!Min(later)
  BY DEF CursorContract!FirstFrom, CursorContract!Min, Merging!Min
<1>6. \A i : i \in later <=> i \in DOMAIN M /\ M[i].doc >= d
  OBVIOUS
<1> HIDE DEF later
<1>7. QED
  BY <1>4, <1>5, <1>6

\* What a cursor says of its list as a whole stays.
LEMMA BoundsStay ==
  ASSUME source' = source
  PROVE  Merging!Term' = Merging!Term
  BY DEF Merging!Term, Merging!Postings, Merging!FoldLeft, Merging!MapThenFoldSet

(***************************************************************************)
(* A move ends: the heap holds nothing behind the target, and its top      *)
(* bounds the posting the contract speaks of.                              *)
(***************************************************************************)
LEMMA EndMoveInv ==
  ASSUME SplitInv, Merging!EndMove
  PROVE  SplitInv' /\ CursorContract!Move
<1> DEFINE least == Merging!Max({cursor.asking, cursor.last + 1})
           M == source.postings
           docs == {e.doc : e \in cursor.heap}
<1>1. /\ source' = source /\ cursor.doing = "moving" /\ cursor' = [cursor EXCEPT !.doing = "idle"]
      /\ \A top \in Merging!Tops : top.doc >= Target
      /\ seen' = Merging!SeenMove(Merging!Postings, seen, cursor.asking)
      /\ reply' = IF cursor.heap = {} THEN Merging!Ended
                  ELSE Merging!Bound(Merging!Min(docs), Merging!TermBlock(Merging!Term))
  BY DEF Merging!EndMove, Target
<1>2. SplitsOK' /\ Splits' = Splits /\ SplitsOK
  BY <1>1, SplitsStay DEF SplitInv
<1>3. CursorOK
  BY DEF SplitInv
<1>4. /\ NoLimit \in Nat /\ Target \in Nat /\ cursor.asking \in Nat /\ cursor.last + 1 \in Nat
      /\ seen.asked \in Nat /\ seen.least \in Nat /\ cursor.last \in Int
  BY CursorTypes
<1>5. cursor.initialized
  BY <1>1 DEF SplitInv, UnusedOK
<1>6. least \in Nat /\ least >= cursor.asking /\ least >= cursor.last + 1
      /\ least \in {cursor.asking, cursor.last + 1}
  BY <1>4, MaxOfTwo
<1>7. Merging!Past(M, seen) = cursor.last + 1
  BY <1>4 DEF SplitInv, SeenOK, Merging!Past
<1>8. Merging!Max({seen.asked, least}) = Target
  <2>1. Target = Merging!Max({cursor.asking, seen.asked, cursor.last + 1})
    BY <1>1 DEF SplitInv, SeenOK
  <2>2. /\ Target \in {cursor.asking, seen.asked, cursor.last + 1}
        /\ Target >= cursor.asking /\ Target >= seen.asked /\ Target >= cursor.last + 1
    <3>1. cursor.asking \in Int /\ seen.asked \in Int /\ cursor.last + 1 \in Int
      BY <1>4
    <3>2. QED
      BY <2>1, <3>1, MaxOfThree
  <2> HIDE DEF least
  <2>3. Merging!Max({seen.asked, least}) = IF seen.asked >= least THEN seen.asked ELSE least
    BY <1>4, <1>6, MaxOfTwo
  <2>4. QED
    BY <2>2, <2>3, <1>4, <1>6
<1>9. seen' = [at |-> seen.at, least |-> least, asked |-> Target, moved |-> TRUE]
  BY <1>1, <1>7, <1>8 DEF Merging!SeenMove, Merging!Postings
<1> HIDE DEF least
<1>10. least <= Target
  BY <1>4, <1>6, <1>8, MaxOfTwo
<1>11. \A e \in cursor.heap : e.doc >= Target
  <2>1. TAKE e \in cursor.heap
  <2>2. PICK top \in Merging!Tops : top.doc = Merging!Min(docs)
    BY TopExists
  <2>3. Merging!Min(docs) \in docs /\ Merging!Min(docs) <= e.doc
    BY TopExists
  <2>4. Merging!Min(docs) \in Nat /\ e.doc \in Nat
    BY <2>3, CursorTypes
  <2>5. QED
    BY <2>2, <2>3, <2>4, <1>1, <1>4
<1>12. /\ cursor'.children = cursor.children /\ cursor'.heap = cursor.heap /\ Target' = Target
       /\ cursor'.initialized = cursor.initialized /\ cursor'.last = cursor.last
       /\ cursor'.asking = cursor.asking /\ cursor'.doing = "idle"
  BY <1>1, <1>3 DEF CursorOK, Target
<1>13. CursorOK'
  <2>1. seen' \in [at : 0 .. Len(source.postings), least : Nat, asked : Nat, moved : BOOLEAN]
    BY <1>3, <1>4, <1>6, <1>9 DEF CursorOK
  <2>2. cursor' \in [doing : {"idle", "opening", "moving", "reading"}, asking : 0 .. NoLimit,
                 children : [DOMAIN Splits -> [list : Seq(AnyPosting), at : Nat, least : Nat]],
                 heap : SUBSET [index : DOMAIN Splits, doc : Nat,
                                posting : [doc : Int, value : Int, run : {<<>>}]],
                 initialized : BOOLEAN, target : Nat, last : Int]
    BY <1>1, <1>3 DEF CursorOK
  <2>3. QED
    BY <2>1, <2>2, <1>1, <1>2, <1>3, <1>12 DEF CursorOK
<1>14. ChildrenOK' /\ AbsentOK'
  BY <1>2, <1>12 DEF SplitInv, ChildrenOK, AbsentOK
<1>15. EntriesOK'
  <2>1. EntriesOK
    BY DEF SplitInv
  <2>2. \A i : NextOf(i)' = NextOf(i) /\ PostingOf(i)' = PostingOf(i)
    BY <1>12 DEF NextOf, PostingOf
  <2>3. \A p : Counts(p)' = Counts(p)
    BY <1>1 DEF Counts
  <2>4. QED
    BY <2>1, <2>2, <2>3, <1>2, <1>12 DEF EntriesOK
<1>16. UnusedOK'
  BY <1>5, <1>12 DEF UnusedOK
<1>17. AnswerOK'
  BY <1>1, <1>12 DEF AnswerOK, Merging!Ended, Merging!Bound
<1>18. SeenOK'
  <2>1. cursor.last = IF seen.at = 0 THEN -1 ELSE M[seen.at].doc
    BY DEF SplitInv, SeenOK
  <2>2. ~(cursor.last >= least)
    BY <1>4, <1>6
  <2>3. /\ seen'.at = seen.at /\ seen'.least = least /\ seen'.asked = Target
    BY <1>9
  <2>4. QED
    BY <2>1, <2>2, <2>3, <1>1, <1>4, <1>6, <1>10, <1>11, <1>12 DEF SeenOK
<1>19. SplitInv'
  BY <1>2, <1>13, <1>14, <1>15, <1>16, <1>17, <1>18 DEF SplitInv
<1>20. Merging!Postings = M /\ Merging!Postings' = M /\ Merging!Term' = Merging!Term
  BY <1>1, BoundsStay DEF Merging!Postings
<1>21. seen' = CursorContract!SeenMove(M, seen, cursor.asking)
  BY <1>1, <1>20 DEF Merging!SeenMove, CursorContract!SeenMove, Merging!Past, CursorContract!Past,
                     Merging!Max, CursorContract!Max
<1> DEFINE i == CursorContract!FirstFrom(M, Target)
<1>22. CASE cursor.heap = {}
  <2>1. \A n \in DOMAIN M : ~(M[n].doc >= Target)
    BY <1>5, <1>22, HeapCovers
  <2>2. i = 0
    BY <2>1, <1>4, FirstOfMerged
  <2>3. reply' = CursorContract!Ended
    BY <1>1, <1>22 DEF Merging!Ended, CursorContract!Ended
  <2>4. cursor.asking \in 0 .. NoLimit /\ seen'.asked = Target
    BY <1>3, <1>9 DEF CursorOK
  <2>5. QED
    BY <2>2, <2>3, <2>4, <1>19, <1>20, <1>21 DEF CursorContract!Move
<1>23. CASE cursor.heap # {}
  <2>1. PICK e \in cursor.heap : TRUE
    BY <1>23
  <2>2. PICK n \in DOMAIN M : M[n] = Counts(PostingOf(e.index))
    BY EntryStandsFor
  <2>3. M[n].doc >= Target
    <3>1. e.doc <= PostingOf(e.index).doc /\ e.doc \in Nat
      BY CursorTypes DEF SplitInv, EntriesOK
    <3>2. PostingOf(e.index).doc \in Nat /\ M[n].doc = PostingOf(e.index).doc
      BY <2>2, EntryStandsFor
    <3>3. QED
      BY <3>1, <3>2, <1>4, <1>11
  <2>4. i \in DOMAIN M /\ M[i].doc >= Target
    BY <2>2, <2>3, <1>4, FirstOfMerged
  <2>5. i # 0
    <3>1. M \in Seq(AnyCounted)
      BY <1>2, MergedInOrder DEF MergeFacts
    <3>2. QED
      BY <3>1, <2>4
  <2>6. reply # CursorContract!Ended
    <3>1. reply # Merging!Ended
      BY <1>23 DEF SplitInv, AnswerOK
    <3>2. QED
      BY <3>1 DEF Merging!Ended, CursorContract!Ended
  <2>7. Merging!Min(docs) <= M[i].doc
    <3>1. PICK f \in cursor.heap : f.doc <= M[i].doc
      BY <2>4, <1>5, HeapCovers
    <3>2. Merging!Min(docs) \in docs /\ Merging!Min(docs) <= f.doc
      BY <1>23, TopExists
    <3>3. Merging!Min(docs) \in Nat /\ f.doc \in Nat /\ M[i].doc \in Nat
      BY <3>2, <2>4, CursorTypes
    <3>4. QED
      BY <3>1, <3>2, <3>3
  <2>8. reply' = [is |-> "bound", doc |-> Merging!Min(docs),
                  block |-> Merging!TermBlock(Merging!Term)]
    BY <1>1, <1>23 DEF Merging!Bound
  <2>9. CursorContract!BlockSound(reply'.block, i)
    <3>1. CursorContract!BlockSound(Merging!TermBlock(Merging!Term), i)
      BY <2>4, <1>2, BoundsOfMerged
    <3>2. reply'.block = Merging!TermBlock(Merging!Term)
      BY <2>8
    <3>3. QED
      BY <3>1, <3>2
  <2>10. reply'.is = "bound" /\ reply'.doc <= M[i].doc
    BY <2>7, <2>8
  <2>11. cursor.asking \in 0 .. NoLimit /\ seen'.asked = Target
    BY <1>3, <1>9 DEF CursorOK
  <2>12. QED
    BY <2>5, <2>6, <2>9, <2>10, <2>11, <1>19, <1>20, <1>21 DEF CursorContract!Move
<1>24. QED
  BY <1>22, <1>23

\* A read begins: only after a move that found something.
LEMMA BeginReadInv ==
  ASSUME SplitInv, Merging!BeginRead
  PROVE  SplitInv'
<1>1. /\ source' = source /\ seen' = seen /\ reply' = reply
      /\ cursor.doing = "idle" /\ cursor' = [cursor EXCEPT !.doing = "reading"]
      /\ reply \notin {Merging!Start, Merging!Ended}
  BY DEF Merging!BeginRead
<1>2. SplitsOK' /\ Splits' = Splits /\ CursorOK
  BY <1>1, SplitsStay DEF SplitInv
<1>3. /\ cursor'.children = cursor.children /\ cursor'.heap = cursor.heap /\ Target' = Target
      /\ cursor'.initialized = cursor.initialized /\ cursor'.last = cursor.last
      /\ cursor'.asking = cursor.asking /\ cursor'.doing = "reading"
  BY <1>1, <1>2 DEF CursorOK, Target
<1>4. CursorOK'
  BY <1>1, <1>2 DEF CursorOK
<1>5. ChildrenOK' /\ AbsentOK'
  BY <1>2, <1>3 DEF SplitInv, ChildrenOK, AbsentOK
<1>6. EntriesOK'
  <2>1. EntriesOK
    BY DEF SplitInv
  <2>2. \A i : NextOf(i)' = NextOf(i) /\ PostingOf(i)' = PostingOf(i)
    BY <1>3 DEF NextOf, PostingOf
  <2>3. \A p : Counts(p)' = Counts(p)
    BY <1>1 DEF Counts
  <2>4. QED
    BY <2>1, <2>2, <2>3, <1>2, <1>3 DEF EntriesOK
<1>7. UnusedOK' /\ AnswerOK'
  BY <1>1, <1>2, <1>3 DEF SplitInv, UnusedOK, AnswerOK
<1>8. SeenOK'
  BY <1>1, <1>3 DEF SplitInv, SeenOK
<1>9. QED
  BY <1>2, <1>4, <1>5, <1>6, <1>7, <1>8 DEF SplitInv

\* To be read does not move a cursor.
LEMMA ChildStays ==
  ASSUME NEW child \in [list : Seq(AnyPosting), at : Nat, least : Nat],
         Merging!ChildNext(child) \in DOMAIN child.list
  PROVE  LET read == Merging!ChildRead(child) IN
         /\ read \in [list : Seq(AnyPosting), at : Nat, least : Nat]
         /\ read.list = child.list /\ read.least = child.least
         /\ read.at = Merging!ChildNext(child)
         /\ Merging!ChildNext(read) = Merging!ChildNext(child)
         /\ Merging!ChildPosting(read) = Merging!ChildPosting(child)
<1> DEFINE n == Merging!ChildNext(child)
           read == Merging!ChildRead(child)
<1>1. child.list \in Seq(AnyPosting) /\ child.least \in Int
  OBVIOUS
<1>2. n \in Nat /\ n # 0
  BY <1>1
<1>3. /\ read \in [list : Seq(AnyPosting), at : Nat, least : Nat]
      /\ read.list = child.list /\ read.least = child.least /\ read.at = n
  BY <1>2 DEF Merging!ChildRead
<1>4. child.list[n].doc >= child.least
  <2>1. CASE child.at # 0 /\ child.list[child.at].doc >= child.least
    BY <2>1 DEF Merging!ChildNext
  <2>2. CASE ~(child.at # 0 /\ child.list[child.at].doc >= child.least)
    <3>1. n = Merging!FirstFrom(child.list, child.least)
      BY <2>2 DEF Merging!ChildNext
    <3>2. QED
      BY <3>1, <1>1, <1>2, FirstFromFacts
  <2>3. QED
    BY <2>1, <2>2
<1> HIDE DEF read, n
<1>5. Merging!ChildNext(read) = n
  BY <1>2, <1>3, <1>4 DEF Merging!ChildNext
<1>6. QED
  BY <1>3, <1>5 DEF Merging!ChildPosting, read, n

(***************************************************************************)
(* The cursor at the top is read: the heap holds its posting from now on.  *)
(***************************************************************************)
LEMMA ReadTopInv ==
  ASSUME SplitInv, Merging!ReadTop
  PROVE  SplitInv'
<1>1. source' = source /\ seen' = seen /\ reply' = reply /\ cursor.doing = "reading"
  BY DEF Merging!ReadTop
<1>2. SplitsOK' /\ Splits' = Splits /\ SplitsOK
  BY <1>1, SplitsStay DEF SplitInv
<1>3. CursorOK /\ EntriesOK /\ ChildrenOK
  BY DEF SplitInv
<1>4. PICK top \in Merging!Tops :
        cursor' = [cursor EXCEPT
          !.children[top.index] = Merging!ChildRead(cursor.children[top.index]),
          !.heap = (cursor.heap \ {top}) \cup
                   {Merging!Entry(top.index, Counts(PostingOf(top.index)),
                                  PostingOf(top.index).doc)}]
  BY DEF Merging!ReadTop, Counts, PostingOf
<1> DEFINE k == top.index
           child == cursor.children[k]
           m == Merging!ChildRead(child)
           p == PostingOf(k)
           new == Merging!Entry(k, Counts(p), p.doc)
           H == (cursor.heap \ {top}) \cup {new}
<1>5. top \in cursor.heap
  BY DEF Merging!Tops
<1>6. k \in DOMAIN Splits /\ top.doc \in Nat /\ Target \in Nat
  BY <1>5, CursorTypes
<1>7. /\ child \in [list : Seq(AnyPosting), at : Nat, least : Nat] /\ child.list = Splits[k]
      /\ child.at \in 0 .. Len(Splits[k]) /\ child.least <= Target
  BY <1>3, <1>6 DEF CursorOK, ChildrenOK
<1>8. Merging!ChildNext(child) \in DOMAIN Splits[k] /\ top.doc <= p.doc
  BY <1>3, <1>5 DEF EntriesOK, NextOf
<1>9. p = Merging!ChildPosting(child) /\ p = Splits[k][Merging!ChildNext(child)]
  BY <1>7 DEF PostingOf, Merging!ChildPosting
<1>10. p \in AnyPosting /\ p.doc \in Nat
  BY <1>5, EntryStandsFor
<1>11. Counts(p) \in AnyCounted /\ Counts(p).doc = p.doc
  BY <1>2, <1>10, CountedFacts
<1>12. new = [index |-> k, posting |-> Counts(p), doc |-> p.doc]
  BY DEF Merging!Entry
<1> HIDE DEF new
<1>13. new.index = k /\ new.posting = Counts(p) /\ new.doc = p.doc
  BY <1>12
<1> HIDE DEF m, child
<1>14. /\ m \in [list : Seq(AnyPosting), at : Nat, least : Nat]
       /\ m.list = Splits[k] /\ m.least = child.least /\ m.at = Merging!ChildNext(child)
       /\ Merging!ChildNext(m) = Merging!ChildNext(child)
       /\ Merging!ChildPosting(m) = Merging!ChildPosting(child)
  BY <1>7, <1>8, ChildStays DEF m
<1> HIDE DEF p
<1>15. /\ cursor'.children = [cursor.children EXCEPT ![k] = m] /\ cursor'.heap = H
       /\ Target' = Target /\ cursor'.initialized = cursor.initialized
       /\ cursor'.last = cursor.last /\ cursor'.asking = cursor.asking /\ cursor'.doing = "reading"
  BY <1>1, <1>3, <1>4 DEF CursorOK, Target, m, child, p, new
<1>16. /\ cursor.children \in [DOMAIN Splits -> [list : Seq(AnyPosting), at : Nat, least : Nat]]
       /\ cursor'.children[k] = m
       /\ \A i \in DOMAIN Splits : i # k => cursor'.children[i] = cursor.children[i]
  BY <1>3, <1>6, <1>15 DEF CursorOK
<1>17. \A e \in H : e = new \/ (e \in cursor.heap /\ e # top /\ e.index # k)
  BY <1>3, <1>5 DEF EntriesOK
<1>18. new \in H /\ \A e \in cursor.heap : e # top => e \in H
  OBVIOUS
<1>19. IsFiniteSet(H)
  <2>1. IsFiniteSet(cursor.heap \ {top})
    BY <1>3, FS_RemoveElement DEF CursorOK
  <2>2. QED
    BY <2>1, FS_AddElement
<1>20. cursor' = [cursor EXCEPT !.children[k] = m, !.heap = H]
  BY <1>4 DEF m, child, p, new
<1> HIDE DEF H
<1>21. CursorOK'
  <2>1. cursor'.children \in [DOMAIN Splits -> [list : Seq(AnyPosting), at : Nat, least : Nat]]
    BY <1>14, <1>15, <1>16
  <2>2. Counts(p) \in [doc : Int, value : Int, run : {<<>>}]
    BY <1>11 DEF AnyCounted
  <2>3. H \subseteq [index : DOMAIN Splits, doc : Nat,
                     posting : [doc : Int, value : Int, run : {<<>>}]]
    <3>1. cursor.heap \subseteq [index : DOMAIN Splits, doc : Nat,
                                 posting : [doc : Int, value : Int, run : {<<>>}]]
      BY <1>3 DEF CursorOK
    <3>2. new \in [index : DOMAIN Splits, doc : Nat,
                   posting : [doc : Int, value : Int, run : {<<>>}]]
      BY <2>2, <1>6, <1>10, <1>12
    <3>3. QED
      BY <3>1, <3>2, <1>17
  <2>4. QED
    BY <2>1, <2>3, <1>1, <1>2, <1>3, <1>15, <1>19, <1>20 DEF CursorOK, Target
<1>22. ChildrenOK'
  <2>1. Merging!ChildNext(child) \in 0 .. Len(Splits[k])
    <3>1. Splits[k] \in Seq(AnyPosting)
      BY <1>6, CursorTypes
    <3>2. QED
      BY <3>1, <1>8 DEF child
  <2>2. ASSUME NEW i \in DOMAIN Splits
        PROVE  /\ cursor'.children[i].list = Splits[i]
               /\ cursor'.children[i].at \in 0 .. Len(Splits[i])
               /\ cursor'.children[i].least <= Target
    <3>1. CASE i = k
      BY <3>1, <2>1, <1>7, <1>14, <1>16
    <3>2. CASE i # k
      BY <3>2, <1>3, <1>16 DEF ChildrenOK
    <3>3. QED
      BY <3>1, <3>2
  <2>3. QED
    BY <2>2, <1>2, <1>15 DEF ChildrenOK
<1>23. EntriesOK'
  <2>1. /\ NextOf(k)' = Merging!ChildNext(child) /\ PostingOf(k)' = p
        /\ \A i \in DOMAIN Splits : i # k => NextOf(i)' = NextOf(i) /\ PostingOf(i)' = PostingOf(i)
    BY <1>9, <1>14, <1>16 DEF NextOf, PostingOf
  <2>2. \A q : Counts(q)' = Counts(q)
    BY <1>1 DEF Counts
  <2>3. \A e, f \in H : e.index = f.index => e = f
    BY <1>3, <1>13, <1>17 DEF EntriesOK
  <2>4. ASSUME NEW e \in H
        PROVE  LET i == e.index IN
               /\ cursor'.children[i].at # 0 => Splits[i][cursor'.children[i].at].doc <= e.doc
               /\ NextOf(i)' \in DOMAIN Splits[i] /\ e.doc <= PostingOf(i)'.doc
               /\ \A j \in DOMAIN Splits[i] :
                    Splits[i][j].doc >= Target => Splits[i][j].doc >= PostingOf(i)'.doc
               /\ e.posting # Merging!NotRead =>
                    e.posting = Counts(PostingOf(i)') /\ e.doc = PostingOf(i)'.doc
    <3>1. CASE e \in cursor.heap /\ e # top /\ e.index # k
      <4>1. e.index \in DOMAIN Splits
        BY <3>1, CursorTypes
      <4>2. QED
        BY <3>1, <4>1, <2>1, <1>3, <1>16 DEF EntriesOK
    <3>2. CASE e = new
      <4>1. \A j \in DOMAIN Splits[k] : Splits[k][j].doc >= Target => Splits[k][j].doc >= p.doc
        BY <1>3, <1>5 DEF EntriesOK, p
      <4>2. Splits[k][cursor'.children[k].at] = p
        BY <1>9, <1>14, <1>16
      <4>3. p.doc <= p.doc
        BY <1>10
      <4>4. NextOf(k)' \in DOMAIN Splits[k]
        BY <2>1, <1>8 DEF child
      <4>5. QED
        BY <3>2, <4>1, <4>2, <4>3, <4>4, <2>1, <1>13
    <3>3. QED
      BY <3>1, <3>2, <1>17
  <2>5. QED
    BY <2>2, <2>3, <2>4, <1>2, <1>15 DEF EntriesOK
<1>24. AbsentOK'
  <2>1. AbsentOK
    BY DEF SplitInv
  <2>2. \A i : (\A e \in H : e.index # i) => \A e \in cursor.heap : e.index # i
    BY <1>13, <1>18
  <2>3. QED
    BY <2>1, <2>2, <1>2, <1>15 DEF AbsentOK
<1>25. UnusedOK'
  <2>1. cursor.initialized
    BY <1>1 DEF SplitInv, UnusedOK
  <2>2. QED
    BY <2>1, <1>15 DEF UnusedOK
<1>26. AnswerOK'
  <2>1. reply \notin {Merging!Start, Merging!Ended}
    BY <1>1 DEF SplitInv, AnswerOK
  <2>2. QED
    BY <2>1, <1>1, <1>15, <1>18 DEF AnswerOK
<1>27. SeenOK'
  <2>1. SeenOK
    BY DEF SplitInv
  <2>2. \A e \in cursor.heap : e.doc >= Target
    BY <2>1, <1>1 DEF SeenOK
  <2>3. new.doc >= Target
    BY <2>2, <1>5, <1>6, <1>8, <1>10, <1>13 DEF p
  <2>4. \A e \in H : e.doc >= Target
    BY <2>2, <2>3, <1>17
  <2>5. QED
    BY <2>1, <2>4, <1>1, <1>15 DEF SeenOK
<1>28. QED
  BY <1>2, <1>21, <1>22, <1>23, <1>24, <1>25, <1>26, <1>27 DEF SplitInv

(***************************************************************************)
(* The posting at the top of the heap, once it is read, is the first one   *)
(* of the merged list from the target on: the read the contract allows.    *)
(***************************************************************************)
LEMMA EndReadInv ==
  ASSUME SplitInv, Merging!EndRead
  PROVE  SplitInv' /\ CursorContract!Read
<1> DEFINE M == source.postings
<1>1. PICK top \in Merging!Tops :
        /\ top.posting # Merging!NotRead
        /\ cursor' = [cursor EXCEPT !.doing = "idle", !.last = top.posting.doc]
        /\ seen' = Merging!SeenRead(Merging!Postings, seen, top.posting.doc)
        /\ reply' = Merging!Found(top.posting, Merging!TermBlock(Merging!Term))
  BY DEF Merging!EndRead
<1>2. source' = source /\ cursor.doing = "reading"
  BY DEF Merging!EndRead
<1>3. SplitsOK' /\ Splits' = Splits /\ SplitsOK
  BY <1>2, SplitsStay DEF SplitInv
<1>4. CursorOK /\ EntriesOK /\ SeenOK
  BY DEF SplitInv
<1>5. top \in cursor.heap /\ \A e \in cursor.heap : top.doc <= e.doc
  BY DEF Merging!Tops
<1> DEFINE d == top.posting.doc
           p == PostingOf(top.index)
<1>6. top.posting = Counts(p) /\ top.doc = p.doc
  BY <1>1, <1>4, <1>5 DEF EntriesOK
<1>7. p.doc \in Nat /\ Counts(p).doc = p.doc
  BY <1>5, EntryStandsFor
<1>8. PICK n \in DOMAIN M : M[n] = Counts(p)
  BY <1>5, EntryStandsFor
<1>9. M[n] = top.posting /\ M[n].doc = d /\ d = top.doc /\ d \in Nat
  BY <1>6, <1>7, <1>8
<1>10. /\ Target \in Nat /\ seen.asked \in Nat /\ seen.least \in Nat /\ Len(M) \in Nat
       /\ \A i \in DOMAIN M : M[i].doc \in Nat
  BY CursorTypes
<1>11. cursor.initialized
  BY <1>2 DEF SplitInv, UnusedOK
<1>12. Target = seen.asked /\ seen.least <= Target /\ d >= Target
  BY <1>2, <1>4, <1>5, <1>9 DEF SeenOK
<1>13. \A i \in DOMAIN M : M[i].doc >= Target => d <= M[i].doc
  <2>1. SUFFICES ASSUME NEW i \in DOMAIN M, M[i].doc >= Target PROVE d <= M[i].doc
    OBVIOUS
  <2>2. PICK e \in cursor.heap : e.doc <= M[i].doc
    BY <2>1, <1>11, HeapCovers
  <2>3. top.doc <= e.doc /\ e.doc \in Nat /\ M[i].doc \in Nat
    BY <2>2, <1>5, <1>10, CursorTypes
  <2>4. QED
    BY <2>2, <2>3, <1>9
<1>14. M \in Seq(AnyCounted) /\ InDocOrder(M)
  BY <1>3, MergedInOrder DEF MergeFacts
<1>15. \A i \in DOMAIN M : M[i].doc = d => i = n
  <2>1. SUFFICES ASSUME NEW i \in DOMAIN M, M[i].doc = d PROVE i = n
    OBVIOUS
  <2>2. i \in Int /\ n \in Int
    BY <1>14
  <2>3. ~(i < n) /\ ~(n < i)
    BY <2>1, <1>9, <1>14 DEF InDocOrder
  <2>4. QED
    BY <2>2, <2>3
<1>16. seen' = [seen EXCEPT !.at = n]
  <2>1. (CHOOSE i \in DOMAIN M : M[i].doc = d) = n
    BY <1>9, <1>15
  <2>2. QED
    BY <2>1, <1>1, <1>9 DEF Merging!SeenRead, Merging!Postings
<1>17. n # 0 /\ n \in 0 .. Len(M)
  BY <1>14
<1>18. /\ seen'.at = n /\ seen'.least = seen.least /\ seen'.asked = seen.asked
       /\ seen'.moved = seen.moved
       /\ seen' \in [at : 0 .. Len(M), least : Nat, asked : Nat, moved : BOOLEAN]
  BY <1>4, <1>16, <1>17 DEF CursorOK
<1>19. /\ cursor'.children = cursor.children /\ cursor'.heap = cursor.heap /\ Target' = Target
       /\ cursor'.initialized = cursor.initialized /\ cursor'.last = d
       /\ cursor'.asking = cursor.asking /\ cursor'.doing = "idle"
  BY <1>1, <1>4 DEF CursorOK, Target
<1>20. CursorOK'
  <2>1. IsFiniteSet(cursor'.heap)
    BY <1>4, <1>19 DEF CursorOK
  <2>2. cursor' \in [doing : {"idle", "opening", "moving", "reading"}, asking : 0 .. NoLimit,
                 children : [DOMAIN Splits -> [list : Seq(AnyPosting), at : Nat, least : Nat]],
                 heap : SUBSET [index : DOMAIN Splits, doc : Nat,
                                posting : [doc : Int, value : Int, run : {<<>>}]],
                 initialized : BOOLEAN, target : Nat, last : Int]
    <3>1. ASSUME NEW D, NEW A, NEW C, NEW H, "idle" \in D,
                 NEW c \in [doing : D, asking : A, children : C, heap : H,
                            initialized : BOOLEAN, target : Nat, last : Int]
          PROVE  [c EXCEPT !.doing = "idle", !.last = d]
                   \in [doing : D, asking : A, children : C, heap : H,
                       initialized : BOOLEAN, target : Nat, last : Int]
      <4>1. d \in Int
        BY <1>9
      <4>2. QED
        BY <3>1, <4>1
    <3> DEFINE D == {"idle", "opening", "moving", "reading"}
               A == 0 .. NoLimit
               C == [DOMAIN Splits -> [list : Seq(AnyPosting), at : Nat, least : Nat]]
               H == SUBSET [index : DOMAIN Splits, doc : Nat,
                            posting : [doc : Int, value : Int, run : {<<>>}]]
    <3>2. "idle" \in D
      OBVIOUS
    <3>3. cursor \in [doing : D, asking : A, children : C, heap : H,
                     initialized : BOOLEAN, target : Nat, last : Int]
      BY <1>4 DEF CursorOK
    <3> HIDE DEF D, A, C, H
    <3>4. [cursor EXCEPT !.doing = "idle", !.last = d]
            \in [doing : D, asking : A, children : C, heap : H,
                initialized : BOOLEAN, target : Nat, last : Int]
      BY <3>1, <3>2, <3>3
    <3>5. QED
      BY <1>1, <3>4 DEF D, A, C, H
  <2>3. QED
    BY <2>1, <2>2, <1>2, <1>3, <1>18 DEF CursorOK
<1>21. ChildrenOK' /\ AbsentOK'
  BY <1>3, <1>19 DEF SplitInv, ChildrenOK, AbsentOK
<1>22. EntriesOK'
  <2>1. \A i : NextOf(i)' = NextOf(i) /\ PostingOf(i)' = PostingOf(i)
    BY <1>19 DEF NextOf, PostingOf
  <2>2. \A q : Counts(q)' = Counts(q)
    BY <1>2 DEF Counts
  <2>3. QED
    BY <2>1, <2>2, <1>3, <1>4, <1>19 DEF EntriesOK
<1>23. UnusedOK'
  BY <1>11, <1>19 DEF UnusedOK
<1>24. AnswerOK'
  <2>1. reply' # Merging!Ended
    BY <1>1 DEF Merging!Found, Merging!Ended
  <2>2. QED
    BY <2>1, <1>5, <1>19 DEF AnswerOK
<1>25. SeenOK'
  BY <1>2, <1>4, <1>9, <1>12, <1>13, <1>17, <1>18, <1>19 DEF SeenOK
<1>26. SplitInv'
  BY <1>3, <1>20, <1>21, <1>22, <1>23, <1>24, <1>25 DEF SplitInv
<1>27. Merging!Postings = M /\ Merging!Postings' = M /\ Merging!Term' = Merging!Term
  BY <1>2, BoundsStay DEF Merging!Postings
<1>28. n \in CursorContract!Readable
  <2>1. CASE seen.at # 0 /\ M[seen.at].doc >= seen.least
    <3>1. cursor.last = M[seen.at].doc
      BY <2>1, <1>4 DEF SeenOK
    <3>2. /\ cursor.last >= Target
          /\ \A i \in DOMAIN M : M[i].doc >= Target => cursor.last <= M[i].doc
      BY <2>1, <3>1, <1>2, <1>4 DEF SeenOK
    <3>3. seen.at \in DOMAIN M
      BY <2>1, <1>4, <1>14 DEF CursorOK
    <3>4. M[seen.at].doc = d
      BY <3>1, <3>2, <3>3, <1>9, <1>10, <1>12, <1>13
    <3>5. seen.at = n
      BY <3>3, <3>4, <1>15
    <3>6. QED
      BY <2>1, <3>5, <1>27 DEF CursorContract!Readable
  <2>2. CASE ~(seen.at # 0 /\ M[seen.at].doc >= seen.least)
    <3>1. M[n].doc >= seen.least
      BY <1>9, <1>10, <1>12
    <3>2. \A j \in DOMAIN M : M[j].doc >= seen.asked => n <= j
      <4>1. SUFFICES ASSUME NEW j \in DOMAIN M, M[j].doc >= seen.asked PROVE n <= j
        OBVIOUS
      <4>2. M[n].doc <= M[j].doc
        BY <4>1, <1>9, <1>12, <1>13
      <4>3. ~(j < n)
        <5>1. j < n => M[j].doc < M[n].doc
          BY <1>14 DEF InDocOrder
        <5>2. QED
          BY <4>2, <5>1, <1>10
      <4>4. QED
        BY <4>3, <1>14
    <3>3. QED
      BY <2>2, <3>1, <3>2, <1>27 DEF CursorContract!Readable
  <2>3. QED
    BY <2>1, <2>2
<1>29. reply' = [is |-> "posting", doc |-> M[n].doc, value |-> M[n].value,
                 block |-> Merging!TermBlock(Merging!Term)]
  BY <1>1, <1>9 DEF Merging!Found
<1>30. reply'.is = "posting" /\ reply' = CursorContract!Found(M[n], reply'.block)
  BY <1>29 DEF CursorContract!Found
<1>31. CursorContract!BlockSound(reply'.block, n)
  <2>1. CursorContract!BlockSound(Merging!TermBlock(Merging!Term), n)
    BY <1>3, BoundsOfMerged
  <2>2. reply'.block = Merging!TermBlock(Merging!Term)
    BY <1>29
  <2>3. QED
    BY <2>1, <2>2
<1>32. CursorContract!Read
  BY <1>16, <1>27, <1>28, <1>30, <1>31 DEF CursorContract!Read
<1>33. QED
  BY <1>26, <1>32

(***************************************************************************)
(* One call, or a turn of its loops: the invariant holds again, and the    *)
(* caller sees a step of the contract or nothing.                          *)
(***************************************************************************)
LEMMA SplitStep ==
  ASSUME SplitInv, [Merging!Next]_Merging!vars
  PROVE  SplitInv' /\ [CursorContract!Next]_CursorContract!vars
<1>1. source' = source /\ seen' = seen /\ reply' = reply => UNCHANGED CursorContract!vars
  BY BoundsStay DEF CursorContract!vars, Merging!Postings
<1>2. ASSUME NEW d \in 0 .. NoLimit, Merging!BeginMove(d)
      PROVE  SplitInv' /\ UNCHANGED CursorContract!vars
  BY <1>1, <1>2, BeginMoveInv DEF Merging!BeginMove
<1>3. CASE Merging!OpenAll
  BY <1>1, <1>3, OpenAllInv DEF Merging!OpenAll
<1>4. CASE Merging!MoveTop
  BY <1>1, <1>4, MoveTopInv DEF Merging!MoveTop
<1>5. CASE Merging!EndMove
  <2>1. SplitInv' /\ CursorContract!Move
    BY <1>5, EndMoveInv
  <2>2. source' = source
    BY <1>5 DEF Merging!EndMove
  <2>. QED
    BY <2>1, <2>2, <1>1 DEF CursorContract!Next
<1>6. CASE Merging!BeginRead
  BY <1>1, <1>6, BeginReadInv DEF Merging!BeginRead
<1>7. CASE Merging!ReadTop
  BY <1>1, <1>7, ReadTopInv DEF Merging!ReadTop
<1>8. CASE Merging!EndRead
  <2>1. SplitInv' /\ CursorContract!Read
    BY <1>8, EndReadInv
  <2>2. source' = source
    BY <1>8 DEF Merging!EndRead
  <2>. QED
    BY <2>1, <2>2, <1>1 DEF CursorContract!Next
<1>9. CASE UNCHANGED Merging!vars
  <2>1. source' = source /\ cursor' = cursor /\ seen' = seen /\ reply' = reply
    BY <1>9 DEF Merging!vars
  <2>2. SplitsOK' /\ Splits' = Splits /\ Target' = Target
    BY <2>1, SplitsStay DEF SplitInv, Target
  <2>3. CursorOK' /\ ChildrenOK' /\ AbsentOK' /\ UnusedOK' /\ AnswerOK' /\ SeenOK'
    BY <2>1, <2>2 DEF SplitInv, CursorOK, ChildrenOK, AbsentOK, UnusedOK, AnswerOK, SeenOK
  <2>4. EntriesOK'
    <3>1. EntriesOK
      BY DEF SplitInv
    <3>2. \A i : NextOf(i)' = NextOf(i) /\ PostingOf(i)' = PostingOf(i)
      BY <2>1 DEF NextOf, PostingOf
    <3>3. \A p : Counts(p)' = Counts(p)
      BY <2>1 DEF Counts
    <3>4. QED
      BY <3>1, <3>2, <3>3, <2>1, <2>2 DEF EntriesOK
  <2>5. QED
    BY <2>1, <2>2, <2>3, <2>4, <1>1 DEF SplitInv
<1>10. QED
  BY <1>2, <1>3, <1>4, <1>5, <1>6, <1>7, <1>8, <1>9 DEF Merging!Next

\* The invariant says what the comment on the heap says.
LEMMA HeapFollows == SplitInv => Merging!HeapIsCurrent
<1> SUFFICES ASSUME SplitInv PROVE Merging!HeapIsCurrent
  OBVIOUS
<1>1. SUFFICES ASSUME cursor.doing \in {"idle", "reading"}, NEW e \in cursor.heap
               PROVE  e.doc >= Target /\ (e.posting # Merging!NotRead => e.posting.doc = e.doc)
  BY DEF Merging!HeapIsCurrent, Target
<1>2. e.doc >= Target
  BY <1>1 DEF SplitInv, SeenOK
<1>3. e.posting # Merging!NotRead =>
        e.posting = Counts(PostingOf(e.index)) /\ e.doc = PostingOf(e.index).doc
  BY DEF SplitInv, EntriesOK
<1>4. Counts(PostingOf(e.index)).doc = PostingOf(e.index).doc
  BY EntryStandsFor
<1>5. QED
  BY <1>2, <1>3, <1>4

\* The sources the cursor is given are those the invariant speaks of.
LEMMA SourceFollows ==
  NoLimit \in Nat /\ Merging!IsSource(source) => SplitsOK
BY DEF Merging!IsSource, SplitsOK, InDocOrder, AnyPosting

(***************************************************************************)
(* "Every entry has min_doc_id >= target, so no entry holds a stale        *)
(* posting": of the heap of the cursor that merges the splits of a term    *)
(* (SplitIndexTermIterator), for all lists, splits and calls.              *)
(***************************************************************************)
THEOREM MergedHeapIsCurrent ==
  NoLimit \in Nat /\ Merging!IsSource(source) /\ Merging!Spec => []Merging!HeapIsCurrent
<1>1. SplitsOK /\ Merging!Init => SplitInv
  BY SplitInvInit
<1>2. SplitInv /\ [Merging!Next]_Merging!vars => SplitInv'
  BY SplitStep
<1>3. SplitInv => Merging!HeapIsCurrent
  BY HeapFollows
<1>4. QED
  BY <1>1, <1>2, <1>3, SourceFollows, PTL DEF Merging!Spec

(***************************************************************************)
(* The cursor that merges the splits of a term keeps the contract of a     *)
(* cursor over one list, that of all their postings in the order of        *)
(* documents: moves and reads in any order lose no posting and give none   *)
(* twice, whatever the cursors below it answer, ties in the heap included. *)
(***************************************************************************)
THEOREM MergedKeepsContract ==
  NoLimit \in Nat /\ Merging!IsSource(source) /\ Merging!Spec => CursorContract!Spec
<1>1. SplitsOK /\ Merging!Init => SplitInv /\ CursorContract!Init
  <2>1. SplitsOK /\ Merging!Init => SplitInv
    BY SplitInvInit
  <2>2. SplitsOK => CursorContract!TermSound
    BY BoundsOfMerged
  <2>3. Merging!Init => seen = CursorContract!Unseen /\ reply = CursorContract!Start
    BY DEF Merging!Init, Merging!Unseen, CursorContract!Unseen, Merging!Start, CursorContract!Start
  <2>4. QED
    BY <2>1, <2>2, <2>3 DEF CursorContract!Init
<1>2. SplitInv /\ [Merging!Next]_Merging!vars
      => SplitInv' /\ [CursorContract!Next]_CursorContract!vars
  BY SplitStep
<1>3. QED
  BY <1>1, <1>2, SourceFollows, PTL DEF Merging!Spec, CursorContract!Spec
=============================================================================
