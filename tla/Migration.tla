----------------------------- MODULE Migration ------------------------------
(***************************************************************************)
(* update_index: an index directory of an earlier version is brought to    *)
(* the current one, one version at a time, in place or in a copy, by a     *)
(* process that may stop between any two writes and be run again.          *)
(***************************************************************************)
EXTENDS Naturals, Sequences, SequencesExt, FiniteSets

CONSTANTS
  Absent, Short,
  Originals,      \* the directories an update may be asked for
  MaxCalls, MaxCrashes

CURRENT_FORMAT_VERSION == 3
COMPRESSED_INDEX_VERSION == 5

VARIABLES
  tree,           \* the files of the index and of its copy
  target,         \* the one the last call updates
  stack,          \* the calls of update_index under way, the outermost first
  copying,        \* the files still to be copied
  outcome,        \* of the last call
  overwritten,    \* ghost: the copy was begun over an earlier one
  calls, crashes

vars == <<tree, target, stack, copying, outcome, overwritten, calls, crashes>>

-----------------------------------------------------------------------------

\* A split index has its postings in a directory of its own within.
Levels == {"top", "inner"}
Paths == {"index", "copy"} \X Levels
FileNames == {"manifest", "information", "bin", "lengths"}

\* A manifest is of a version, the later ones taken together; bin is the version
\* of its layout and what its blocks say of the lengths of their documents; of the
\* other files only their presence matters.
Manifests == [version : 1 .. CURRENT_FORMAT_VERSION + 1, kind : {"forward", "compressed", "split"}]
Bins == [version : 3 .. COMPRESSED_INDEX_VERSION,
         lengths : {"none", "exact", "unknown", "misread"}]

\* Every file of one directory.
NoFiles == [name \in FileNames |-> Absent]

Held(index, level) == \E name \in FileNames : index[level][name] # Absent

\* What a directory without a manifest is taken for.
Layout(index, level) ==
  IF index[level].information # Absent THEN "forward"
  ELSE IF level = "top" /\ Held(index, "inner") THEN "split"
  ELSE "compressed"

At(path) == tree[path[1]][path[2]]
Exists(path) == Held(tree[path[1]], path[2])

Put(path, name, content) == tree' = [tree EXCEPT ![path[1]][path[2]][name] = content]

detect_index_kind(path) == Layout(tree[path[1]], path[2])

\* manifest.json cannot be parsed until it is whole.
Readable(path) == At(path).manifest # Short

Version(path) == IF At(path).manifest = Absent THEN 0 ELSE At(path).manifest.version

Kind(path) ==
  IF At(path).manifest = Absent THEN detect_index_kind(path) ELSE At(path).manifest.kind

\* The oldest layout of index.bin that an index of a version may have.
Promised(version) == CASE version = 1 -> 3 [] version = 2 -> 4 [] OTHER -> 5

(***************************************************************************)
(* What releases leave behind, and what an update stopped before its       *)
(* second write leaves: one layout with its data, that of the manifest and *)
(* as new as its version; within a split index of the current version, an  *)
(* index of the current version.                                           *)
(***************************************************************************)
AsReleased(index) ==
  /\ index \in [Levels -> [manifest : Manifests \cup {Absent}, information : {Absent, "information"},
                          bin : Bins \cup {Absent}, lengths : {Absent, "lengths"}]]
  /\ Held(index, "inner") => Layout(index, "top") = "split"
  /\ \A level \in Levels :
       LET files == index[level] IN
       /\ level = "top" \/ Held(index, "inner")
            => (files.bin # Absent <=> Layout(index, level) = "compressed")
       /\ files.bin # Absent => files.bin.lengths # "misread"
       /\ files.manifest # Absent
            => /\ files.manifest.kind = Layout(index, level)
               /\ files.bin # Absent => files.bin.version >= Promised(files.manifest.version)
  /\ LET outer == index["top"].manifest
         within == index["inner"].manifest
     IN outer # Absent /\ outer.kind = "split" /\ outer.version = CURRENT_FORMAT_VERSION
          => within # Absent /\ within.version = CURRENT_FORMAT_VERSION

\* An update is asked for what releases left, and a missing or half-written file is
\* no whole one.
ASSUME MigrationAssumption ==
  /\ MaxCalls \in Nat /\ MaxCrashes \in Nat
  /\ Absent # Short
  /\ {Absent, Short} \cap (Manifests \cup Bins \cup {"information", "lengths"}) = {}
  /\ \A original \in Originals : AsReleased(original)

\* A frame of the stack: the directory, the version it is at, and what is next.
Frame(path, version, next) == [path |-> path, version |-> version, next |-> next]

Idle == stack = <<>> /\ copying = {}
Top == Last(stack)
Advance(next) == stack' = Append(Front(stack), [Top EXCEPT !.next = next])

Fail ==
  /\ stack' = <<>> /\ outcome' = "error"
  /\ UNCHANGED <<tree, target, copying, overwritten, calls, crashes>>

-----------------------------------------------------------------------------

Init ==
  /\ \E original \in Originals :
       tree = [index |-> original, copy |-> [level \in Levels |-> NoFiles]]
  /\ target = "index" /\ stack = <<>> /\ copying = {} /\ outcome = "none" /\ overwritten = FALSE
  /\ calls = 0 /\ crashes = 0

\* A call for the index itself.
BeginInPlace ==
  /\ Idle /\ calls < MaxCalls
  /\ target' = "index" /\ stack' = <<Frame(<<"index", "top">>, 0, "enter")>>
  /\ calls' = calls + 1 /\ outcome' = "running"
  /\ UNCHANGED <<tree, copying, overwritten, crashes>>

\* A call for a copy of it, which may be there from an earlier call.
BeginCopy ==
  /\ Idle /\ calls < MaxCalls
  /\ target' = "copy"
  /\ copying' = {file \in Levels \X FileNames : tree["index"][file[1]][file[2]] # Absent}
  /\ overwritten' = (overwritten \/ \E level \in Levels : Exists(<<"copy", level>>))
  /\ calls' = calls + 1 /\ outcome' = "running"
  /\ UNCHANGED <<tree, stack, crashes>>

\* copy_dir_all, in whatever order the directory lists its files; the last one
\* starts the migration of the copy.
CopyFile(level, name) ==
  /\ <<level, name>> \in copying
  /\ IF tree["copy"][level][name] # Short \/ tree["index"][level][name] = Short
     THEN Put(<<"copy", level>>, name, Short)
     ELSE Put(<<"copy", level>>, name, tree["index"][level][name])
  /\ copying' = IF tree'["copy"][level][name] = tree["index"][level][name]
                THEN copying \ {<<level, name>>} ELSE copying
  /\ stack' = IF copying' = {} THEN <<Frame(<<target, "top">>, 0, "enter")>> ELSE <<>>
  /\ UNCHANGED <<target, outcome, overwritten, calls, crashes>>

\* The version is read once, when the call begins.
Enter ==
  /\ stack # <<>> /\ Top.next = "enter"
  /\ IF ~Readable(Top.path) THEN Fail
     ELSE /\ stack' = Append(Front(stack), Frame(Top.path, Version(Top.path), "step"))
          /\ UNCHANGED <<tree, target, copying, outcome, overwritten, calls, crashes>>

Newer == /\ stack # <<>> /\ Top.next = "step"
         /\ Top.version > CURRENT_FORMAT_VERSION
         /\ Fail

Return ==
  /\ stack # <<>> /\ Top.next = "step" /\ Top.version = CURRENT_FORMAT_VERSION
  /\ IF Len(stack) = 1
     THEN stack' = <<>> /\ outcome' = "updated"
     ELSE /\ stack' = Append(Front(Front(stack)), [Last(Front(stack)) EXCEPT !.next = "stamp"])
          /\ UNCHANGED outcome
  /\ UNCHANGED <<tree, target, copying, overwritten, calls, crashes>>

\* Mutant of Step: the index within a split index is not migrated.
StepAtTop ==
  /\ stack # <<>> /\ Top.next = "step" /\ Top.version < CURRENT_FORMAT_VERSION
  /\ Advance(IF Top.version > 0 /\ Kind(Top.path) = "compressed" THEN "data" ELSE "stamp")
  /\ UNCHANGED <<tree, target, copying, outcome, overwritten, calls, crashes>>

\* Mutant of Step: taken whatever the version.
StepPastCurrent ==
  /\ stack # <<>> /\ Top.next = "step"
  /\ Advance("stamp")
  /\ UNCHANGED <<tree, target, copying, outcome, overwritten, calls, crashes>>

\* Version 0: only a manifest is missing.  Later ones rewrite the data first, of
\* a compressed index here and of a split one within.
Step ==
  /\ stack # <<>> /\ Top.next = "step" /\ Top.version < CURRENT_FORMAT_VERSION
  /\ LET inner == <<Top.path[1], "inner">>
     IN IF Top.version > 0 /\ Kind(Top.path) = "split" /\ Exists(inner)
        THEN stack' = Append(Append(Front(stack), [Top EXCEPT !.next = "within"]),
                             Frame(inner, 0, "enter"))
        ELSE Advance(IF Top.version > 0 /\ Kind(Top.path) = "compressed" THEN "data" ELSE "stamp")
  /\ UNCHANGED <<tree, target, copying, outcome, overwritten, calls, crashes>>

\* The least length of the documents of each block, if the lengths are there.
migrate_add_min_dl(path) ==
  [version |-> COMPRESSED_INDEX_VERSION,
   lengths |-> IF At(path).lengths \in {Absent, Short} THEN "unknown" ELSE "exact"]

\* Bytes of the third layout are misread here, which the caller is to prevent.
migrate_compressed_v4_to_v5(path) ==
  [version |-> COMPRESSED_INDEX_VERSION,
   lengths |-> IF At(path).bin.version = 4 THEN At(path).bin.lengths ELSE "misread"]

\* Mutant of Outdated: the second step compares with the current version too.
OutdatedUnlessCurrent(path, version) ==
  /\ At(path).bin # Absent /\ At(path).bin # Short
  /\ version = 2 /\ At(path).bin.version # COMPRESSED_INDEX_VERSION

\* Whether the step from this version has to rewrite the data.
Outdated(path, version) ==
  /\ At(path).bin # Absent /\ At(path).bin # Short
  /\ IF version = 1 THEN At(path).bin.version = 3
     ELSE At(path).bin.version # COMPRESSED_INDEX_VERSION

\* Mutant of RewriteData: index.bin itself is truncated, then written.
RewriteInPlace ==
  /\ stack # <<>> /\ Top.next \in {"data", "rewriting"}
  /\ IF Top.next = "data" /\ At(Top.path).bin = Short THEN Fail
     ELSE /\ IF Top.next = "rewriting"
             THEN Put(Top.path, "bin", [version |-> COMPRESSED_INDEX_VERSION, lengths |-> "exact"])
                    /\ Advance("stamp")
             ELSE IF Outdated(Top.path, Top.version)
             THEN Put(Top.path, "bin", Short) /\ Advance("rewriting")
             ELSE UNCHANGED tree /\ Advance("stamp")
          /\ UNCHANGED <<target, copying, outcome, overwritten, calls, crashes>>

\* A truncated index.bin cannot be read.  Otherwise a file beside it is written
\* and takes its name at once: the new content is there or the old one is.
RewriteData ==
  /\ stack # <<>> /\ Top.next = "data"
  /\ IF At(Top.path).bin = Short THEN Fail
     ELSE /\ IF Outdated(Top.path, Top.version)
             THEN Put(Top.path, "bin",
                      IF Top.version = 1 THEN migrate_add_min_dl(Top.path)
                      ELSE migrate_compressed_v4_to_v5(Top.path))
             ELSE UNCHANGED tree
          /\ Advance("stamp")
          /\ UNCHANGED <<target, copying, outcome, overwritten, calls, crashes>>

\* The manifest is read again, truncated, and written with the next version.
Stamp ==
  /\ stack # <<>> /\ Top.next = "stamp"
  /\ IF ~Readable(Top.path) THEN Fail
     ELSE /\ Put(Top.path, "manifest", Short)
          /\ Advance(Kind(Top.path))
          /\ UNCHANGED <<target, copying, outcome, overwritten, calls, crashes>>

\* Mutant of Stamped: the next version is stamped, the loop keeps its own.
StampedSame ==
  /\ stack # <<>> /\ Top.next \in {"forward", "compressed", "split"}
  /\ Put(Top.path, "manifest", [version |-> Top.version + 1, kind |-> Top.next])
  /\ Advance("step")
  /\ UNCHANGED <<target, copying, outcome, overwritten, calls, crashes>>

Stamped ==
  /\ stack # <<>> /\ Top.next \in {"forward", "compressed", "split"}
  /\ Put(Top.path, "manifest", [version |-> Top.version + 1, kind |-> Top.next])
  /\ stack' = Append(Front(stack), Frame(Top.path, Top.version + 1, "step"))
  /\ UNCHANGED <<target, copying, outcome, overwritten, calls, crashes>>

Crash ==
  /\ ~Idle /\ crashes < MaxCrashes
  /\ stack' = <<>> /\ copying' = {} /\ outcome' = "crashed" /\ crashes' = crashes + 1
  /\ UNCHANGED <<tree, target, overwritten, calls>>

-----------------------------------------------------------------------------

\* The part of load_index that looks at versions.
DataLoads(path) ==
  CASE detect_index_kind(path) = "compressed" ->
         At(path).bin # Absent /\ At(path).bin # Short
           /\ At(path).bin.version = COMPRESSED_INDEX_VERSION
    [] OTHER -> TRUE

ManifestLoads(path) ==
  Readable(path) /\ Version(path) \in {0, CURRENT_FORMAT_VERSION}

\* check_index_manifest, then the reader of the data, here and within.
Loads(root) ==
  LET inside == detect_index_kind(<<root, "top">>) = "split"
      data == <<root, IF inside THEN "inner" ELSE "top">>
  IN ManifestLoads(<<root, "top">>) /\ ManifestLoads(data) /\ DataLoads(data)

\* A directory without a manifest that loads is stamped, the inner one first:
\* the two writes of the manifest may be all that reaches the disk.
StampLegacy(root, level) ==
  /\ Idle /\ Loads(root)
  /\ Exists(<<root, level>>) \/ (level = "top" /\ Exists(<<root, "inner">>))
  /\ At(<<root, level>>).manifest = Absent
  /\ level = "top" => At(<<root, "inner">>).manifest # Absent \/ ~Exists(<<root, "inner">>)
  /\ \/ Put(<<root, level>>, "manifest",
            [version |-> CURRENT_FORMAT_VERSION, kind |-> detect_index_kind(<<root, level>>)])
        /\ UNCHANGED crashes
     \/ /\ crashes < MaxCrashes /\ crashes' = crashes + 1
        /\ Put(<<root, level>>, "manifest", Short)
  /\ UNCHANGED <<target, stack, copying, outcome, overwritten, calls>>

Migrate == Enter \/ Newer \/ Return \/ Step \/ RewriteData \/ Stamp \/ Stamped

CopyNext == \E level \in Levels, name \in FileNames : CopyFile(level, name)

Next ==
  \/ BeginInPlace
  \/ BeginCopy
  \/ CopyNext
  \/ Migrate
  \/ Crash
  \/ \E root \in {"index", "copy"}, level \in Levels : StampLegacy(root, level)

\* The process runs: a call that was begun does its next write.
Fairness == WF_vars(Migrate) /\ WF_vars(CopyNext)

Spec == Init /\ [][Next]_vars /\ Fairness

-----------------------------------------------------------------------------

\* The state is well-formed: at most the index and the one within are under way.
MigrationTypeOK ==
  /\ \A path \in Paths : DOMAIN At(path) = FileNames
  /\ Len(stack) <= 2
  /\ \A i \in DOMAIN stack : stack[i].path \in Paths /\ stack[i].version \in 0 .. 4
  /\ copying \subseteq Levels \X FileNames
  /\ outcome \in {"none", "running", "updated", "error", "crashed"}
  /\ calls \in 0 .. MaxCalls /\ crashes \in 0 .. MaxCrashes

\* What an update returns is an index that loads, and no block of it was misread.
Migrated(root) ==
  /\ Loads(root)
  /\ \A level \in Levels :
       tree[root][level].bin # Absent => tree[root][level].bin.lengths # "misread"

Unversioned(root) ==
  \/ At(<<root, "top">>).manifest = Absent
  \/ Exists(<<root, "inner">>) /\ At(<<root, "inner">>).manifest = Absent

\* A manifest never promises more than the data it describes: whatever stops an
\* update, and whoever runs it again, the layout of index.bin is as new as the
\* version says, unless files were copied over those of an earlier update.
ClaimsWhatItHas ==
  ~overwritten =>
    \A path \in Paths :
      LET m == At(path).manifest
      IN m \notin {Absent, Short} /\ m.kind = "compressed" /\ At(path).bin \notin {Absent, Short}
           => At(path).bin.version >= Promised(m.version)

\* An update that returns leaves an index that loads, with the one within, also
\* when it copies over an earlier update of an index that has its manifests.
UpdatedLoads ==
  outcome = "updated" /\ ~(overwritten /\ Unversioned("index")) => Migrated(target)

\* What an update cannot resume is a manifest it was writing, its own or the one
\* of the index it copies: any other crash leaves what the next call brings up
\* to date.
ResumesUnlessManifest ==
  outcome = "error" =>
    \E path \in Paths : At(path).manifest = Short \/ Version(path) > CURRENT_FORMAT_VERSION

\* A copy is made beside the index: copying and migrating the copy leave the
\* original as it is.
OriginalUnchanged == ~Idle /\ target = "copy" => tree'["index"] = tree["index"]

\* Every call ends, with an index or an error, or the process stops.
CallsEnd == []<>Idle

\* The doc of update_index: it "returns the path that now holds the migrated
\* index", in place or in a copy.
ReturnsMigrated == outcome = "updated" => Migrated(target)
=============================================================================
