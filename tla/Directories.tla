---------------------------- MODULE Directories -----------------------------
(***************************************************************************)
(* What changes index directories that are already there: transforms,      *)
(* which read one and write another, and update_index, which brings one of *)
(* an earlier version up to date.  A behaviour is one of either, kind says *)
(* which; the directories of the other stay as they are.                   *)
(***************************************************************************)
EXTENDS Migration

CONSTANTS
  NumDocs, Sources, Targets, Indexed, Order, MaxJobs    \* of transforms

VARIABLES
  kind,
  disk, inodes, plan, wrote, job, jobs                  \* of transforms alone

T == INSTANCE Transforms

ASSUME RewritingAssumption == T!TransformsAssumption

ofTransforms == <<disk, inodes, plan, wrote, job, jobs>>
ofMigration == <<tree, target, stack, copying, outcome, overwritten, calls>>
dirVars == <<kind, crashes, ofTransforms, ofMigration>>

-----------------------------------------------------------------------------

\* Nothing to update, and no index to transform.
IdleMigration ==
  /\ tree = [root \in {"index", "copy"} |-> [level \in Levels |-> [name \in FileNames |-> Absent]]]
  /\ target = "index" /\ stack = <<>> /\ copying = {} /\ outcome = "none"
  /\ overwritten = FALSE /\ calls = 0

IdleTransforms == T!Init

DirInit ==
  \/ kind = "transforms" /\ T!Init /\ IdleMigration
  \/ kind = "migration" /\ Init /\ IdleTransforms

DirNext ==
  /\ \/ kind = "transforms" /\ T!Next /\ UNCHANGED ofMigration
     \/ kind = "migration" /\ Next /\ UNCHANGED ofTransforms
  /\ UNCHANGED kind

DirSpec == DirInit /\ [][DirNext]_dirVars /\ Fairness

-----------------------------------------------------------------------------
(***************************************************************************)
(* The properties of updates are stated in Migration.                      *)
(***************************************************************************)
\* The writes still to come, and the calls under way, are what the modules say.
DirTypeOK == T!TransformsTypeOK /\ MigrationTypeOK

\* Transforms: postings, positions, lengths and words of the index they were given.
Complete == T!TransformComplete

\* Transforms: the documents the caller knows.
OriginalIds == T!AnswersWithOriginalIds

\* Transforms do not write to what they read, nor does an update in another
\* directory: what the index is read from stays as it is, through links too.
SourcesUntouched == [][T!SourcesKept /\ OriginalUnchanged]_dirVars
=============================================================================
