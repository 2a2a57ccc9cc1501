------------------------------ MODULE MCStores ------------------------------
(***************************************************************************)
(* Small instances of what a program keeps beside its index, document      *)
(* stores and bag-of-words builders, and of the cursors it reads postings  *)
(* with, one behaviour for each: part says which.  The variables of the    *)
(* others stay as they are set here.                                       *)
(***************************************************************************)
EXTENDS DocStoreBuilder, BowBuilder, MCCursors, TLC

CONSTANTS Parts, id, url

VARIABLE part

ofStores  == vars
ofBuilder == bowVars
ofCursors == cursorVars

storesVars == <<part, ofStores, ofBuilder, ofCursors>>

-----------------------------------------------------------------------------
(***************************************************************************)
(* Document stores: two key fields, of which a document may lack one, a    *)
(* document that fills a block and one that fills half of it, and two that *)
(* share a key value when the caller adds the same one twice.              *)
(***************************************************************************)
MixedDocuments ==
  {[keys |-> id :> 1, size |-> 1],
   [keys |-> id :> 2 @@ url :> 1, size |-> 2]}

\* One key field is enough to lose a file.
PlainDocuments == {[keys |-> id :> v, size |-> 1] : v \in 1 .. 3}

\* A caller who keeps checkpoints, one per document or when it asks for one, and
\* resumes; and one who never does, whose process may die anywhere and who
\* replaces builders.
SteadyCallers ==
  {[frequencies |-> {Manual, 1}, interrupts |-> FALSE, docs |-> 3, crashes |-> 1, reopens |-> 0],
   [frequencies |-> {0}, interrupts |-> TRUE, docs |-> 2, crashes |-> 1, reopens |-> 1]}

\* A caller with checkpoints whose process dies while build publishes.
InterruptedCallers ==
  {[frequencies |-> {1}, interrupts |-> TRUE, docs |-> 2, crashes |-> 1, reopens |-> 0]}

\* A caller who asks for its checkpoints and replaces a builder.
ReplacingCallers ==
  {[frequencies |-> {Manual}, interrupts |-> FALSE, docs |-> 3, crashes |-> 1, reopens |-> 1]}

-----------------------------------------------------------------------------
(***************************************************************************)
(* Bag-of-words builders: collections that introduce words in an order     *)
(* that is not that of their numbers, repeat them and leave some out.      *)
(***************************************************************************)
SmallTexts == {<<>>, <<1>>, <<1, 0, 1>>, <<2, 1>>}

\* The Indexer refuses to open an index without terms: a word occurs.
SmallCollections ==
  {c \in UNION {[1 .. n -> SmallTexts] : n \in 1 .. 3} : \E i \in DOMAIN c : c[i] # <<>>}

-----------------------------------------------------------------------------
(***************************************************************************)
(* The part that runs, the others before they begin.                       *)
(***************************************************************************)
IdleStores == client = (CHOOSE c \in Callers : TRUE) /\ Init
IdleBuilder == collection = (CHOOSE c \in Collections : TRUE) /\ analyzed = FALSE /\ BowInit

IdleCursors ==
  /\ kind = "none" /\ given = <<>> /\ cursor = <<>>
  /\ seen = Unseen /\ reply = Start
  /\ whole = <<>> /\ term = [most |-> 0, last |-> 0, length |-> 0]

InitStores ==
  /\ part \in Parts
  /\ \/ part = "stores" /\ Init /\ IdleBuilder /\ IdleCursors
     \/ part = "builder" /\ BowInit /\ IdleStores /\ IdleCursors
     \/ part = "cursors" /\ CursorsInit /\ IdleStores /\ IdleBuilder

\* A cursor may be read no further; stores and builders end by an action of theirs.
NextStores ==
  /\ \/ part = "stores" /\ Next /\ UNCHANGED <<ofBuilder, ofCursors>>
     \/ part = "builder" /\ BowNext /\ UNCHANGED <<ofStores, ofCursors>>
     \/ part = "cursors" /\ CursorsNext /\ UNCHANGED <<ofStores, ofBuilder>>
     \/ part = "cursors" /\ UNCHANGED storesVars
  /\ UNCHANGED part

StoresSpec == InitStores /\ [][NextStores]_storesVars
=============================================================================
