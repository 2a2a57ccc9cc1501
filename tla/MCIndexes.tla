------------------------------ MODULE MCIndexes ------------------------------
(***************************************************************************)
(* Small instances of what writes and reads index directories, and of the  *)
(* queries an index is asked, one behaviour for each: kind says which.     *)
(* The variables of the others stay as they are set here.                  *)
(***************************************************************************)
EXTENDS Directories, QueryTrees

CONSTANTS
  bow, plain, d1, d2, t1, t2,
  Compressions, BlockLen, Bits, PackedPerByte, ExceptionBytes, One, MaxLength,
  Base, MaxDigits, QMax,                                      \* of a compression
  ScoreLevels, Superblock, Ranks, MaxK, MaxTerms, Exports,         \* of an export
  Threads, Collections, ToReorder, LeafSize, MaxIters, MinDf, MaxDf, Cost, \* of a bisection
  NoLimit, Texts, Trees, Resolve, QueryIndexes, DocShare, K3, Unit         \* of a query

VARIABLES
  asked, data, info, clamped, bin, index, phase,              \* of a compression alone
  source, builders, forward, file, stage,                     \* of an export alone
  lists, filtered, degree, csr, order, tasks, running, scratch, \* of a bisection alone
  tokens, pos, opened, query, verdict, searched, clauses, weighed, results  \* of a query alone

ofCompression == <<asked, data, info, clamped, bin, index, phase>>
ofExport == <<source, builders, forward, file, stage>>
ofBisection == <<lists, filtered, degree, csr, order, tasks, running, scratch>>
ofParser == <<tokens, pos, opened>>
ofPlan == <<searched, clauses, weighed, results>>
ofQueries == <<ofParser, query, verdict, ofPlan>>
allVars == <<dirVars, ofCompression, ofExport, ofBisection, ofQueries>>

Blocks == INSTANCE Compression WITH Error <- Absent
Export == INSTANCE BmpExport
Bisect == INSTANCE Bisection WITH NumDocs <- ToReorder
Parser == INSTANCE Matchop WITH stack <- opened, outcome <- verdict
Plan == INSTANCE QueryPlan WITH index <- searched, plan <- weighed, outcome <- verdict

\* Two indexes of words, with positions and without; a split of one has no lengths.
SmallIndexed ==
  [s \in Sources |-> [lengths |-> TRUE, positions |-> s = bow, analyzer |-> TRUE]]

\* The order the bisection finds is not its own inverse.
Rotation == [i \in 0 .. NumDocs - 1 |-> (i + 1) % NumDocs]

\* Directories of every version, as releases left them or an update was stopped.
Manifest(version, layout) == IF version = 0 THEN Absent ELSE [version |-> version, kind |-> layout]

Bin(version) == [version |-> version, lengths |-> IF version = 3 THEN "none" ELSE "exact"]

CompressedAt(version, binVersion, lengths) ==
  [manifest |-> Manifest(version, "compressed"), information |-> Absent,
   bin |-> Bin(binVersion), lengths |-> lengths]

ForwardAt(version) ==
  [manifest |-> Manifest(version, "forward"), information |-> "information",
   bin |-> Absent, lengths |-> "lengths"]

SplitAt(version) ==
  [manifest |-> Manifest(version, "split"), information |-> Absent,
   bin |-> Absent, lengths |-> Absent]

SmallOriginals ==
  {[top |-> files, inner |-> [name \in DOMAIN files |-> Absent]] :
     files \in {ForwardAt(0), ForwardAt(1), CompressedAt(0, 3, "lengths"), CompressedAt(1, 3, Absent),
                CompressedAt(0, 5, Absent), CompressedAt(2, 4, "lengths"), CompressedAt(3, 5, Absent),
                CompressedAt(4, 5, Absent)}}
  \cup {[top |-> SplitAt(version), inner |-> files] :
          version \in 0 .. 2,
          files \in {CompressedAt(0, 3, "lengths"), CompressedAt(1, 3, "lengths"),
                     CompressedAt(2, 4, Absent)}}

\* Lists by their documents and impacts.  The full blocks have 3 documents: lists
\* end before, at and after the end of a block, and one gap needs many bits.
List(docs, values) ==
  [i \in DOMAIN docs |-> [doc |-> docs[i], value |-> values[i], positions |-> <<>>]]

SmallIndexes ==
  {<<List(<<0, 1, 2>>, <<4, 8, 4>>), List(<<1>>, <<24>>)>>,
   <<List(<<>>, <<>>), List(<<0, 1, 10>>, <<8, 6, 8>>)>>,
   <<List(<<3, 4, 5, 6, 14>>, <<4, 4, 8, 4, 4>>), List(<<0, 9, 10>>, <<8, 8, 8>>)>>,
   <<List(<<1, 2, 3, 8, 10, 11, 12>>, <<24, 4, 4, 8, 2, 10, 12>>), List(<<2, 3, 4>>, <<4, 24, 16>>)>>,
   <<List(<<>>, <<>>), List(<<>>, <<>>)>>}

\* As many positions as the impact says, the first at 0.
WithRuns(list) ==
  [i \in DOMAIN list |->
     [list[i] EXCEPT !.positions = [p \in 1 .. list[i].value \div One |-> (p - 1) * (1 + list[i].doc)]]]

WholeImpacts(all) == \A t \in DOMAIN all : \A i \in DOMAIN all[t] : all[t][i].value % One = 0

SmallLengths ==
  [d \in 0 .. 12 |-> CASE d % 3 = 0 -> 9 [] d % 3 = 1 -> 2 [] OTHER -> 5]

Factory(name, nbits, range) == [name |-> name, nbits |-> nbits, range |-> range]

PerIndex == [kind |-> "PerIndex"]

\* Ranges that hold every impact, and that leave some above and below.
SmallQuantisers ==
  {Factory(name, nbits, range) :
     name \in {"Quantizer", "QuantizedBitPacked"}, nbits \in {1, 2},
     range \in {PerIndex, [kind |-> "Fixed", min |-> 4, max |-> 12],
                [kind |-> "Fixed", min |-> 8, max |-> 16]}}
  \cup {Factory("QuantizedBitPacked", 2,
                 [kind |-> "Reference", params |-> [nbits |-> 1, min |-> 0, max |-> 8, step |-> 4]])}

ExactCodecs == {[name |-> "Identity"], [name |-> "BitPackedInt"]}

Compressing(some, lengths, docids, impacts, positions, size) ==
  [lists |-> some, lengths |-> lengths, docids |-> docids, impacts |-> impacts,
   positions |-> positions, blockSize |-> size]

\* Each kind of codec with the blocks it treats apart, and without lengths.
SmallCompressions ==
  {Compressing(some, SmallLengths, docids, [name |-> "Identity"], Absent, size) :
     some \in SmallIndexes, docids \in {"EliasFano", "BitPacking", "PFor"}, size \in 2 .. 4}
  \cup {Compressing(some, lengths, "BitPacking", impacts, Absent, size) :
          some \in SmallIndexes, lengths \in {SmallLengths, Absent},
          impacts \in ExactCodecs \cup SmallQuantisers, size \in {2, 3}}
  \cup {Compressing([t \in DOMAIN some |-> WithRuns(some[t])], SmallLengths, "PFor", impacts,
                     positions, size) :
          some \in {all \in SmallIndexes : WholeImpacts(all)},
          impacts \in ExactCodecs \cup {Factory("Quantizer", 2, PerIndex)},
          positions \in {"VByte", "BitPacking"}, size \in 2 .. 4}

\* Terms without postings, blocks without documents, as many impacts as a rank, and
\* impacts all alike.
SmallExported ==
  {<<List(<<0, 1, 2, 4>>, <<1, 7, 3, 8>>), List(<<>>, <<>>), List(<<1, 5>>, <<8, 2>>)>>,
   <<List(<<0, 1, 2, 3, 4, 5, 6>>, <<2, 6, 4, 8, 6, 1, 5>>), List(<<6>>, <<3>>)>>,
   <<List(<<5, 6>>, <<8, 8>>), List(<<0, 6>>, <<4, 8>>)>>,
   <<List(<<>>, <<>>), List(<<>>, <<>>)>>}

Exporting(some, docs, bsize, compressed, way, chunk) ==
  [lists |-> some, docs |-> docs, bsize |-> bsize, compress |-> compressed, way |-> way,
   chunk |-> chunk]

SmallExports ==
  {Exporting(some, 7, bsize, compressed, way, chunk) :
     some \in SmallExported, bsize \in {1, 2, 3, 7}, compressed \in BOOLEAN,
     way \in {"chunks"}, chunk \in 1 .. 3}
  \cup {Exporting(some, docs, bsize, TRUE, way, 1) :
          some \in SmallExported, docs \in {7, 9}, bsize \in {2, 3}, way \in {"documents", "terms"}}
  \cup {Exporting([t \in 1 .. 4 |-> <<>>], 1, 1, TRUE, "chunks", 1)}

SmallRanks == <<1, 2, 4>>

\* Documents of two subjects in turn; all alike; and no two alike.
SmallCollections ==
  {<<<<0, 2, 4>>, <<1, 3, 5>>, <<0, 2>>, <<3, 5>>>>,
   <<<<0, 1, 2, 3, 4>>, <<0, 5>>, <<1>>, <<2, 3, 5>>>>,
   <<<<0, 1, 2, 3, 4, 5>>, <<0, 5>>, <<1, 4>>, <<2, 3>>>>}

\* A hundred times n * log2(total / n) for each half, rounded.
SmallCost ==
  LET table == <<<<200, 275, 325, 361, 390>>, <<275, 400, 485, 551, 604>>, <<325, 485, 600, 690, 763>>,
                 <<361, 551, 690, 800, 892>>, <<390, 604, 763, 892, 1000>>>>
  IN [n \in (1 .. 5) \X (1 .. 5) |-> table[n[1]][n[2]]]

----------------------------------------------------------------------------
(***************************************************************************)
(* Four documents of up to three words, and texts made of the two words    *)
(* they share, a stop word and an unknown one.                             *)
(***************************************************************************)
Documents == << <<1, 2, 1>>, <<2, 1, 3>>, <<1>>, <<3, 3, 2>> >>

PositionsOf(term, d) == SelectSeq(<<1, 2, 3>>, LAMBDA p : p <= Len(Documents[d]) /\ Documents[d][p] = term)

ListOf(term) ==
  LET docs == SelectSeq(<<1, 2, 3, 4>>, LAMBDA d : PositionsOf(term, d) # <<>>)
  IN [i \in DOMAIN docs |-> [doc |-> docs[i] - 1, value |-> Len(PositionsOf(term, docs[i])),
                            run |-> PositionsOf(term, docs[i])]]

IndexWith(model, positions, original) ==
  [lists |-> [term \in 1 .. 3 |-> ListOf(term)], numDocs |-> 4,
   model |-> model, positions |-> positions, original |-> original]

SmallQueryIndexes ==
  LET same == [d \in 0 .. 3 |-> d]
      reversed == [d \in 0 .. 3 |-> 3 - d]
  IN {IndexWith("raw", TRUE, reversed), IndexWith("plain", TRUE, same),
      IndexWith("k3", FALSE, reversed), IndexWith("k3", TRUE, same)}

SmallResolve ==
  [word \in {"a", "b", "the", "unheard", "("} |->
     CASE word = "a" -> [is |-> "term", term |-> 1]
       [] word = "b" -> [is |-> "term", term |-> 2]
       [] word = "unheard" -> [is |-> "unknown"]
       [] OTHER -> [is |-> "stopword"]]

A == <<Word("a")>>
B == <<Word("b")>>
The == <<Word("the")>>
Unheard == <<Word("unheard")>>

Wrap(operator, parts) == <<operator, Open>> \o parts \o <<Close>>

Weights ==
  CombineOf(<<[index |-> 2, weight |-> 3], [index |-> 1, weight |-> 2], [index |-> 2, weight |-> 4]>>)

Syns == Wrap(Plain("syn"), A \o The)
Phrases(last) == Wrap(Plain("phrase"), A \o last)
Bands(parts) == Wrap(Plain("band"), parts)

\* Up to three parts, within a weighted sum, a conjunction or neither.
SmallParts ==
  {A, B, The, Unheard, Syns, Phrases(B), Phrases(Unheard), Bands(The),
   Wrap(WindowOf(3), B \o A), Wrap(Weights, B)}

Within(parts) == {parts, Wrap(Weights, parts), Bands(parts)}

Removed(text) == {SubSeq(text, 1, i - 1) \o SubSeq(text, i + 1, Len(text)) : i \in DOMAIN text}

ShortParts == {A, Syns, Bands(A \o Syns), Wrap(Plain("#"), A),
               Wrap(MalformedCombine, A), Wrap(WindowOf(1), A \o B)}

\* Texts, and what is left of some without one of their tokens.
SmallTexts ==
  UNION {Within(p \o q \o r) : p \in SmallParts, q \in {The, Syns}, r \in SmallParts}
    \cup UNION {UNION {Removed(text) : text \in Within(p \o q)} : p, q \in ShortParts}

\* Trees a caller builds: repeated terms of several weights, nested sums and
\* conjunctions, and what no text gives.
SmallTrees ==
  LET Of(term, weight) == Term(term, weight)
      W(weight, node) == Weighted(weight, node)
      leaves == {Of(1, 1), Of(1, 3), Syn(<<1, 2, 3>>),
                 Window(<<1, 2>>, 1),
                 Band(<<Syn(<<1, 3>>), Band(<<Of(2, 1), Of(1, 1)>>)>>),
                 Combine(<<>>), Band(<<Combine(<<W(1, Of(1, 1))>>)>>),
                 Combine(<<W(2, Of(1, 1)), W(1, Syn(<<1, 2, 3>>))>>)}
  IN {Combine(<<W(2, p), W(1, q), W(1, Combine(<<W(3, r)>>))>>) : p, q, r \in leaves}

----------------------------------------------------------------------------
IdleCompression ==
  /\ asked = <<>> /\ data = <<>> /\ info = <<>> /\ clamped = 0 /\ bin = <<>> /\ index = <<>>
  /\ phase = "none"

IdleExport == source = <<>> /\ builders = <<>> /\ forward = <<>> /\ file = <<>> /\ stage = "none"

IdleBisection ==
  /\ lists = <<>> /\ filtered = <<>> /\ degree = <<>> /\ csr = <<>> /\ order = <<>>
  /\ tasks = {} /\ running = <<>> /\ scratch = <<>>

IdleParser == tokens = <<>> /\ pos = 0 /\ opened = <<>>
IdleQueries == IdleParser /\ Plan!PlanInit /\ query = <<>> /\ verdict = "none"

IdleDirectories == IdleTransforms /\ IdleMigration

InitIndexes ==
  \/ /\ DirInit
     /\ IdleCompression /\ IdleExport /\ IdleBisection /\ IdleQueries
  \/ /\ kind = "compression" /\ Blocks!Init
     /\ IdleDirectories /\ IdleExport /\ IdleBisection /\ IdleQueries
  \/ /\ kind = "export" /\ Export!Init
     /\ IdleDirectories /\ IdleCompression /\ IdleBisection /\ IdleQueries
  \/ /\ kind = "bisection" /\ Bisect!Init
     /\ IdleDirectories /\ IdleCompression /\ IdleExport /\ IdleQueries
  \/ /\ kind = "query" /\ Plan!PlanInit
     /\ \/ Parser!Init
        \/ query \in Trees /\ verdict = "parsed" /\ IdleParser
     /\ IdleDirectories /\ IdleCompression /\ IdleExport /\ IdleBisection

NextIndexes ==
  \/ /\ DirNext
     /\ UNCHANGED <<ofCompression, ofExport, ofBisection, ofQueries>>
  \/ /\ kind = "compression" /\ Blocks!Next
     /\ UNCHANGED <<dirVars, ofExport, ofBisection, ofQueries>>
  \/ /\ kind = "export" /\ Export!Next
     /\ UNCHANGED <<dirVars, ofCompression, ofBisection, ofQueries>>
  \/ /\ kind = "bisection" /\ Bisect!Next
     /\ UNCHANGED <<dirVars, ofCompression, ofExport, ofQueries>>
  \/ /\ kind = "query"
     /\ \/ Parser!Next /\ UNCHANGED ofPlan
        \/ Plan!PlanNext /\ UNCHANGED ofParser
     /\ UNCHANGED <<dirVars, ofCompression, ofExport, ofBisection>>

IndexesSpec == InitIndexes /\ [][NextIndexes]_allVars /\ Fairness

-----------------------------------------------------------------------------
(***************************************************************************)
(* The properties of each are stated beside it.                            *)
(***************************************************************************)
QueryTypeOK ==
  /\ verdict \in {"planning", "answered"} => searched \in QueryIndexes
  /\ pos \in 0 .. Len(tokens) + 1
  /\ verdict \in {"parsing", "malformed", "parsed", "planning", "answered", "empty", "error"}
  /\ \A i \in DOMAIN weighed :
       weighed[i].weight \in Nat /\ Len(weighed[i].list) <= searched.numDocs
  /\ \A hit \in results : hit.doc \in DOMAIN searched.original /\ hit.score \in Int

\* The directories, the writes still to come and the queries are what the modules say.
TypeOK ==
  /\ DirTypeOK
  /\ kind = "query" => QueryTypeOK

\* Compression: documents, impacts and positions are read back.
PostingsRead == kind = "compression" => Blocks!PostingsRead

\* Compression: the bounds searches skip blocks on hold of what they would read.
BoundsHold == kind = "compression" => Blocks!BoundsHold

\* Compression: an index brought up to date is the one that would be written.
MigratedAsRebuilt == kind = "compression" => Blocks!MigratedAsRebuilt

\* Export: the forward index and the bounds of its blocks are those of the postings.
ExportFaithful == kind = "export" => Export!ExportFaithful

\* Bisection: one order whatever the threads, from counters that are exact.
BisectedAlike ==
  kind = "bisection" => Bisect!ScratchExact /\ Bisect!AdjacencyExact /\ Bisect!OrderDeterministic

\* Queries: a text is parsed into the tree it stands for, with its weights in place,
\* and is refused if it stands for none.
ParsedAsWritten == kind = "query" /\ tokens # <<>> => Parser!ParsedAsWritten

\* Queries: flattened, merged, evaluated and added up, a query answers what its tree means.
AnswersMeaning == kind = "query" => Plan!AnswersMeaning

\* Queries: one without empty operators is answered, or holds the reason why not.
FailsForAReason == kind = "query" => Plan!FailsForAReason

\* Queries: "`EmptyQuery` ... is returned only when no clause is left"
\* (src/src/query.rs:176), once those that cannot match are dropped.
EmptyOnlyWithoutClauses == kind = "query" => Plan!EmptyOnlyWithoutClauses

\* Queries: "real errors are reserved for [`QueryError::PositionsNotAvailable`] ... and
\* [`QueryError::Parse`] (propagated from a hand-built invalid tree; [`parse_matchop`]
\* itself never produces one)" (src/src/query.rs:357): a query that was parsed fails
\* only where it asks for positions an index does not have.
ParsedNeverRefused ==
  kind = "query" /\ tokens # <<>> /\ verdict = "error" =>
    ~searched.positions /\ \E n \in Nodes(query) : Positional(n)

\* Queries: no list of a query gives a document less than nothing, on which MaxScore and
\* WAND prune.
NothingBelowZero == kind = "query" => Plan!NothingBelowZero
=============================================================================
