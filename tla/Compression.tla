----------------------------- MODULE Compression -----------------------------
(***************************************************************************)
(* A compression, term by term, of an index into blocks in data files, the *)
(* index.bin that says where they are, and the index read from them: at    *)
(* once, or after index.bin was brought up from the layout of an earlier   *)
(* release.                                                                *)
(***************************************************************************)
EXTENDS IndexBinary, FiniteSets

CONSTANTS
  BlockLen, Bits, PackedPerByte, ExceptionBytes, One,
  MaxLength,    \* the largest length a block stores
  Compressions  \* what is compressed and how

VARIABLES
  asked,        \* the lists of the terms, the lengths, the codecs, the block size
  data,         \* the contents of docids.dat, impacts.dat and positions.dat
  info,         \* what is known of the blocks written so far
  clamped, bin, index,
  phase

vars == <<asked, data, info, clamped, bin, index, phase>>

DocIds == INSTANCE DocIdCodecs
Impacts == INSTANCE ImpactCodecs

-----------------------------------------------------------------------------
(***************************************************************************)
(* The two encodings of the position gaps of a block: number by number, or *)
(* in packed chunks of a fixed length with what remains number by number   *)
(* after a marker.                                                         *)
(***************************************************************************)
PositionsTail == 255

VBytes(deltas) == FlattenSeq([i \in DOMAIN deltas |-> write_vint(deltas[i])])

ChunkBits(chunk) == CHOOSE b \in 0 .. 32 : /\ \A i \in DOMAIN chunk : chunk[i] < 2 ^ b
                                           /\ b = 0 \/ \E i \in DOMAIN chunk : chunk[i] >= 2 ^ (b - 1)

\* The bits, and if there are any the chunk.
PackedChunk(chunk) == IF ChunkBits(chunk) = 0 THEN <<0>> ELSE <<ChunkBits(chunk)>> \o chunk

FullChunks(n) == n \div BlockLen

write_positions(codec, deltas) ==
  LET full == FullChunks(Len(deltas))
      chunks == [c \in 1 .. full |-> SubSeq(deltas, (c - 1) * BlockLen + 1, c * BlockLen)]
      remainder == SubSeq(deltas, full * BlockLen + 1, Len(deltas))
  IN IF codec = "VByte" THEN VBytes(deltas)
     ELSE FlattenSeq([c \in 1 .. full |-> PackedChunk(chunks[c])])
            \o (IF remainder = <<>> THEN <<>> ELSE <<PositionsTail>> \o VBytes(remainder))

\* A packed chunk at the head of the data, and the data after it.
ReadChunk(bytes) ==
  IF bytes[1] = 0 THEN [values |-> [i \in 1 .. BlockLen |-> 0], rest |-> Tail(bytes)]
  ELSE [values |-> SubSeq(bytes, 2, 1 + BlockLen), rest |-> SubSeq(bytes, 2 + BlockLen, Len(bytes))]

decode_positions(codec, bytes, num_positions) ==
  LET full == IF codec = "VByte" THEN 0 ELSE FullChunks(num_positions)
      chunks == FoldLeft(LAMBDA read, c : LET next == ReadChunk(read.rest)
                           IN [values |-> read.values \o next.values, rest |-> next.rest],
                         [values |-> <<>>, rest |-> bytes], [c \in 1 .. full |-> c])
      tail == num_positions - full * BlockLen
  IN IF codec = "VByte" THEN ReadVints(bytes, num_positions).values
     ELSE IF tail = 0 THEN chunks.values
     ELSE chunks.values \o ReadVints(Tail(chunks.rest), tail).values

-----------------------------------------------------------------------------

HasPositions == asked.positions # Error

\* The postings of each block of a list.
Cut(list) ==
  [b \in 1 .. (Len(list) + asked.blockSize - 1) \div asked.blockSize |->
     SubSeq(list, (b - 1) * asked.blockSize + 1, Min({b * asked.blockSize, Len(list)}))]

\* The first position of each document, then the gaps.
Deltas(postings) ==
  FlattenSeq([i \in DOMAIN postings |->
    [p \in DOMAIN postings[i].positions |->
       postings[i].positions[p] - (IF p = 1 THEN 0 ELSE postings[i].positions[p - 1])]])

\* Unknown lengths count as 0, long ones as the longest that can be stored.
MinDocLength(docids) ==
  IF asked.lengths = Error THEN 0
  ELSE Min({MaxLength} \cup {IF docids[i] \in DOMAIN asked.lengths THEN asked.lengths[docids[i]] ELSE 0 :
                               i \in DOMAIN docids})

\* Mutant of MaxDecoded: the largest impact of the block, whatever the codec.
MaxRaw(impacts, bytes, block) == Max({0} \cup {impacts[i] : i \in DOMAIN impacts})

\* The bound of a block is on the impacts a search will read.
MaxDecoded(impacts, bytes, block) ==
  LET seen == IF Impacts!lossless(info.impacts) THEN impacts
              ELSE Impacts!decode_into_bytes(info.impacts, bytes, block)
  IN Max({0} \cup {seen[i] : i \in DOMAIN seen})

\* A block and what it adds to each of the files.
CompressBlock(postings) ==
  LET docids == [i \in DOMAIN postings |-> postings[i].doc]
      impacts == [i \in DOMAIN postings |-> postings[i].value]
      span == [minDocId |-> docids[1], maxDocId |-> Last(docids), length |-> Len(docids)]
      impactBytes == Impacts!write(info.impacts, impacts)
      deltas == IF HasPositions THEN Deltas(postings) ELSE <<>>
  IN [docids |-> DocIds!write(info.docids, docids, span),
      impacts |-> impactBytes,
      positions |-> IF HasPositions THEN write_positions(info.positions, deltas) ELSE <<>>,
      clamped |-> Impacts!Clamped(info.impacts, impacts),
      block |-> [minDocId |-> span.minDocId, maxDocId |-> span.maxDocId, length |-> span.length,
                 maxValue |-> QMax * MaxDecoded(impacts, impactBytes, span),
                 minDocLength |-> MinDocLength(docids),
                 numPositions |-> Len(deltas)]]

\* Where a block is in a file, after what was written before it.
Place(before, blocks, file, b) ==
  LET start == before + FoldLeft(LAMBDA sum, i : sum + Len(blocks[i][file]), 0, [i \in 1 .. b - 1 |-> i])
  IN <<start, start + Len(blocks[b][file])>>

\* The blocks of a term, moved to where the term begins in the files.
Placed(blocks) ==
  [b \in DOMAIN blocks |->
     blocks[b].block @@ [docidRange |-> Place(Len(data.docids), blocks, "docids", b),
                         impactRange |-> Place(Len(data.impacts), blocks, "impacts", b),
                         positionsRange |-> Place(Len(data.positions), blocks, "positions", b)]]

TermInfo(pages) ==
  [pages |-> pages,
   maxValue |-> Max({0} \cup {pages[b].maxValue : b \in DOMAIN pages}),
   maxDocId |-> Max({0} \cup {pages[b].maxDocId : b \in DOMAIN pages}),
   length |-> FoldLeft(LAMBDA sum, b : sum + pages[b].length, 0, [b \in DOMAIN pages |-> b]),
   minDl |-> MinDl(pages)]

-----------------------------------------------------------------------------

Init ==
  /\ asked \in Compressions
  /\ data = [docids |-> <<>>, impacts |-> <<>>, positions |-> <<>>]
  /\ info = [docids |-> asked.docids, impacts |-> Impacts!create(asked.impacts, asked.lists),
             positions |-> asked.positions, terms |-> <<>>]
  /\ clamped = 0 /\ bin = <<>> /\ index = Error
  /\ phase = "compress"

\* Positions are cut by the frequencies that are read back: a codec that may
\* change them is refused.
Refuse ==
  /\ phase = "compress" /\ info.terms = <<>>
  /\ HasPositions /\ ~Impacts!lossless(info.impacts)
  /\ phase' = "refused"
  /\ UNCHANGED <<asked, data, info, clamped, bin, index>>

\* Terms are compressed in parallel and written in their order.
CompressTerm ==
  /\ phase = "compress" /\ Len(info.terms) < Len(asked.lists)
  /\ ~(HasPositions /\ ~Impacts!lossless(info.impacts))
  /\ LET list == asked.lists[Len(info.terms) + 1]
         cut == Cut(list)
         blocks == [b \in DOMAIN cut |-> CompressBlock(cut[b])]
         Of(file) == FlattenSeq([b \in DOMAIN blocks |-> blocks[b][file]])
     IN /\ data' = [docids |-> data.docids \o Of("docids"),
                    impacts |-> data.impacts \o Of("impacts"),
                    positions |-> data.positions \o Of("positions")]
        /\ info' = [info EXCEPT !.terms = Append(@, TermInfo(Placed(blocks)))]
        /\ clamped' = clamped + FoldLeft(LAMBDA sum, b : sum + blocks[b].clamped, 0,
                                         [b \in DOMAIN blocks |-> b])
  /\ UNCHANGED <<asked, bin, index, phase>>

\* This release writes its own layout, earlier ones wrote theirs.
WriteMetadata ==
  /\ phase = "compress" /\ Len(info.terms) = Len(asked.lists)
  /\ \/ bin' = write_binary(info)
     \/ ~HasPositions /\ bin' = write_binary_v4(info)
     \/ ~HasPositions /\ bin' = WriteAs(info, 3)
  /\ phase' = "written"
  /\ UNCHANGED <<asked, data, info, clamped, index>>

\* The file is read and refused, or there is an index.
Load ==
  /\ phase = "written"
  /\ index' = read_binary(bin)
  /\ phase' = IF index' = Error THEN "outdated" ELSE "loaded"
  /\ UNCHANGED <<asked, data, info, clamped, bin>>

Block(bytes, range) == SubSeq(bytes, range[1] + 1, range[2])

\* The lengths of the documents of a block are looked up by the ids it stores.
WithLengths(of, block) ==
  LET offsets == DocIds!decode_offsets_into(of.docids, Block(data.docids, block.docidRange), block)
  IN [block EXCEPT !.minDocLength =
        MinDocLength([i \in DOMAIN offsets |-> block.minDocId + offsets[i]])]

migrate_add_min_dl(old) ==
  write_binary([old EXCEPT !.terms = [t \in DOMAIN old.terms |->
    LET term == old.terms[t]
        pages == [b \in DOMAIN term.pages |-> WithLengths(old, term.pages[b])]
    IN [term EXCEPT !.pages = pages, !.minDl = MinDl(pages)]]])

\* Mutant of Migrate: the oldest layout is brought up as the one after it is.
MigrateWithoutLengths ==
  /\ phase = "outdated"
  /\ bin' = write_binary(read_binary_impl(Skip(bin, 2), bin[2]))
  /\ phase' = "written"
  /\ UNCHANGED <<asked, data, info, clamped, index>>

Migrate ==
  /\ phase = "outdated"
  /\ bin' = IF bin[2] = 3 THEN migrate_add_min_dl(read_binary_v3(bin))
            ELSE write_binary(read_binary_impl(Skip(bin, 2), bin[2]))
  /\ phase' = "written"
  /\ UNCHANGED <<asked, data, info, clamped, index>>

Next == Refuse \/ CompressTerm \/ WriteMetadata \/ Load \/ Migrate

Spec == Init /\ [][Next]_vars

-----------------------------------------------------------------------------

\* What a search reads of a block.
DocIdsOf(block) ==
  DocIds!decode_into_bytes(index.docids, Block(data.docids, block.docidRange), block)

ImpactsOf(block) ==
  Impacts!decode_into_bytes(index.impacts, Block(data.impacts, block.impactRange), block)

DeltasOf(block) ==
  IF index.positions = Error THEN <<>>
  ELSE decode_positions(index.positions, Block(data.positions, block.positionsRange),
                             block.numPositions)

Read(term, Of(_)) == FlattenSeq([b \in DOMAIN term.pages |-> Of(term.pages[b])])

Loaded == phase = "loaded"

\* Every posting of every term, as asked for and as read.
Given == FlattenSeq(asked.lists)

ReadImpacts == FlattenSeq([t \in DOMAIN index.terms |-> Read(index.terms[t], ImpactsOf)])

\* A codec that rounds is only exact on whole impacts.
Exact ==
  /\ Impacts!lossless(info.impacts)
  /\ info.impacts.name = "BitPackedInt" => \A i \in DOMAIN Given : Given[i].value % One = 0

\* A quantiser keeps the order of the impacts, across the whole index, and the
\* report counts as clamped exactly those read back more than half a step away.
QuantisedFaithfully ==
  /\ \A i, j \in DOMAIN Given : Given[i].value <= Given[j].value => ReadImpacts[i] <= ReadImpacts[j]
  /\ clamped = Cardinality({i \in DOMAIN Given :
                 2 * (Given[i].value - ReadImpacts[i]) > info.impacts.step
                   \/ 2 * (ReadImpacts[i] - Given[i].value) > info.impacts.step})

\* Whatever the codecs and wherever the lists are cut, an index reads back the
\* documents and positions it was given, and the impacts: unchanged if the codec
\* is exact, in the same order if it quantises them.
PostingsRead ==
  Loaded =>
    /\ \A t \in DOMAIN asked.lists :
         LET list == asked.lists[t]
             term == index.terms[t]
         IN /\ Read(term, DocIdsOf) = [i \in DOMAIN list |-> list[i].doc]
            /\ HasPositions => Read(term, DeltasOf) = Deltas(list)
    /\ Exact => ReadImpacts = [i \in DOMAIN Given |-> Given[i].value]
    /\ ~Impacts!lossless(info.impacts) => QuantisedFaithfully

\* Searches skip a block on what index.bin says of it: no impact in it is read
\* above its maximum or the maximum of the term, and no document has fewer words
\* than the least length, once that is known.
BoundsHold ==
  Loaded /\ (Exact \/ ~Impacts!lossless(info.impacts)) =>
    \A t \in DOMAIN index.terms : \A b \in DOMAIN index.terms[t].pages :
      LET term == index.terms[t]
          block == term.pages[b]
          docids == DocIdsOf(block)
          impacts == ImpactsOf(block)
      IN /\ \A i \in DOMAIN impacts : QMax * impacts[i] <= block.maxValue
         /\ block.maxValue <= term.maxValue
         /\ term.minDl <= block.minDocLength
         /\ \A i \in DOMAIN docids : docids[i] \in block.minDocId .. block.maxDocId
         /\ block.minDocLength > 0 =>
              \A i \in DOMAIN docids : block.minDocLength <= asked.lengths[docids[i]]

\* An index of an earlier release, brought up to date, is the one this release
\* writes: the lengths its layout had no place for are those of its documents.
MigratedAsRebuilt == Loaded => index = read_binary(write_binary(info))
=============================================================================
