----------------------------- MODULE IndexBinary -----------------------------
(***************************************************************************)
(* index.bin: what a compressed index knows of its blocks, in the layout   *)
(* of three versions.  A bound on impacts is counted in parts of QMax, the *)
(* largest number the byte that stores it has, so that what is read back   *)
(* is whole.                                                               *)
(***************************************************************************)
EXTENDS Integers, Sequences, SequencesExt, FiniteSetsExt

CONSTANTS
  QMax, Error,
  Base, MaxDigits   \* of the integers of variable length

(***************************************************************************)
(* Integers of variable length: the digits of a number in a given base,    *)
(* the least significant first, with a mark on each but the last.          *)
(***************************************************************************)
write_vint(v) ==
  LET n == CHOOSE k \in 1 .. MaxDigits : v < Base ^ k /\ (k = 1 \/ v >= Base ^ (k - 1))
  IN [i \in 1 .. n |-> ((v \div Base ^ (i - 1)) % Base) + (IF i < n THEN Base ELSE 0)]

\* The number at the head of the bytes, and the bytes after it.
read_vint(bytes) ==
  LET n == SelectInSeq(bytes, LAMBDA byte : byte < Base)
  IN [value |-> FoldLeft(LAMBDA sum, i : sum + (bytes[i] % Base) * Base ^ (i - 1), 0,
                         [i \in 1 .. n |-> i]),
      rest |-> SubSeq(bytes, n + 1, Len(bytes))]

\* The fields at the head of the bytes, each a number of variable length or a byte.
ReadFields(bytes, shape) ==
  FoldLeft(LAMBDA read, field :
             LET next == IF field = "vint" THEN read_vint(read.rest)
                         ELSE [value |-> Head(read.rest), rest |-> Tail(read.rest)]
             IN [values |-> Append(read.values, next.value), rest |-> next.rest],
           [values |-> <<>>, rest |-> bytes], shape)

ReadVints(bytes, n) == ReadFields(bytes, [i \in 1 .. n |-> "vint"])

-----------------------------------------------------------------------------
COMPRESSED_INDEX_MAGIC == "IDX2"
COMPRESSED_INDEX_VERSION == 5

\* The least length of the documents of a term is that of its blocks.
MinDl(pages) == IF pages = <<>> THEN 0 ELSE Min({pages[i].minDocLength : i \in DOMAIN pages})

\* The block maxima are stored between the least of them and the term's.
LeastMax(term) ==
  IF term.pages = <<>> THEN 0 ELSE Min({term.pages[i].maxValue : i \in DOMAIN term.pages})

\* Rounded up, for what is read to bound what was written.
Quantised(value, low, range) ==
  IF range > 0 THEN Min({((value - low) * QMax + range - 1) \div range, QMax}) ELSE QMax

Dequantised(q, low, range) == low + (q * range) \div QMax

Size(range) == range[2] - range[1]

\* Ids are stored from the last one of the block before, the places in the data
\* files as sizes alone.
WriteBlock(block, previous, low, range, version) ==
  write_vint(Size(block.docidRange)) \o write_vint(Size(block.impactRange))
    \o write_vint(block.length)
    \o <<Quantised(block.maxValue, low, range)>>
    \o write_vint(block.minDocId - previous) \o write_vint(block.maxDocId - block.minDocId)
    \o (IF version >= 4 THEN <<block.minDocLength>> ELSE <<>>)
    \o (IF version >= 5
        THEN write_vint(Size(block.positionsRange)) \o write_vint(block.numPositions) ELSE <<>>)

WriteTerm(term, version) ==
  LET low == LeastMax(term)
      previous(i) == IF i = 1 THEN 0 ELSE term.pages[i - 1].maxDocId
  IN write_vint(Len(term.pages)) \o <<term.maxValue>> \o write_vint(term.maxDocId)
       \o write_vint(term.length) \o <<low>>
       \o FlattenSeq([i \in DOMAIN term.pages |->
            WriteBlock(term.pages[i], previous(i), low, term.maxValue - low, version)])

\* Before positions the header names two codecs.
Header(info, version) ==
  IF version >= 5 THEN <<info.docids, info.impacts, info.positions>>
  ELSE <<info.docids, info.impacts>>

WriteAs(info, version) ==
  <<COMPRESSED_INDEX_MAGIC, version, Len(info.terms), Header(info, version)>>
    \o FlattenSeq([t \in DOMAIN info.terms |-> WriteTerm(info.terms[t], version)])

write_binary(info) == WriteAs(info, COMPRESSED_INDEX_VERSION)
write_binary_v4(info) == IF info.positions = Error THEN WriteAs(info, 4) ELSE <<>>

-----------------------------------------------------------------------------

\* Where the reader is: the bytes to come, the ends of what the blocks read so
\* far have in the three files, the blocks of the term, and the terms before it.
Reading(rest) ==
  [rest |-> rest, docids |-> 0, impacts |-> 0, positions |-> 0, last |-> 0, pages |-> <<>>,
   terms |-> <<>>]

Skip(bytes, n) == SubSeq(bytes, n + 1, Len(bytes))

\* The fields of a block: three sizes, the bound, two ids, the least length since
\* version 4, and two sizes since version 5.
BlockShape(version) ==
  <<"vint", "vint", "vint", "byte", "vint", "vint">>
    \o (IF version >= 4 THEN <<"byte">> ELSE <<>>)
    \o (IF version >= 5 THEN <<"vint", "vint">> ELSE <<>>)

\* A field older layouts have no place for is 0.
Field(fields, i) == IF i <= Len(fields.values) THEN fields.values[i] ELSE 0

BlockOf(reading, fields, low, range) ==
  [docidRange |-> <<reading.docids, reading.docids + Field(fields, 1)>>,
   impactRange |-> <<reading.impacts, reading.impacts + Field(fields, 2)>>,
   length |-> Field(fields, 3),
   maxValue |-> Dequantised(Field(fields, 4), low, range),
   minDocId |-> reading.last + Field(fields, 5),
   maxDocId |-> reading.last + Field(fields, 5) + Field(fields, 6),
   minDocLength |-> Field(fields, 7),
   positionsRange |-> <<reading.positions, reading.positions + Field(fields, 8)>>,
   numPositions |-> Field(fields, 9)]

WithBlock(reading, block, rest) ==
  [reading EXCEPT !.rest = rest, !.docids = block.docidRange[2], !.impacts = block.impactRange[2],
                  !.positions = block.positionsRange[2], !.last = block.maxDocId,
                  !.pages = Append(@, block)]

ReadBlock(reading, fields, low, range) ==
  WithBlock(reading, BlockOf(reading, fields, low, range), fields.rest)

\* The ids start again from 0 with each term, the places go on.
ReadBlocks(reading, head, version) ==
  FoldLeft(LAMBDA r, b : ReadBlock(r, ReadFields(r.rest, BlockShape(version)),
                                   head[5], head[2] - head[5]),
           reading, [b \in 1 .. head[1] |-> b])

WithTerm(reading, head) ==
  [reading EXCEPT
    !.terms = Append(@, [pages |-> reading.pages, maxValue |-> head[2], maxDocId |-> head[3],
                         length |-> head[4], minDl |-> MinDl(reading.pages)]),
    !.last = 0, !.pages = <<>>]

ReadTerm(reading, head, version) ==
  WithTerm(ReadBlocks([reading EXCEPT !.rest = head.rest], head.values, version), head.values)

ReadTerms(bytes, count, version) ==
  FoldLeft(LAMBDA read, t :
             ReadTerm(read, ReadFields(read.rest, <<"vint", "byte", "vint", "vint", "byte">>), version),
           Reading(bytes), [t \in 1 .. count |-> t]).terms

\* The bytes after the magic number and the version.
read_binary_impl(bytes, version) ==
  [docids |-> bytes[2][1], impacts |-> bytes[2][2],
   positions |-> IF version >= 5 THEN bytes[2][3] ELSE Error,
   terms |-> ReadTerms(Skip(bytes, 2), bytes[1], version)]

read_binary(bytes) ==
  IF bytes[1] = COMPRESSED_INDEX_MAGIC /\ bytes[2] = COMPRESSED_INDEX_VERSION
  THEN read_binary_impl(Skip(bytes, 2), COMPRESSED_INDEX_VERSION)
  ELSE Error

read_binary_v3(bytes) ==
  IF bytes[1] = COMPRESSED_INDEX_MAGIC /\ bytes[2] = 3
  THEN read_binary_impl(Skip(bytes, 2), 3)
  ELSE Error
=============================================================================
