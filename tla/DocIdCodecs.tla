----------------------------- MODULE DocIdCodecs -----------------------------
(***************************************************************************)
(* The three encodings of the document ids of a block.  Ids are offsets    *)
(* from the first, of 32 bits; a full block is packed with the least bits  *)
(* its gaps need, any other is stored gap by gap after a marker.           *)
(***************************************************************************)
EXTENDS Integers, Sequences, SequencesExt, FiniteSets, FiniteSetsExt

CONSTANTS
  BlockLen,        \* of a full block
  Bits,            \* of an offset
  PackedPerByte,   \* bits of a byte, for the cost of a packing
  ExceptionBytes   \* of an exception

TailMarker == 255
Width == 2 ^ Bits

Offsets(values, info) == [i \in DOMAIN values |-> (values[i] - info.minDocId) % Width]

Gaps(offsets) == [i \in DOMAIN offsets |-> offsets[i] - (IF i = 1 THEN 0 ELSE offsets[i - 1])]

Sums(gaps) ==
  FoldLeft(LAMBDA sums, gap : Append(sums, (gap + (IF sums = <<>> THEN 0 ELSE Last(sums))) % Width),
           <<>>, gaps)

\* The bit packer: how many bits the largest of the numbers has, and the low
\* bits of each.
NumBits(numbers) ==
  CHOOSE b \in 0 .. Bits : /\ \A i \in DOMAIN numbers : numbers[i] < 2 ^ b
                           /\ b = 0 \/ \E i \in DOMAIN numbers : numbers[i] >= 2 ^ (b - 1)

LowBits(numbers, bits) == [i \in DOMAIN numbers |-> numbers[i] % 2 ^ bits]

Zeros(n) == [i \in 1 .. n |-> 0]

-----------------------------------------------------------------------------

\* Elias-Fano: a monotone sequence below the span of the block.
WriteEliasFano(values, info) ==
  <<info.maxDocId - info.minDocId + 1>> \o [i \in DOMAIN values |-> values[i] - info.minDocId]

ReadEliasFano(data) == [i \in 1 .. Len(data) - 1 |-> data[i + 1] % Width]

WriteBitPacked(values, info) ==
  LET gaps == Gaps(Offsets(values, info))
      bits == NumBits(gaps)
  IN CASE Len(values) # BlockLen -> <<TailMarker>> \o gaps
       [] bits = 0 -> <<bits>>
       [] OTHER -> <<bits>> \o LowBits(gaps, bits)

\* No bits are packed when all the gaps are 0.
Packed(data, from, bits) == IF bits = 0 THEN Zeros(BlockLen) ELSE SubSeq(data, from, from + BlockLen - 1)

ReadBitPacked(data, info) ==
  Sums(IF data[1] # TailMarker /\ info.length = BlockLen THEN Packed(data, 2, data[1])
       ELSE SubSeq(data, 2, 1 + info.length))

\* The bits PFor packs all gaps with: those with more are exceptions, which are
\* cheaper than more bits for every gap of the block.
PackingCost(gaps, bits) ==
  (BlockLen * bits) \div PackedPerByte
    + ExceptionBytes * Cardinality({i \in DOMAIN gaps : gaps[i] >= 2 ^ bits})

optimal_base_bits(gaps) ==
  CHOOSE b \in 0 .. Bits : \A other \in 0 .. Bits :
    \/ PackingCost(gaps, b) < PackingCost(gaps, other)
    \/ PackingCost(gaps, b) = PackingCost(gaps, other) /\ b <= other

\* The header, the packed gaps, and each exception after its index.
WritePFor(values, info) ==
  LET gaps == Gaps(Offsets(values, info))
      bits == optimal_base_bits(gaps)
      exceptions == SelectSeq([i \in DOMAIN gaps |-> i], LAMBDA i : gaps[i] >= 2 ^ bits)
  IN IF Len(values) # BlockLen THEN <<TailMarker, 0>> \o gaps
     ELSE <<bits, Len(exceptions)>>
            \o (IF bits = 0 THEN <<>> ELSE LowBits(gaps, bits))
            \o FlattenSeq([e \in DOMAIN exceptions |-> <<exceptions[e] - 1, gaps[exceptions[e]]>>])

\* Mutant of ReadPFor: the exceptions are put right after the gaps were summed.
PatchSums(data, info) ==
  IF data[1] = TailMarker THEN Sums(SubSeq(data, 3, 2 + info.length))
  ELSE LET sums == Sums(Packed(data, 3, data[1]))
           at(e) == (IF data[1] = 0 THEN 3 ELSE 3 + BlockLen) + 2 * (e - 1)
       IN [i \in 1 .. BlockLen |->
             IF \E e \in 1 .. data[2] : data[at(e)] = i - 1
             THEN data[at(CHOOSE e \in 1 .. data[2] : data[at(e)] = i - 1) + 1]
                    + (IF i = 1 THEN 0 ELSE sums[i - 1])
             ELSE sums[i]]

ReadPFor(data, info) ==
  IF data[1] = TailMarker THEN Sums(SubSeq(data, 3, 2 + info.length))
  ELSE LET packed == Packed(data, 3, data[1])
           first == IF data[1] = 0 THEN 3 ELSE 3 + BlockLen
           at(e) == first + 2 * (e - 1)
       IN Sums([i \in 1 .. BlockLen |->
                  IF \E e \in 1 .. data[2] : data[at(e)] = i - 1
                  THEN data[at(CHOOSE e \in 1 .. data[2] : data[at(e)] = i - 1) + 1]
                  ELSE packed[i]])

-----------------------------------------------------------------------------

write(codec, values, info) ==
  CASE codec = "EliasFano" -> WriteEliasFano(values, info)
    [] codec = "BitPacking" -> WriteBitPacked(values, info)
    [] codec = "PFor" -> WritePFor(values, info)

decode_offsets_into(codec, data, info) ==
  CASE codec = "EliasFano" -> ReadEliasFano(data)
    [] codec = "BitPacking" -> ReadBitPacked(data, info)
    [] codec = "PFor" -> ReadPFor(data, info)

\* Elias-Fano does not cut what it reads to 32 bits unless offsets are asked for.
decode_into_bytes(codec, data, info) ==
  LET offsets == IF codec = "EliasFano" THEN SubSeq(data, 2, Len(data))
                 ELSE decode_offsets_into(codec, data, info)
  IN [i \in DOMAIN offsets |-> offsets[i] + info.minDocId]
=============================================================================
