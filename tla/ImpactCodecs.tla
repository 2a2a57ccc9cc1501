---------------------------- MODULE ImpactCodecs ----------------------------
(***************************************************************************)
(* The encodings of the impacts of a block.  Impacts are counted in parts  *)
(* of One, small enough for the steps of the quantisers used and half of   *)
(* them to be whole.                                                       *)
(***************************************************************************)
EXTENDS Integers, Sequences, SequencesExt, FiniteSets, FiniteSetsExt

CONSTANTS BlockLen, One

LOCAL TailMarker == 255

Quantises(codec) == codec.name \in {"Quantizer", "QuantizedBitPacked"}

\* Whether decoding is said to return what was encoded.
lossless(codec) == ~Quantises(codec)

Levels(codec) == 2 ^ codec.nbits

quantization_step(low, high, levels) == (high - low) \div levels

\* Decimal numbers become integers by truncation and saturation; without a step
\* the division is by zero, which what is above the range survives as infinity.
Quantised(codec, x) ==
  LET last == Levels(codec) - 1
  IN CASE x < codec.min -> 0
       [] codec.step = 0 -> IF x > codec.min THEN last ELSE 0
       [] OTHER -> Min({(x - codec.min) \div codec.step, last})

\* The centre of the bin.
Centre(codec, q) == q * codec.step + codec.min + codec.step \div 2

Rounded(x) == (2 * x + One) \div (2 * One)

-----------------------------------------------------------------------------

\* The quantiser of an index spans from 0 to its largest impact.
index_value_range(lists) ==
  [min |-> 0,
   max |-> Max({0} \cup UNION {{list[i].value : i \in DOMAIN list} : list \in Range(lists)})]

QuantizerParams(nbits, low, high) ==
  [nbits |-> nbits, min |-> low, max |-> high, step |-> quantization_step(low, high, 2 ^ nbits)]

\* The bounds are those of the index, given ones, or those of another quantiser.
resolve(range, nbits, lists) ==
  CASE range.kind = "PerIndex" ->
         LET of == index_value_range(lists) IN QuantizerParams(nbits, of.min, of.max)
    [] range.kind = "Fixed" -> QuantizerParams(nbits, range.min, range.max)
    [] range.kind = "Reference" -> range.params

\* What a factory makes for an index.
create(factory, lists) ==
  CASE factory.name \in {"Identity", "BitPackedInt"} -> [name |-> factory.name]
    [] OTHER ->
         LET params == resolve(factory.range, factory.nbits, lists)
         IN [name |-> factory.name, nbits |-> params.nbits,
             min |-> params.min, max |-> params.max, step |-> params.step]

-----------------------------------------------------------------------------

\* The number stored for an impact.
Stored(codec, x) ==
  CASE codec.name = "Identity" -> x
    [] codec.name = "BitPackedInt" -> Rounded(x)
    [] OTHER -> Quantised(codec, x)

Restored(codec, v) ==
  CASE codec.name = "Identity" -> v
    [] codec.name = "BitPackedInt" -> v * One
    [] OTHER -> Centre(codec, v)

\* Identity and the plain quantiser write one number after the other, in words
\* and in fields of a fixed number of bits.  The others pack a full block with
\* the bits its largest number needs and mark any other.
FixedWidth(codec) == codec.name \in {"Identity", "Quantizer"}

BitsOf(numbers) == CHOOSE b \in 0 .. 32 : /\ \A i \in DOMAIN numbers : numbers[i] < 2 ^ b
                                          /\ b = 0 \/ \E i \in DOMAIN numbers : numbers[i] >= 2 ^ (b - 1)

write(codec, values) ==
  LET numbers == [i \in DOMAIN values |-> Stored(codec, values[i])]
  IN CASE FixedWidth(codec) -> numbers
       [] Len(numbers) # BlockLen -> <<TailMarker>> \o numbers
       [] BitsOf(numbers) = 0 -> <<0>>
       [] OTHER -> <<BitsOf(numbers)>> \o [i \in DOMAIN numbers |-> numbers[i] % 2 ^ BitsOf(numbers)]

decode_into_bytes(codec, data, info) ==
  LET from == IF FixedWidth(codec) THEN 0 ELSE 1
      unpacked == ~FixedWidth(codec) /\ data[1] = 0 /\ info.length = BlockLen
  IN [i \in 1 .. info.length |-> Restored(codec, IF unpacked THEN 0 ELSE data[from + i])]

\* How many of the values the quantiser could only store as one of its bounds.
Clamped(codec, values) ==
  IF Quantises(codec)
  THEN Cardinality({i \in DOMAIN values : values[i] < codec.min \/ values[i] > codec.max})
  ELSE 0
=============================================================================
