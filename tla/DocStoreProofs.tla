-------------------------- MODULE DocStoreProofs --------------------------
(***************************************************************************)
(* What holds of the construction of a document store for every collection *)
(* and every caller: its types, and for a caller that either resumes each  *)
(* session from the checkpoint of the one before or never uses one, that   *)
(* the store it ends with is that of the collection.                       *)
(***************************************************************************)
EXTENDS DocStoreBuilder, SequenceTheorems, FiniteSetTheorems, TLAPS

\* A caller that uses checkpoints in all of its sessions, drops its builder before
\* it opens another and does not die while build removes files; or one that never
\* resumes.
Steady(c) ==
  \/ Resumes(c) /\ c.reopens = 0 /\ ~c.interrupts
  \/ c.frequencies = {0}

-----------------------------------------------------------------------------
(***************************************************************************)
(* Files and writers                                                       *)
(***************************************************************************)

\* Two files have the same first n records.
Agree(f, g, n) == n <= Len(f) /\ n <= Len(g) /\ \A i \in 1 .. n : f[i] = g[i]

\* content.dat, blocks.dat and the file of a key once their writers are flushed.
FullContent == Flushed(content, out.data, NoChunk)
FullBlocks  == Flushed(blocks, out.blocks, NoBlock)
FullKey(k)  == Flushed(keyFile[k], keyOut[k], NoLine)

\* A function on 1 .. n with values in S is a sequence of n members of S.
LEMMA FunctionSequence ==
  ASSUME NEW S, NEW n \in Nat, NEW F \in [1 .. n -> S]
  PROVE  F \in Seq(S) /\ Len(F) = n /\ DOMAIN F = 1 .. n
OBVIOUS

\* What a prefix and a suffix of a sequence are.
LEMMA SplitSequence ==
  ASSUME NEW S, NEW s \in Seq(S), NEW n \in 0 .. Len(s)
  PROVE  /\ SubSeq(s, 1, n) \in Seq(S) /\ Len(SubSeq(s, 1, n)) = n
         /\ \A i \in 1 .. n : SubSeq(s, 1, n)[i] = s[i]
         /\ SubSeq(s, n + 1, Len(s)) \in Seq(S) /\ Len(SubSeq(s, n + 1, Len(s))) = Len(s) - n
         /\ \A i \in 1 .. Len(s) - n : SubSeq(s, n + 1, Len(s))[i] = s[n + i]
OBVIOUS

\* What a part of a sequence is.
LEMMA MiddleSequence ==
  ASSUME NEW S, NEW s \in Seq(S), NEW o \in Nat, NEW n \in Nat, o + n <= Len(s)
  PROVE  /\ SubSeq(s, o + 1, o + n) \in Seq(S) /\ Len(SubSeq(s, o + 1, o + n)) = n
         /\ \A i \in 1 .. n : SubSeq(s, o + 1, o + n)[i] = s[o + i]
OBVIOUS

\* The same from its first place to its last.
LEMMA MiddleOf ==
  ASSUME NEW S, NEW s \in Seq(S), NEW lo \in Nat, NEW hi \in Nat,
         1 <= lo, lo <= hi + 1, hi <= Len(s)
  PROVE  /\ SubSeq(s, lo, hi) \in Seq(S) /\ Len(SubSeq(s, lo, hi)) = hi - lo + 1
         /\ \A i \in 1 .. Len(SubSeq(s, lo, hi)) : SubSeq(s, lo, hi)[i] = s[lo - 1 + i]
OBVIOUS

\* An element of a sequence.
LEMMA ElementOf ==
  ASSUME NEW S, NEW s \in Seq(S), NEW i \in 1 .. Len(s)
  PROVE  s[i] \in S
OBVIOUS

\* The whole of a sequence.
LEMMA WholeSequence ==
  ASSUME NEW S, NEW s \in Seq(S)
  PROVE  SubSeq(s, 1, Len(s)) = s
OBVIOUS

\* Two sequences of one length with the same elements are one.
LEMMA SameSequence ==
  ASSUME NEW S, NEW s \in Seq(S), NEW t \in Seq(S), Len(s) = Len(t),
         \A i \in 1 .. Len(s) : s[i] = t[i]
  PROVE  s = t
OBVIOUS

\* Writing gives a file of records.
LEMMA WriteAtType ==
  ASSUME NEW S, NEW f \in Seq(S), NEW at \in Nat, NEW s \in Seq(S), NEW zero \in S
  PROVE  WriteAt(f, at, s, zero) \in Seq(S)
<1> DEFINE n == IF Len(f) > at + Len(s) THEN Len(f) ELSE at + Len(s)
           e(i) == IF at < i /\ i <= at + Len(s) THEN s[i - at]
                   ELSE IF i <= Len(f) THEN f[i] ELSE zero
<1>1. n \in Nat
  OBVIOUS
<1>2. \A i \in 1 .. n : e(i) \in S
  OBVIOUS
<1>3. [i \in 1 .. n |-> e(i)] \in [1 .. n -> S]
  BY <1>2
<1>4. [i \in 1 .. n |-> e(i)] \in Seq(S)
  BY <1>1, <1>3, FunctionSequence
<1>. QED
  BY <1>4 DEF WriteAt

\* The file g is f with s at offset at.
Written(g, f, at, s) ==
  /\ Len(f) <= Len(g) /\ at + Len(s) <= Len(g) /\ Len(g) \in {Len(f), at + Len(s)}
  /\ \A i \in 1 .. Len(g) : at < i /\ i <= at + Len(s) => g[i] = s[i - at]
  /\ \A i \in 1 .. Len(g) : i <= at \/ at + Len(s) < i => g[i] = f[i]

\* Without a seek past the end, a write replaces what it covers and nothing else.
LEMMA WriteAtIs ==
  ASSUME NEW S, NEW f \in Seq(S), NEW at \in Nat, at <= Len(f), NEW s \in Seq(S), NEW zero \in S
  PROVE  Written(WriteAt(f, at, s, zero), f, at, s)
<1>1. CASE s = <<>>
  <2>1. WriteAt(f, at, s, zero) = f /\ Len(s) = 0
    BY <1>1 DEF WriteAt
  <2>. QED
    BY <2>1 DEF Written
<1>2. CASE s # <<>>
  <2> DEFINE n == IF Len(f) > at + Len(s) THEN Len(f) ELSE at + Len(s)
             e(i) == IF at < i /\ i <= at + Len(s) THEN s[i - at]
                     ELSE IF i <= Len(f) THEN f[i] ELSE zero
             F == [i \in 1 .. n |-> e(i)]
  <2>1. n \in Nat /\ n \in {Len(f), at + Len(s)} /\ Len(f) <= n /\ at + Len(s) <= n
    OBVIOUS
  <2>2. \A i \in 1 .. n : e(i) \in S
    OBVIOUS
  <2>3. F \in [1 .. n -> S]
    BY <2>2
  <2>4. Len(F) = n
    BY <2>1, <2>3, FunctionSequence
  <2>5. /\ \A i \in 1 .. n : at < i /\ i <= at + Len(s) => F[i] = s[i - at]
        /\ \A i \in 1 .. n : i <= at \/ at + Len(s) < i => F[i] = f[i]
    OBVIOUS
  <2>6. WriteAt(f, at, s, zero) = F
    BY <1>2 DEF WriteAt
  <2> HIDE DEF F, n
  <2>. QED
    BY <2>1, <2>4, <2>5, <2>6 DEF Written
<1>. QED
  BY <1>1, <1>2

\* A BufWriter that has written nothing past its offset.
LEMMA WriterTypes ==
  ASSUME NEW S, NEW f \in Seq(S), NEW w \in Writer(S), NEW zero \in S, NEW n \in 0 .. Len(w.held)
  PROVE  /\ Received(f, w, n, zero) \in Seq(S) /\ HandedOver(w, n) \in Writer(S)
         /\ Flushed(f, w, zero) \in Seq(S) /\ Emptied(w) \in Writer(S)
<1>1. w.at \in Nat /\ w.held \in Seq(S) /\ Len(w.held) \in Nat
  BY DEF Writer
<1>2. \A m \in 0 .. Len(w.held) :
        Received(f, w, m, zero) \in Seq(S) /\ HandedOver(w, m) \in Writer(S)
  <2> TAKE m \in 0 .. Len(w.held)
  <2>1. SubSeq(w.held, 1, m) \in Seq(S) /\ SubSeq(w.held, m + 1, Len(w.held)) \in Seq(S)
    BY <1>1, SplitSequence
  <2>2. WriteAt(f, w.at, SubSeq(w.held, 1, m), zero) \in Seq(S)
    BY <1>1, <2>1, WriteAtType
  <2>3. w.at + m \in Nat
    BY <1>1
  <2>. QED
    BY <2>1, <2>2, <2>3 DEF Received, HandedOver, Writer
<1>. QED
  BY <1>1, <1>2 DEF Flushed, Emptied

\* A flush leaves the file with what the writer held at its offset.
LEMMA FlushedIs ==
  ASSUME NEW S, NEW f \in Seq(S), NEW w \in Writer(S), w.at <= Len(f), NEW zero \in S
  PROVE  Flushed(f, w, zero) \in Seq(S) /\ Written(Flushed(f, w, zero), f, w.at, w.held)
<1>1. w.at \in Nat /\ w.held \in Seq(S)
  BY DEF Writer
<1>2. Flushed(f, w, zero) = WriteAt(f, w.at, w.held, zero)
  BY <1>1, WholeSequence DEF Flushed, Received
<1>3. Written(WriteAt(f, w.at, w.held, zero), f, w.at, w.held)
  BY <1>1, WriteAtIs
<1>4. WriteAt(f, w.at, w.held, zero) \in Seq(S)
  BY <1>1, WriteAtType
<1>. QED
  BY <1>2, <1>3, <1>4

\* A writer that holds nothing leaves the file alone.
LEMMA FlushedNothing ==
  ASSUME NEW S, NEW f \in Seq(S), NEW w \in Writer(S), w.held = <<>>, NEW zero
  PROVE  Flushed(f, w, zero) = f
<1>1. SubSeq(w.held, 1, Len(w.held)) = <<>>
  BY WholeSequence
<1>. QED
  BY <1>1 DEF Flushed, Received, WriteAt

\* What a writer hands over when it likes is what a flush would have written.
LEMMA SpillKeeps ==
  ASSUME NEW S, NEW f \in Seq(S), NEW w \in Writer(S), w.at <= Len(f), NEW zero \in S,
         NEW n \in 0 .. Len(w.held)
  PROVE  /\ Flushed(Received(f, w, n, zero), HandedOver(w, n), zero) = Flushed(f, w, zero)
         /\ HandedOver(w, n).at = w.at + n
         /\ HandedOver(w, n).at + Len(HandedOver(w, n).held) = w.at + Len(w.held)
         /\ HandedOver(w, n).at <= Len(Received(f, w, n, zero))
         /\ Agree(f, Received(f, w, n, zero), w.at)
         /\ w.at = Len(f) => HandedOver(w, n).at = Len(Received(f, w, n, zero))
<1> DEFINE g == Received(f, w, n, zero)
           v == HandedOver(w, n)
           s == SubSeq(w.held, 1, n)
<1>1. w.at \in Nat /\ w.held \in Seq(S) /\ Len(w.held) \in Nat
  BY DEF Writer
<1>2. /\ s \in Seq(S) /\ Len(s) = n
      /\ \A i \in 1 .. n : s[i] = w.held[i]
  BY <1>1, SplitSequence
<1>3. /\ v \in Writer(S) /\ v.at = w.at + n
      /\ v.held \in Seq(S) /\ Len(v.held) = Len(w.held) - n
      /\ \A i \in 1 .. Len(w.held) - n : v.held[i] = w.held[n + i]
  BY <1>1, SplitSequence DEF HandedOver, Writer
<1>4. g = WriteAt(f, w.at, s, zero)
  BY DEF Received
<1> HIDE DEF v, s
<1>5. g \in Seq(S) /\ Written(g, f, w.at, s)
  BY <1>1, <1>2, <1>4, WriteAtIs, WriteAtType
<1> HIDE DEF g
<1>6. /\ Len(g) \in Nat /\ Len(f) \in Nat
      /\ Len(f) <= Len(g) /\ w.at + n <= Len(g) /\ Len(g) \in {Len(f), w.at + n}
  BY <1>2, <1>5 DEF Written
<1>7. v.at <= Len(g)
  BY <1>3, <1>6
<1> DEFINE G == Flushed(g, v, zero)
           H == Flushed(f, w, zero)
<1>8. G \in Seq(S) /\ Written(G, g, v.at, v.held)
  BY <1>3, <1>5, <1>7, FlushedIs
<1>9. H \in Seq(S) /\ Written(H, f, w.at, w.held)
  BY FlushedIs
<1> HIDE DEF G, H
<1>10. v.at + Len(v.held) = w.at + Len(w.held) /\ Len(G) \in Nat /\ Len(H) \in Nat
  BY <1>1, <1>3, <1>8, <1>9
<1>11. Len(G) = Len(H)
  BY <1>1, <1>6, <1>8, <1>9, <1>10 DEF Written
<1>12. ASSUME NEW i \in 1 .. Len(G)
       PROVE  G[i] = H[i]
  <2>1. i \in 1 .. Len(H) /\ i \in Nat /\ i >= 1
    BY <1>10, <1>11
  <2>2. CASE i > w.at + Len(w.held)
    <3>1. G[i] = g[i] /\ H[i] = f[i]
      BY <1>1, <1>8, <1>9, <1>10, <2>1, <2>2 DEF Written
    <3>2. i \in 1 .. Len(g)
      BY <1>1, <1>6, <1>8, <1>10, <2>1, <2>2 DEF Written
    <3>3. g[i] = f[i]
      BY <1>1, <1>2, <1>5, <2>1, <2>2, <3>2 DEF Written
    <3>. QED
      BY <3>1, <3>3
  <2>3. CASE v.at < i /\ i <= w.at + Len(w.held)
    <3>1. G[i] = v.held[i - v.at] /\ H[i] = w.held[i - w.at]
      BY <1>1, <1>3, <1>8, <1>9, <1>10, <2>1, <2>3 DEF Written
    <3>2. i - v.at \in 1 .. Len(w.held) - n /\ n + (i - v.at) = i - w.at
      <4>1. PICK at, h \in Nat : at = w.at /\ h = Len(w.held)
        BY <1>1
      <4>2. PICK j \in Nat : j = i
        BY <2>1
      <4>3. n \in Nat /\ v.at = at + n
        BY <1>3, <4>1
      <4>4. at + n < j /\ j <= at + h
        BY <2>3, <4>1, <4>2, <4>3
      <4>5. j - (at + n) \in 1 .. h - n /\ n + (j - (at + n)) = j - at
        BY <4>3, <4>4
      <4>. QED
        BY <4>1, <4>2, <4>3, <4>5
    <3>. QED
      BY <1>3, <3>1, <3>2
  <2>4. CASE i <= v.at
    <3>1. i \in 1 .. Len(g)
      BY <1>1, <1>3, <1>6, <2>1, <2>4
    <3>2. G[i] = g[i]
      BY <1>8, <2>4 DEF Written
    <3>3. CASE w.at < i
      <4>1. i <= w.at + n /\ Len(s) = n
        BY <1>2, <1>3, <2>4
      <4>2. i - w.at \in 1 .. n /\ i <= w.at + Len(s) /\ i <= w.at + Len(w.held)
        BY <1>1, <2>1, <3>3, <4>1
      <4>3. g[i] = s[i - w.at]
        BY <1>1, <1>2, <1>5, <2>1, <3>1, <3>3, <4>2 DEF Written
      <4>4. H[i] = w.held[i - w.at]
        BY <1>9, <2>1, <3>3, <4>2 DEF Written
      <4>. QED
        BY <1>2, <3>2, <4>2, <4>3, <4>4
    <3>4. CASE i <= w.at
      BY <1>5, <1>9, <2>1, <3>1, <3>2, <3>4 DEF Written
    <3>. QED
      BY <1>1, <2>1, <3>3, <3>4
  <2>. QED
    BY <1>1, <1>3, <2>1, <2>2, <2>3, <2>4
<1>13. G = H
  BY <1>8, <1>9, <1>11, <1>12, SameSequence
<1>14. Agree(f, g, w.at)
  <2>1. \A i \in 1 .. w.at : i \in 1 .. Len(g) /\ i <= w.at
    BY <1>1, <1>6
  <2>2. \A i \in 1 .. w.at : g[i] = f[i]
    BY <1>5, <2>1 DEF Written
  <2>. QED
    BY <1>1, <1>6, <2>2 DEF Agree
<1>15. w.at = Len(f) => v.at = Len(g)
  BY <1>1, <1>3, <1>6
<1>. QED
  BY <1>3, <1>7, <1>10, <1>13, <1>14, <1>15 DEF G, H, g, v

\* Records put into w, which ends after e of them, are the next ones of file f.
PutsAfter(S, f, w, s, zero, e) ==
  /\ Put(w, s) \in Writer(S) /\ Put(w, s).at = w.at
  /\ Put(w, s).at + Len(Put(w, s).held) = e + Len(s)
  /\ Agree(Flushed(f, w, zero), Flushed(f, Put(w, s), zero), e)
  /\ e + Len(s) <= Len(Flushed(f, Put(w, s), zero))
  /\ \A i \in 1 .. Len(s) : Flushed(f, Put(w, s), zero)[e + i] = s[i]

\* They follow what the writer has taken before.
LEMMA PutKeeps ==
  ASSUME NEW S, NEW f \in Seq(S), NEW w \in Writer(S), w.at <= Len(f), NEW zero \in S,
         NEW s \in Seq(S)
  PROVE  PutsAfter(S, f, w, s, zero, w.at + Len(w.held))
<1> DEFINE e == w.at + Len(w.held)
<1> DEFINE v == Put(w, s)
           G == Flushed(f, v, zero)
           H == Flushed(f, w, zero)
<1>1. w.at \in Nat /\ w.held \in Seq(S) /\ Len(w.held) \in Nat /\ Len(s) \in Nat /\ Len(f) \in Nat
  BY DEF Writer
<1>2. w.held \o s \in Seq(S) /\ Len(w.held \o s) = Len(w.held) + Len(s)
  BY <1>1
<1>3. /\ \A i \in 1 .. Len(w.held) : (w.held \o s)[i] = w.held[i]
      /\ \A i \in 1 .. Len(s) : (w.held \o s)[Len(w.held) + i] = s[i]
  BY <1>1
<1>4. v \in Writer(S) /\ v.at = w.at /\ v.held = w.held \o s
  BY <1>1, <1>2 DEF Put, Writer
<1> HIDE DEF v
<1>5. v.at + Len(v.held) = e + Len(s) /\ e \in Nat /\ v.at <= Len(f)
  BY <1>1, <1>2, <1>4
<1>6. G \in Seq(S) /\ Written(G, f, v.at, v.held)
  BY <1>4, <1>5, FlushedIs
<1>7. H \in Seq(S) /\ Written(H, f, w.at, w.held)
  BY FlushedIs
<1> HIDE DEF G, H
<1>8. Len(G) \in Nat /\ Len(H) \in Nat /\ e + Len(s) <= Len(G) /\ e <= Len(H)
  BY <1>1, <1>5, <1>6, <1>7 DEF Written
<1>9. ASSUME NEW i \in 1 .. e
      PROVE  G[i] = H[i]
  <2>1. i \in Nat /\ 1 <= i /\ i <= e
    BY <1>5
  <2>2. i \in 1 .. Len(G) /\ i \in 1 .. Len(H) /\ i <= v.at + Len(v.held) /\ i <= w.at + Len(w.held)
    BY <1>1, <1>5, <1>8, <2>1
  <2>3. CASE w.at < i
    <3>1. G[i] = v.held[i - w.at]
      BY <1>4, <1>6, <2>2, <2>3 DEF Written
    <3>2. H[i] = w.held[i - w.at]
      BY <1>7, <2>2, <2>3 DEF Written
    <3>3. i - w.at \in 1 .. Len(w.held)
      BY <1>1, <2>2, <2>3
    <3>. QED
      BY <1>3, <1>4, <3>1, <3>2, <3>3
  <2>4. CASE i <= w.at
    BY <1>4, <1>6, <1>7, <2>2, <2>4 DEF Written
  <2>. QED
    BY <1>1, <2>1, <2>3, <2>4
<1>10. ASSUME NEW i \in 1 .. Len(s)
       PROVE  G[e + i] = s[i]
  <2>1. i \in Nat /\ 1 <= i /\ i <= Len(s) /\ v.at = w.at /\ w.at <= e
    BY <1>1, <1>4
  <2>2. e + i \in 1 .. Len(G) /\ v.at < e + i /\ e + i <= v.at + Len(v.held)
    <3>1. e \in Nat /\ Len(s) \in Nat /\ Len(G) \in Nat
      BY <1>1, <1>5, <1>8
    <3>2. e + Len(s) <= Len(G) /\ v.at + Len(v.held) = e + Len(s) /\ v.at <= e /\ v.at \in Nat
      BY <1>1, <1>5, <1>8, <2>1
    <3> HIDE DEF e
    <3>. QED
      BY <2>1, <3>1, <3>2
  <2>3. G[e + i] = v.held[(e + i) - v.at]
    BY <1>6, <2>2 DEF Written
  <2>4. (e + i) - v.at = Len(w.held) + i
    BY <1>1, <1>4
  <2>. QED
    BY <1>3, <1>4, <2>3, <2>4
<1>11. Agree(H, G, e)
  BY <1>1, <1>8, <1>9, <1>5 DEF Agree
<1>. QED
  BY <1>4, <1>5, <1>8, <1>10, <1>11 DEF G, H, v, PutsAfter

\* A writer at the end of its file appends.
LEMMA FlushedAppends ==
  ASSUME NEW S, NEW f \in Seq(S), NEW w \in Writer(S), w.at = Len(f), NEW zero \in S
  PROVE  Len(Flushed(f, w, zero)) = w.at + Len(w.held)
<1>1. w.at \in Nat /\ w.held \in Seq(S) /\ Len(w.held) \in Nat /\ Len(f) \in Nat
  BY DEF Writer
<1>2. Written(Flushed(f, w, zero), f, w.at, w.held)
  BY <1>1, FlushedIs
<1>3. Len(Flushed(f, w, zero)) \in {Len(f), w.at + Len(w.held)}
      /\ w.at + Len(w.held) <= Len(Flushed(f, w, zero))
  BY <1>2 DEF Written
<1>. QED
  BY <1>1, <1>3

\* A flush empties the writer and moves it to the end of what it wrote.
LEMMA EmptiedIs ==
  ASSUME NEW S, NEW f \in Seq(S), NEW w \in Writer(S), w.at <= Len(f), NEW zero \in S
  PROVE  /\ Emptied(w) \in Writer(S) /\ Emptied(w).held = <<>>
         /\ Emptied(w).at = w.at + Len(w.held)
         /\ Emptied(w).at + Len(Emptied(w).held) = w.at + Len(w.held)
         /\ Emptied(w).at <= Len(Flushed(f, w, zero))
         /\ Agree(f, Flushed(f, w, zero), w.at)
         /\ Flushed(Flushed(f, w, zero), Emptied(w), zero) = Flushed(f, w, zero)
         /\ w.at = Len(f) => Emptied(w).at = Len(Flushed(f, w, zero))
<1>1. w.at \in Nat /\ w.held \in Seq(S) /\ Len(w.held) \in Nat /\ Len(w.held) \in 0 .. Len(w.held)
  BY DEF Writer
<1>2. Emptied(w) \in Writer(S)
  BY <1>1, WriterTypes
<1>3. Len(Emptied(w).held) = 0 /\ Emptied(w).held \in Seq(S)
  <2>1. /\ SubSeq(w.held, Len(w.held) + 1, Len(w.held)) \in Seq(S)
        /\ Len(SubSeq(w.held, Len(w.held) + 1, Len(w.held))) = 0
    BY <1>1, SplitSequence
  <2>. QED
    BY <2>1 DEF Emptied, HandedOver
<1>4. Emptied(w).held = <<>>
  BY <1>3
<1>. QED
  BY <1>1, <1>2, <1>4, SpillKeeps DEF Emptied, Flushed

\* A writer that is positioned at the end of its file.
LEMMA WriterAtIs ==
  ASSUME NEW S, NEW f \in Seq(S), NEW n \in Nat, NEW zero
  PROVE  /\ WriterAt(n) \in Writer(S)
         /\ WriterAt(n).at = n /\ WriterAt(n).held = <<>>
         /\ WriterAt(n).at + Len(WriterAt(n).held) = n
         /\ Flushed(f, WriterAt(n), zero) = f
<1>1. <<>> \in Seq(S) /\ Len(<<>>) = 0
  OBVIOUS
<1>2. WriterAt(n) \in Writer(S) /\ WriterAt(n).at = n /\ WriterAt(n).held = <<>>
  BY <1>1 DEF WriterAt, Writer
<1>3. Flushed(f, WriterAt(n), zero) = f
  BY <1>2, FlushedNothing
<1>. QED
  BY <1>1, <1>2, <1>3

\* A file cut to a length it has.
LEMMA SetLenIs ==
  ASSUME NEW S, NEW f \in Seq(S), NEW n \in Nat, NEW zero \in S
  PROVE  /\ SetLen(f, n, zero) \in Seq(S) /\ Len(SetLen(f, n, zero)) = n
         /\ n <= Len(f) => Agree(f, SetLen(f, n, zero), n) /\ SetLen(f, n, zero) = SubSeq(f, 1, n)
<1> DEFINE e(i) == IF i <= Len(f) THEN f[i] ELSE zero
           F == [i \in 1 .. n |-> e(i)]
<1>1. \A i \in 1 .. n : e(i) \in S
  OBVIOUS
<1>2. F \in [1 .. n -> S]
  BY <1>1
<1>3. F \in Seq(S) /\ Len(F) = n
  BY <1>2, FunctionSequence
<1>4. \A i \in 1 .. n : i <= Len(f) => F[i] = f[i]
  OBVIOUS
<1>5. SetLen(f, n, zero) = F
  BY DEF SetLen
<1> HIDE DEF F
<1>6. ASSUME n <= Len(f)
      PROVE  Agree(f, F, n) /\ F = SubSeq(f, 1, n)
  <2>1. Len(f) \in Nat /\ n \in 0 .. Len(f) /\ \A i \in 1 .. n : i <= Len(f)
    BY <1>6
  <2>2. \A i \in 1 .. n : F[i] = f[i]
    BY <1>4, <2>1
  <2>3. /\ SubSeq(f, 1, n) \in Seq(S) /\ Len(SubSeq(f, 1, n)) = n
        /\ \A i \in 1 .. n : SubSeq(f, 1, n)[i] = f[i]
    BY <2>1, SplitSequence
  <2>4. F = SubSeq(f, 1, n)
    BY <1>3, <2>2, <2>3, SameSequence
  <2>. QED
    BY <1>3, <1>6, <2>2, <2>4 DEF Agree
<1>. QED
  BY <1>3, <1>5, <1>6

\* Agreement is passed on.
LEMMA AgreeOn ==
  ASSUME NEW f, NEW g, NEW h, NEW m \in Nat, NEW n \in Nat, Agree(f, g, m), Agree(g, h, n),
         Len(f) \in Nat, Len(g) \in Nat, Len(h) \in Nat, NEW l \in Nat, l <= m, l <= n
  PROVE  Agree(f, h, l)
BY DEF Agree

-----------------------------------------------------------------------------
(***************************************************************************)
(* Blocks                                                                  *)
(***************************************************************************)

\* Document d starts at offset at of a block.
HoldsAt(block, at, d) ==
  /\ block \in DocBlock /\ at \in Nat
  /\ at + d.size <= Len(block)
  /\ \A i \in 1 .. d.size : block[at + i] = [doc |-> d, part |-> i]

\* Document i of docs is where builder c says, in its block or in these files.
InPlace(c, bs, cs, docs, i) ==
  \/ c.index[i] = c.numBlocks /\ HoldsAt(c.block, c.intra[i], docs[i])
  \/ c.index[i] < c.numBlocks /\ HoldsAt(ReadBlock(bs, cs, c.index[i]), c.intra[i], docs[i])

\* All of its documents are, and its blocks end below its offset.
Blocked(c, bs, cs, docs) ==
  /\ c.contentOffset <= Len(cs) /\ c.numBlocks <= Len(bs)
  /\ \A x \in 1 .. c.numBlocks : bs[x].offset + bs[x].size <= c.contentOffset
  /\ Len(c.intra) = Len(c.index) /\ Len(c.index) <= Len(docs)
  /\ \A i \in 1 .. Len(c.index) : InPlace(c, bs, cs, docs, i)

\* A writer is within its file, and n is the number of records it ends after.
EndsAt(f, w, n) == w.at <= Len(f) /\ w.at + Len(w.held) = n

\* The memory of the process and the files agree on where documents are.
MemoryInv ==
  /\ EndsAt(content, out.data, b.contentOffset)
  /\ EndsAt(blocks, out.blocks, b.numBlocks)
  /\ Len(b.index) = IF phase = "adding" THEN b.numDocs + 1 ELSE b.numDocs
  /\ Blocked(b, FullBlocks, FullContent, source)
  /\ b.block # <<>> => b.count > 0 \/ phase = "adding"

-----------------------------------------------------------------------------
(***************************************************************************)
(* Keys                                                                    *)
(***************************************************************************)

\* The lines of key k for the first n documents of docs.
Lines(docs, k, n) == {[value |-> docs[d + 1].keys[k], doc |-> d] :
                        d \in {e \in 0 .. n - 1 : k \in DOMAIN docs[e + 1].keys}}

\* The lines f are those, each once.
Keyed(f, docs, k, n) == IsInjective(f) /\ Range(f) = Lines(docs, k, n)

\* The documents of which key k was written.
Done(k) == IF phase = "adding" /\ k \notin todo THEN b.numDocs + 1 ELSE b.numDocs

KeyInv ==
  /\ IsInjective(keyNames)
  /\ \A k \in KeyNames : k \in Range(keyNames) <=> Lines(source, k, Done(k)) # {}
  /\ \A i \in 1 .. Len(keyNames) : turn <= i =>
       /\ keyOut[keyNames[i]].at = Len(keyFile[keyNames[i]])
       /\ Keyed(FullKey(keyNames[i]), source, keyNames[i], Done(keyNames[i]))

-----------------------------------------------------------------------------
(***************************************************************************)
(* Checkpoints                                                             *)
(***************************************************************************)

\* What the checkpoint counts is in the files below the lengths it saves.
Recoverable ==
  /\ Len(ckpt.b.index) = ckpt.b.numDocs
  /\ Blocked(ckpt.b, blocks, content, source)
  /\ ckpt.b.block # <<>> => ckpt.b.count > 0
  /\ IsInjective(ckpt.names)
  /\ \A k \in KeyNames : k \in Range(ckpt.names) <=> Lines(source, k, ckpt.b.numDocs) # {}
  /\ \A i \in 1 .. Len(ckpt.names) :
       /\ ckpt.lengths[i] <= Len(keyFile[ckpt.names[i]])
       /\ Keyed(SubSeq(keyFile[ckpt.names[i]], 1, ckpt.lengths[i]),
                source, ckpt.names[i], ckpt.b.numDocs)

\* The process writes above them.
Above ==
  /\ ckpt.b.contentOffset <= out.data.at /\ ckpt.b.numBlocks <= out.blocks.at
  /\ \A i \in 1 .. Len(ckpt.names) :
       /\ ckpt.names[i] \in Range(keyNames)
       /\ ckpt.lengths[i] <= keyOut[ckpt.names[i]].at

CheckpointInv ==
  /\ Resumes(client) /\ ckpt.state = "complete" /\ ~Publishing =>
       /\ phase # "fresh"
       /\ Recoverable
       /\ phase # "down" => Above
  /\ phase = "ckpt_rename" =>
       /\ out.data.held = <<>> /\ out.blocks.held = <<>>
       /\ \A k \in KeyNames : keyOut[k].held = <<>>

-----------------------------------------------------------------------------
(***************************************************************************)
(* build                                                                   *)
(***************************************************************************)

\* The map of key k leads to each of its documents, and no two have one value.
Mapped(k) ==
  /\ fst[k] = {[zeros |-> 0, value |-> l.value, doc |-> l.doc] : l \in Lines(source, k, b.numDocs)}
  /\ \A l, m \in Lines(source, k, b.numDocs) : l.value = m.value => l = m

Closed == {"build_keys", "build_clean", "built", "failed"}

BuildInv ==
  /\ phase \in {"build_flush", "build_offsets"} \cup Closed =>
       b.numDocs = Len(source) /\ b.block = <<>>
  /\ phase \in {"build_offsets"} \cup Closed => out.data.held = <<>> /\ out.blocks.held = <<>>
  /\ phase \in Closed =>
       /\ offsets = b.index \o b.intra
       /\ \A k \in KeyNames : keyOut[k].held = <<>>
       /\ turn >= 1
  /\ \A i \in 1 .. Len(keyNames) : i < turn => Mapped(keyNames[i])
  /\ phase \in {"build_clean", "built"} =>
       /\ turn > Len(keyNames)
       /\ meta = [state |-> "complete", numDocs |-> b.numDocs, names |-> keyNames]
  /\ RefusedOnlyDuplicates

-----------------------------------------------------------------------------
(***************************************************************************)
(* Types                                                                   *)
(***************************************************************************)

\* What the types rest on: a checkpoint counts documents of the collection and has
\* a length per key file, add has the document after the ones counted, and
\* the index of the loop over key files moves in that loop only.
Timely ==
  /\ ckpt.state = "complete" =>
       ckpt.b.numDocs <= Len(source) /\ Len(ckpt.lengths) = Len(ckpt.names)
  /\ phase = "adding" =>
       b.numDocs < Len(source) /\ todo \subseteq DOMAIN source[b.numDocs + 1].keys
  /\ phase \notin Closed => turn = 0

Typed == TypeOK /\ Timely

\* Its parts, by the variables they are about.
CallerTyped ==
  /\ client \in Callers /\ source \in Seq(Documents)
  /\ losses \in [crashes : 0 .. client.crashes, reopens : 0 .. client.reopens]

FilesTyped ==
  content \in Seq(Chunk) /\ blocks \in Seq(Record) /\ keyFile \in [KeyNames -> Seq(Line)]

BuiltTyped ==
  /\ offsets \in Seq(Nat)
  /\ fst \in [KeyNames -> SUBSET [zeros : Nat, value : KeyValues, doc : Nat]]
  /\ meta \in [state : {"complete"}, numDocs : Nat, names : Seq(KeyNames)] \cup {Absent}

Checkpoint == [state : {"complete"}, b : Builder, names : Seq(KeyNames), lengths : Seq(Nat)]

CkptTyped ==
  /\ ckpt \in Checkpoint \cup {Absent}
  /\ ckpt.state = "complete" =>
       ckpt.b.numDocs <= Len(source) /\ Len(ckpt.lengths) = Len(ckpt.names)

BuilderTyped ==
  /\ freq \in Nat \cup {Manual}
  /\ b \in Builder /\ b.numDocs <= Len(source) /\ last \in 0 .. b.numDocs

Output == [data : Writer(Chunk), blocks : Writer(Record)]

WritersTyped == out \in Output /\ keyOut \in [KeyNames -> Writer(Line)]

ControlTyped ==
  /\ phase \in Phases
  /\ keyNames \in Seq(KeyNames)
  /\ todo \subseteq KeyNames
  /\ turn \in 0 .. Len(keyNames) + 1
  /\ phase = "adding" =>
       b.numDocs < Len(source) /\ todo \subseteq DOMAIN source[b.numDocs + 1].keys
  /\ phase \notin Closed => turn = 0

\* Together they are Typed.
LEMMA TypeParts ==
  Typed <=> /\ CallerTyped /\ FilesTyped /\ BuiltTyped /\ CkptTyped
            /\ BuilderTyped /\ WritersTyped /\ ControlTyped
BY Zenon DEF Typed, TypeOK, Timely, CallerTyped, FilesTyped, BuiltTyped, CkptTyped, BuilderTyped,
   WritersTyped, ControlTyped, Checkpoint, Output

\* A step that leaves the variables of a part alone keeps it.
LEMMA Frames ==
  ASSUME Typed
  PROVE  /\ UNCHANGED caller => CallerTyped'
         /\ UNCHANGED <<content, blocks, keyFile>> => FilesTyped'
         /\ UNCHANGED built => BuiltTyped'
         /\ UNCHANGED <<source, ckpt>> => CkptTyped'
         /\ UNCHANGED <<source, freq, b, last>> => BuilderTyped'
         /\ UNCHANGED <<out, keyOut>> => WritersTyped'
<1>1. /\ CallerTyped /\ FilesTyped /\ BuiltTyped /\ CkptTyped
      /\ BuilderTyped /\ WritersTyped
  BY TypeParts
<1>2. UNCHANGED caller => CallerTyped'
  BY <1>1 DEF CallerTyped, caller
<1>3. UNCHANGED <<content, blocks, keyFile>> => FilesTyped'
  BY <1>1 DEF FilesTyped
<1>4. UNCHANGED built => BuiltTyped'
  BY <1>1 DEF BuiltTyped, built
<1>5. UNCHANGED <<source, ckpt>> => CkptTyped'
  BY <1>1 DEF CkptTyped
<1>6. UNCHANGED <<source, freq, b, last>> => BuilderTyped'
  BY <1>1 DEF BuilderTyped
<1>7. UNCHANGED <<out, keyOut>> => WritersTyped'
  BY <1>1 DEF WritersTyped
<1>. QED
  BY <1>2, <1>3, <1>4, <1>5, <1>6, <1>7

\* A document has a size, and values for some of the key fields.
LEMMA DocumentIs ==
  ASSUME NEW d \in Documents
  PROVE  /\ d.size \in Nat /\ d.size > 0
         /\ DOMAIN d.keys \subseteq KeyNames
         /\ \A k \in DOMAIN d.keys : d.keys[k] \in KeyValues
<1>1. /\ d.size \in Nat \ {0}
      /\ d.keys \in UNION {[K -> KeyValues] : K \in SUBSET KeyNames}
  BY DocStoreAssumption
<1>2. PICK K \in SUBSET KeyNames : d.keys \in [K -> KeyValues]
  BY <1>1
<1>. QED
  BY <1>1, <1>2

\* What reads as zeros are records.
LEMMA ZerosTyped == NoChunk \in Chunk /\ NoBlock \in Record /\ NoLine \in Line
<1>1. <<>> \in DocBlock
  BY DEF DocBlock
<1>. QED
  BY <1>1 DEF NoChunk, Chunk, NoBlock, Record, NoLine, Line

\* The units of a document, and the chunks of a block.
LEMMA EncodeIs ==
  ASSUME NEW d \in Documents
  PROVE  /\ Encode(d) \in DocBlock /\ Len(Encode(d)) = d.size
         /\ \A i \in 1 .. d.size : Encode(d)[i] = [doc |-> d, part |-> i]
<1>1. d.size \in Nat
  BY DocumentIs
<1>2. Encode(d) \in [1 .. d.size -> [doc : Documents, part : Nat]]
  BY <1>1 DEF Encode
<1>3. Encode(d) \in Seq([doc : Documents, part : Nat]) /\ Len(Encode(d)) = d.size
  BY <1>1, <1>2, FunctionSequence
<1>. QED
  BY <1>3 DEF Encode, DocBlock

\* A block of n chunks compresses to its n parts, in order.
LEMMA CompressIs ==
  ASSUME NEW block \in DocBlock, NEW n \in Nat
  PROVE  /\ Compress(block, n) \in Seq(Chunk) /\ Len(Compress(block, n)) = n
         /\ \A i \in 1 .. n : Compress(block, n)[i] = [block |-> block, part |-> i, parts |-> n]
<1>1. Compress(block, n) \in [1 .. n -> Chunk]
  BY DEF Compress, Chunk
<1>2. Compress(block, n) \in Seq(Chunk) /\ Len(Compress(block, n)) = n
  BY <1>1, FunctionSequence
<1>. QED
  BY <1>2 DEF Compress

\* The fields of a builder.
LEMMA BuilderIs ==
  ASSUME NEW c
  PROVE  c \in Builder <=>
           /\ c = [numBlocks |-> c.numBlocks, numDocs |-> c.numDocs,
                   contentOffset |-> c.contentOffset,
                   index |-> c.index, intra |-> c.intra, block |-> c.block, count |-> c.count]
           /\ c.numBlocks \in Nat /\ c.numDocs \in Nat /\ c.contentOffset \in Nat
           /\ c.index \in Seq(Nat) /\ c.intra \in Seq(Nat) /\ c.block \in DocBlock /\ c.count \in Nat
BY DEF Builder

\* flush_block keeps the types and the number of documents.
LEMMA FlushBlockTyped ==
  ASSUME NEW c \in Builder, NEW o \in Output, FlushBlock(c, o)
  PROVE  b' \in Builder /\ out' \in Output /\ b'.numDocs = c.numDocs
<1>1. CASE c.block = <<>>
  BY <1>1 DEF FlushBlock
<1>2. CASE c.block # <<>>
  <2> DEFINE chunks == Compress(c.block, c.count)
             meta1 == [offset |-> c.contentOffset, size |-> Len(chunks), docs |-> c.count]
  <2>1. c.block \in DocBlock /\ c.count \in Nat /\ c.numDocs \in Nat /\ c.numBlocks \in Nat
        /\ c.contentOffset \in Nat /\ c.index \in Seq(Nat) /\ c.intra \in Seq(Nat)
    BY DEF Builder
  <2>2. chunks \in Seq(Chunk) /\ Len(chunks) = c.count
    BY <2>1, CompressIs
  <2>3. /\ out' = [data |-> Put(o.data, chunks), blocks |-> Put(o.blocks, <<meta1>>)]
        /\ b' = [numBlocks |-> c.numBlocks + 1, numDocs |-> c.numDocs,
                 contentOffset |-> c.contentOffset + Len(chunks),
                 index |-> c.index, intra |-> c.intra, block |-> <<>>, count |-> 0]
    BY <1>2 DEF FlushBlock
  <2> HIDE DEF chunks
  <2>4. <<>> \in DocBlock
    BY DEF DocBlock
  <2>5. b' \in Builder /\ b'.numDocs = c.numDocs
    BY <2>1, <2>2, <2>3, <2>4 DEF Builder
  <2>6. <<meta1>> \in Seq(Record)
    BY <2>1, <2>2 DEF Record
  <2>7. o.data \in Writer(Chunk) /\ o.blocks \in Writer(Record)
    BY DEF Output
  <2> HIDE DEF meta1
  <2>8. Put(o.data, chunks) \in Writer(Chunk)
    BY <2>2, <2>7 DEF Writer, Put
  <2>9. Put(o.blocks, <<meta1>>) \in Writer(Record)
    BY <2>6, <2>7 DEF Writer, Put
  <2>. QED
    BY <2>3, <2>5, <2>8, <2>9 DEF Output
<1>. QED
  BY <1>1, <1>2

\* The lengths a checkpoint saves belong to the names it saves.
LEMMA SavedLengthIs ==
  ASSUME Typed, ckpt.state = "complete"
  PROVE  /\ ckpt \in Checkpoint /\ Len(ckpt.lengths) = Len(ckpt.names)
         /\ \A k \in Range(ckpt.names) : SavedLength(k) \in Nat
         /\ IsInjective(ckpt.names) =>
              \A i \in 1 .. Len(ckpt.names) : SavedLength(ckpt.names[i]) = ckpt.lengths[i]
<1>1. ckpt \in Checkpoint /\ Len(ckpt.lengths) = Len(ckpt.names)
  BY TypeParts DEF CkptTyped, Absent
<1>2. ckpt.names \in Seq(KeyNames) /\ ckpt.lengths \in Seq(Nat)
  BY <1>1 DEF Checkpoint
<1>3. ASSUME NEW k \in Range(ckpt.names)
      PROVE  /\ (CHOOSE i \in 1 .. Len(ckpt.names) : ckpt.names[i] = k) \in 1 .. Len(ckpt.names)
             /\ ckpt.names[CHOOSE i \in 1 .. Len(ckpt.names) : ckpt.names[i] = k] = k
  <2>1. \E i \in 1 .. Len(ckpt.names) : ckpt.names[i] = k
    BY <1>2, <1>3 DEF Range
  <2>. QED
    BY <2>1
<1>4. ASSUME NEW k \in Range(ckpt.names)
      PROVE  SavedLength(k) \in Nat
  <2> DEFINE i == CHOOSE i \in 1 .. Len(ckpt.names) : ckpt.names[i] = k
  <2>1. i \in 1 .. Len(ckpt.names)
    BY <1>3
  <2> HIDE DEF i
  <2>2. ckpt.lengths[i] \in Nat
    BY <1>1, <1>2, <2>1
  <2>. QED
    BY <2>2 DEF SavedLength, i
<1>5. ASSUME IsInjective(ckpt.names), NEW j \in 1 .. Len(ckpt.names)
      PROVE  SavedLength(ckpt.names[j]) = ckpt.lengths[j]
  <2> DEFINE k == ckpt.names[j]
             i == CHOOSE i \in 1 .. Len(ckpt.names) : ckpt.names[i] = k
  <2>1. k \in Range(ckpt.names)
    BY <1>2, <1>5 DEF Range
  <2>2. i \in 1 .. Len(ckpt.names) /\ ckpt.names[i] = k
    BY <1>3, <2>1
  <2>3. SavedLength(k) = ckpt.lengths[i]
    BY DEF SavedLength
  <2> HIDE DEF i
  <2>4. i = j
    BY <1>2, <1>5, <2>2 DEF IsInjective
  <2>. QED
    BY <2>3, <2>4
<1>. QED
  BY <1>1, <1>4, <1>5

\* Resuming reads a builder from the checkpoint and cuts the files.
LEMMA ResumeTyped ==
  ASSUME Typed, ckpt.state = "complete", ResumeBuilder
  PROVE  /\ Rewound.content \in Seq(Chunk) /\ Rewound.blocks \in Seq(Record)
         /\ Rewound.keyFile \in [KeyNames -> Seq(Line)]
         /\ b' \in Builder /\ b'.numDocs <= Len(source) /\ last' \in 0 .. b'.numDocs
         /\ keyNames' \in Seq(KeyNames) /\ WritersTyped'
<1>1. /\ ckpt.b \in Builder /\ ckpt.names \in Seq(KeyNames)
      /\ ckpt.b.numDocs <= Len(source) /\ \A k \in Range(ckpt.names) : SavedLength(k) \in Nat
  BY SavedLengthIs, TypeParts DEF Checkpoint, CkptTyped
<1>2. ckpt.b.numBlocks \in Nat /\ ckpt.b.contentOffset \in Nat /\ ckpt.b.numDocs \in Nat
  BY <1>1, BuilderIs
<1>3. content \in Seq(Chunk) /\ blocks \in Seq(Record) /\ keyFile \in [KeyNames -> Seq(Line)]
  BY TypeParts DEF FilesTyped
<1>4. Rewound.content \in Seq(Chunk) /\ Rewound.blocks \in Seq(Record)
  BY <1>2, <1>3, SetLenIs, ZerosTyped DEF Rewound
<1>5. \A k \in Range(ckpt.names), f \in Seq(Line) : SetLen(f, SavedLength(k), NoLine) \in Seq(Line)
  BY <1>1, SetLenIs, ZerosTyped
<1>6. Rewound.keyFile \in [KeyNames -> Seq(Line)]
  BY <1>3, <1>5 DEF Rewound
<1>7. /\ WriterAt(ckpt.b.contentOffset) \in Writer(Chunk)
      /\ WriterAt(ckpt.b.numBlocks) \in Writer(Record)
      /\ \A k \in Range(ckpt.names) : WriterAt(SavedLength(k)) \in Writer(Line)
      /\ Nothing \in Writer(Line)
  <2>1. \A n \in Nat : WriterAt(n) \in Writer(Chunk)
    BY DEF WriterAt, Writer
  <2>2. \A n \in Nat : WriterAt(n) \in Writer(Record)
    BY DEF WriterAt, Writer
  <2>3. \A n \in Nat : WriterAt(n) \in Writer(Line)
    BY DEF WriterAt, Writer
  <2>4. Nothing \in Writer(Line)
    BY DEF Nothing, Writer
  <2>. QED
    BY <1>1, <1>2, <2>1, <2>2, <2>3, <2>4
<1>8. out' \in Output /\ keyOut' \in [KeyNames -> Writer(Line)]
  BY <1>7 DEF ResumeBuilder, Output
<1>9. b' = ckpt.b /\ last' = ckpt.b.numDocs /\ keyNames' = ckpt.names
  BY DEF ResumeBuilder
<1>. QED
  BY <1>1, <1>2, <1>4, <1>6, <1>8, <1>9 DEF WritersTyped

\* A builder that holds nothing.
LEMMA FreshTyped ==
  ASSUME Typed, FreshBuilder
  PROVE  /\ b' \in Builder /\ b'.numDocs <= Len(source) /\ last' \in 0 .. b'.numDocs
         /\ keyNames' \in Seq(KeyNames) /\ WritersTyped'
<1>1. NewBuilder \in Builder /\ NewBuilder.numDocs = 0
  BY DEF NewBuilder, Builder, DocBlock
<1>2. Nothing \in Writer(Chunk) /\ Nothing \in Writer(Record) /\ Nothing \in Writer(Line)
  BY DEF Nothing, Writer
<1>3. NewOut \in Output /\ NewKeyOut \in [KeyNames -> Writer(Line)]
  BY <1>2 DEF NewOut, NewKeyOut, Output
<1>4. Len(source) \in Nat
  BY TypeParts DEF CallerTyped
<1>. QED
  BY <1>1, <1>3, <1>4 DEF FreshBuilder, WritersTyped

\* The initial state has the types.
LEMMA TypedInit == Init => Typed
<1> SUFFICES ASSUME Init PROVE Typed
  OBVIOUS
<1>1. client \in Caller
  BY DocStoreAssumption DEF Init
<1>2. client.crashes \in Nat /\ client.reopens \in Nat
  BY <1>1 DEF Caller
<1>3. CallerTyped
  BY <1>2 DEF Init, CallerTyped
<1>4. FilesTyped /\ BuiltTyped
  BY DEF Init, FilesTyped, BuiltTyped
<1>5. CkptTyped
  BY DEF Init, CkptTyped, Absent
<1>6. NewBuilder \in Builder /\ NewBuilder.numDocs = 0
  BY DEF NewBuilder, Builder, DocBlock
<1>7. BuilderTyped
  BY <1>6 DEF Init, BuilderTyped
<1>8. Nothing \in Writer(Chunk) /\ Nothing \in Writer(Record) /\ Nothing \in Writer(Line)
  BY DEF Nothing, Writer
<1>9. WritersTyped
  BY <1>8 DEF Init, WritersTyped, NewOut, NewKeyOut, Output
<1>10. ControlTyped
  <2>1. phase = "down" /\ keyNames = <<>> /\ todo = {} /\ turn = 0
    BY DEF Init
  <2>. QED
    BY <2>1 DEF ControlTyped, Phases
<1>. QED
  BY <1>3, <1>4, <1>5, <1>7, <1>9, <1>10, TypeParts, Zenon

\* What is read from a key file is numbers and values.
LEMMA EntriesTyped ==
  ASSUME NEW f \in Seq(Line)
  PROVE  {[zeros |-> e.zeros, value |-> e.value, doc |-> e.doc] : e \in Entries(f)}
           \subseteq [zeros : Nat, value : KeyValues, doc : Nat]
<1> SUFFICES ASSUME NEW e \in Entries(f)
             PROVE  e.zeros \in Nat /\ e.value \in KeyValues /\ e.doc \in Nat
  OBVIOUS
<1>1. PICK i \in {j \in 1 .. Len(f) : f[j] # NoLine} :
        e = [zeros |-> ZerosBefore(f, i), value |-> f[i].value, doc |-> f[i].doc, line |-> i]
  BY DEF Entries
<1>2. f[i] \in [value : KeyValues, doc : Nat]
  BY <1>1 DEF Line
<1> DEFINE Z == {j \in 1 .. i - 1 : \A l \in j .. i - 1 : f[l] = NoLine}
<1>3. IsFiniteSet(1 .. i - 1)
  BY <1>1, FS_Interval
<1>4. IsFiniteSet(Z)
  BY <1>3, FS_Subset
<1>5. ZerosBefore(f, i) \in Nat
  BY <1>4, FS_CardinalityType DEF ZerosBefore
<1>. QED
  BY <1>1, <1>2, <1>5

\* Every step keeps the types.
LEMMA TypedStep == Typed /\ [Next]_vars => Typed'
<1> SUFFICES ASSUME Typed, [Next]_vars PROVE Typed'
  OBVIOUS
<1> USE DEF vars
<1>1. /\ CallerTyped /\ FilesTyped /\ BuiltTyped /\ CkptTyped
      /\ BuilderTyped /\ WritersTyped /\ ControlTyped
  BY TypeParts
<1>2. Len(source) \in Nat /\ b \in Builder /\ b.numDocs \in Nat /\ b.numDocs <= Len(source)
      /\ last \in Nat /\ last <= b.numDocs
  BY <1>1, BuilderIs DEF CallerTyped, BuilderTyped
<1>3. client \in Caller
  BY <1>1, DocStoreAssumption DEF CallerTyped
<1>4. \A f \in client.frequencies : f \in Nat \cup {Manual}
  BY <1>3 DEF Caller
<1>5. SUFFICES /\ CallerTyped' /\ FilesTyped' /\ BuiltTyped' /\ CkptTyped'
               /\ BuilderTyped' /\ WritersTyped' /\ ControlTyped'
  <2>1. Typed' <=> /\ CallerTyped' /\ FilesTyped' /\ BuiltTyped' /\ CkptTyped'
                   /\ BuilderTyped' /\ WritersTyped' /\ ControlTyped'
    BY TypeParts, PTL
  <2>. QED
    BY <1>5, <2>1
<1>6. keyNames \in Seq(KeyNames) /\ Len(keyNames) \in Nat /\ todo \subseteq KeyNames
      /\ turn \in Nat /\ turn <= Len(keyNames) + 1
  BY <1>1 DEF ControlTyped
<1>7. content \in Seq(Chunk) /\ blocks \in Seq(Record) /\ keyFile \in [KeyNames -> Seq(Line)]
  BY <1>1 DEF FilesTyped
<1>8. out \in Output /\ out.data \in Writer(Chunk) /\ out.blocks \in Writer(Record)
      /\ keyOut \in [KeyNames -> Writer(Line)]
  BY <1>1 DEF WritersTyped, Output
<1>9. /\ Flushed(content, out.data, NoChunk) \in Seq(Chunk)
      /\ Flushed(blocks, out.blocks, NoBlock) \in Seq(Record)
      /\ [k \in KeyNames |-> Flushed(keyFile[k], keyOut[k], NoLine)] \in [KeyNames -> Seq(Line)]
      /\ [data |-> Emptied(out.data), blocks |-> Emptied(out.blocks)] \in Output
      /\ [k \in KeyNames |-> Emptied(keyOut[k])] \in [KeyNames -> Writer(Line)]
  <2>1. \A S : \A f \in Seq(S), w \in Writer(S), zero \in S :
          Flushed(f, w, zero) \in Seq(S) /\ Emptied(w) \in Writer(S)
    <3> TAKE S
    <3> TAKE f \in Seq(S), w \in Writer(S), zero \in S
    <3>1. 0 \in 0 .. Len(w.held)
      BY DEF Writer
    <3>. QED
      BY <3>1, WriterTypes
  <2>2. /\ Flushed(content, out.data, NoChunk) \in Seq(Chunk) /\ Emptied(out.data) \in Writer(Chunk)
        /\ Flushed(blocks, out.blocks, NoBlock) \in Seq(Record)
        /\ Emptied(out.blocks) \in Writer(Record)
    BY <1>7, <1>8, <2>1, ZerosTyped
  <2>3. \A k \in KeyNames : /\ keyFile[k] \in Seq(Line) /\ keyOut[k] \in Writer(Line)
    BY <1>7, <1>8
  <2>4. \A k \in KeyNames : /\ Flushed(keyFile[k], keyOut[k], NoLine) \in Seq(Line)
                            /\ Emptied(keyOut[k]) \in Writer(Line)
    BY <2>1, <2>3, ZerosTyped
  <2>. QED
    BY <2>2, <2>4 DEF Output
<1>10. ASSUME NEW f \in client.frequencies, StartResume(f)
       PROVE  /\ CallerTyped' /\ FilesTyped' /\ BuiltTyped' /\ CkptTyped'
              /\ BuilderTyped' /\ WritersTyped' /\ ControlTyped'
  <2>1. /\ ckpt.state = "complete" /\ ResumeBuilder /\ phase = "down" /\ phase' = "idle"
        /\ freq' = f
        /\ content' = Rewound.content /\ blocks' = Rewound.blocks /\ keyFile' = Rewound.keyFile
        /\ UNCHANGED <<caller, built, ckpt, source, todo, turn>>
    BY <1>10 DEF StartResume, Recovering, caller
  <2>2. FilesTyped' /\ WritersTyped'
    BY <2>1, ResumeTyped DEF FilesTyped
  <2>3. BuilderTyped'
    BY <1>4, <2>1, ResumeTyped DEF BuilderTyped
  <2>4. turn = 0
    BY <1>1, <2>1 DEF ControlTyped, Closed
  <2>5. ControlTyped'
    <3>1. keyNames' \in Seq(KeyNames)
      BY <2>1, ResumeTyped
    <3>. QED
      BY <1>6, <2>1, <2>4, <3>1 DEF ControlTyped, Phases
  <2>. QED
    BY <2>1, <2>2, <2>3, <2>5, Frames
<1>11. ASSUME NEW f \in client.frequencies, StartFresh(f)
       PROVE  /\ CallerTyped' /\ FilesTyped' /\ BuiltTyped' /\ CkptTyped'
              /\ BuilderTyped' /\ WritersTyped' /\ ControlTyped'
  <2>1. /\ FreshBuilder /\ phase = "down" /\ phase' = "fresh" /\ freq' = f
        /\ content' = <<>> /\ blocks' = <<>> /\ keyFile' = keyFile
        /\ UNCHANGED <<caller, built, ckpt, source, todo, turn>>
    BY <1>11 DEF StartFresh, caller
  <2>2. FilesTyped'
    BY <1>7, <2>1 DEF FilesTyped
  <2>3. BuilderTyped' /\ WritersTyped'
    BY <1>4, <2>1, FreshTyped DEF BuilderTyped
  <2>4. turn = 0
    BY <1>1, <2>1 DEF ControlTyped, Closed
  <2>5. ControlTyped'
    <3>1. keyNames' \in Seq(KeyNames)
      BY <2>1, FreshTyped
    <3>. QED
      BY <1>6, <2>1, <2>4, <3>1 DEF ControlTyped, Phases
  <2>. QED
    BY <2>1, <2>2, <2>3, <2>5, Frames
<1>12. ASSUME NEW f \in client.frequencies, Reopen(f)
       PROVE  /\ CallerTyped' /\ FilesTyped' /\ BuiltTyped' /\ CkptTyped'
              /\ BuilderTyped' /\ WritersTyped' /\ ControlTyped'
  <2>1. /\ phase = "idle" /\ phase' = "idle" /\ freq' = f
        /\ losses.reopens < client.reopens
        /\ losses' = [crashes |-> losses.crashes, reopens |-> losses.reopens + 1]
        /\ UNCHANGED <<client, source, built, todo, turn>>
    BY <1>12 DEF Reopen
  <2>2. CallerTyped'
    BY <1>1, <1>3, <2>1 DEF CallerTyped, Caller
  <2>3. \/ ckpt.state = "complete" /\ ResumeBuilder /\ UNCHANGED ckpt
        \/ FreshBuilder /\ ckpt' = Absent
    BY <1>12 DEF Reopen, Recovering
  <2>4. BuilderTyped' /\ WritersTyped' /\ keyNames' \in Seq(KeyNames)
    BY <1>4, <2>1, <2>3, ResumeTyped, FreshTyped DEF BuilderTyped
  <2>5. ControlTyped'
    <3>1. turn = 0
      BY <1>1, <2>1 DEF ControlTyped, Closed
    <3>. QED
      BY <1>6, <2>1, <2>4, <3>1 DEF ControlTyped, Phases
  <2>6. CkptTyped'
    BY <1>1, <2>1, <2>3 DEF CkptTyped, Absent
  <2> DEFINE opened == IF Recovering(f) THEN Rewound
                       ELSE [content |-> <<>>, blocks |-> <<>>, keyFile |-> keyFile]
  <2>7. opened.content \in Seq(Chunk) /\ opened.blocks \in Seq(Record)
        /\ opened.keyFile \in [KeyNames -> Seq(Line)]
    <3>1. CASE Recovering(f)
      <4>1. ckpt.state = "complete" /\ ResumeBuilder
        BY <1>12, <3>1 DEF Reopen, Recovering
      <4>. QED
        BY <3>1, <4>1, ResumeTyped
    <3>2. CASE ~Recovering(f)
      BY <1>7, <3>2
    <3>. QED
      BY <3>1, <3>2
  <2>8. /\ content' = Flushed(opened.content, out.data, NoChunk)
        /\ blocks' = Flushed(opened.blocks, out.blocks, NoBlock)
        /\ keyFile' = [k \in KeyNames |-> Flushed(opened.keyFile[k], keyOut[k], NoLine)]
    BY <1>12 DEF Reopen
  <2> HIDE DEF opened
  <2>9. \A S : \A g \in Seq(S), w \in Writer(S), zero \in S : Flushed(g, w, zero) \in Seq(S)
    <3> TAKE S
    <3> TAKE g \in Seq(S), w \in Writer(S), zero \in S
    <3>1. 0 \in 0 .. Len(w.held)
      BY DEF Writer
    <3>. QED
      BY <3>1, WriterTypes
  <2>10. content' \in Seq(Chunk) /\ blocks' \in Seq(Record)
    BY <1>8, <2>7, <2>8, <2>9, ZerosTyped
  <2>11. \A k \in KeyNames : Flushed(opened.keyFile[k], keyOut[k], NoLine) \in Seq(Line)
    <3> TAKE k \in KeyNames
    <3>1. opened.keyFile[k] \in Seq(Line) /\ keyOut[k] \in Writer(Line)
      BY <1>8, <2>7
    <3>. QED
      BY <2>9, <3>1, ZerosTyped
  <2>12. FilesTyped'
    BY <2>8, <2>10, <2>11 DEF FilesTyped
  <2>. QED
    BY <2>1, <2>2, <2>4, <2>5, <2>6, <2>12, Frames
<1>13. CASE FreshClean
  <2>1. /\ phase = "fresh" /\ phase' = "idle" /\ ckpt' = Absent
        /\ UNCHANGED <<caller, source, content, blocks, keyFile, built, freq, b, last, keyNames,
                       out, keyOut, todo, turn>>
    BY <1>13 DEF FreshClean, memory, caller
  <2>2. ControlTyped'
    BY <1>1, <2>1 DEF ControlTyped, Closed, Phases
  <2>3. CkptTyped'
    BY <2>1 DEF CkptTyped, Absent
  <2>. QED
    BY <2>1, <2>2, <2>3, Frames
<1>14. ASSUME NEW n \in 1 .. Len(out.data.held), SpillContent(n)
       PROVE  /\ CallerTyped' /\ FilesTyped' /\ BuiltTyped' /\ CkptTyped'
              /\ BuilderTyped' /\ WritersTyped' /\ ControlTyped'
  <2>1. /\ content' = Received(content, out.data, n, NoChunk)
        /\ out' = [data |-> HandedOver(out.data, n), blocks |-> out.blocks]
        /\ UNCHANGED <<caller, source, blocks, keyFile, built, ckpt, phase, freq, b, last, keyNames,
                       keyOut, todo, turn>>
    BY <1>14 DEF SpillContent, caller
  <2>2. n \in 0 .. Len(out.data.held)
    BY <1>8 DEF Writer
  <2>3. content' \in Seq(Chunk) /\ HandedOver(out.data, n) \in Writer(Chunk)
    BY <1>7, <1>8, <2>1, <2>2, WriterTypes, ZerosTyped
  <2>4. FilesTyped' /\ WritersTyped'
    BY <1>7, <1>8, <2>1, <2>3 DEF FilesTyped, WritersTyped, Output
  <2>5. ControlTyped'
    BY <1>1, <2>1 DEF ControlTyped
  <2>. QED
    BY <2>1, <2>4, <2>5, Frames
<1>15. ASSUME NEW n \in 1 .. Len(out.blocks.held), SpillBlocks(n)
       PROVE  /\ CallerTyped' /\ FilesTyped' /\ BuiltTyped' /\ CkptTyped'
              /\ BuilderTyped' /\ WritersTyped' /\ ControlTyped'
  <2>1. /\ blocks' = Received(blocks, out.blocks, n, NoBlock)
        /\ out' = [data |-> out.data, blocks |-> HandedOver(out.blocks, n)]
        /\ UNCHANGED <<caller, source, content, keyFile, built, ckpt, phase, freq, b, last,
                       keyNames, keyOut, todo, turn>>
    BY <1>15 DEF SpillBlocks, caller
  <2>2. n \in 0 .. Len(out.blocks.held)
    BY <1>8 DEF Writer
  <2>3. blocks' \in Seq(Record) /\ HandedOver(out.blocks, n) \in Writer(Record)
    BY <1>7, <1>8, <2>1, <2>2, WriterTypes, ZerosTyped
  <2>4. FilesTyped' /\ WritersTyped'
    BY <1>7, <1>8, <2>1, <2>3 DEF FilesTyped, WritersTyped, Output
  <2>5. ControlTyped'
    BY <1>1, <2>1 DEF ControlTyped
  <2>. QED
    BY <2>1, <2>4, <2>5, Frames
<1>16. ASSUME NEW k \in KeyNames, NEW n \in 1 .. Len(keyOut[k].held), SpillKey(k, n)
       PROVE  /\ CallerTyped' /\ FilesTyped' /\ BuiltTyped' /\ CkptTyped'
              /\ BuilderTyped' /\ WritersTyped' /\ ControlTyped'
  <2>1. /\ keyFile' = [keyFile EXCEPT ![k] = Received(keyFile[k], keyOut[k], n, NoLine)]
        /\ keyOut' = [keyOut EXCEPT ![k] = HandedOver(keyOut[k], n)]
        /\ UNCHANGED <<caller, source, content, blocks, built, ckpt, phase, freq, b, last, keyNames,
                       out, todo, turn>>
    BY <1>16 DEF SpillKey, caller
  <2>2. keyFile[k] \in Seq(Line) /\ keyOut[k] \in Writer(Line)
    BY <1>7, <1>8
  <2>3. n \in 0 .. Len(keyOut[k].held)
    BY <2>2 DEF Writer
  <2>4. /\ Received(keyFile[k], keyOut[k], n, NoLine) \in Seq(Line)
        /\ HandedOver(keyOut[k], n) \in Writer(Line)
    BY <2>2, <2>3, WriterTypes, ZerosTyped
  <2>5. FilesTyped'
    BY <1>7, <2>1, <2>4 DEF FilesTyped
  <2>6. WritersTyped'
    BY <1>8, <2>1, <2>4 DEF WritersTyped
  <2>7. ControlTyped'
    BY <1>1, <2>1 DEF ControlTyped
  <2>. QED
    BY <2>1, <2>5, <2>6, <2>7, Frames
<1>17. ASSUME NEW d \in Documents, BeginAdd(d)
       PROVE  /\ CallerTyped' /\ FilesTyped' /\ BuiltTyped' /\ CkptTyped'
              /\ BuilderTyped' /\ WritersTyped' /\ ControlTyped'
  <2>1. /\ phase = "idle" /\ phase' = "adding" /\ todo' = DOMAIN d.keys
        /\ b' = [numBlocks |-> b.numBlocks, numDocs |-> b.numDocs,
                 contentOffset |-> b.contentOffset,
                 index |-> Append(b.index, b.numBlocks), intra |-> Append(b.intra, Len(b.block)),
                 block |-> b.block \o Encode(d), count |-> b.count]
        /\ UNCHANGED <<client, losses, content, blocks, keyFile, built, ckpt, freq, last, keyNames,
                       out, keyOut, turn>>
    BY <1>17 DEF BeginAdd, disk
  <2>2. /\ source' \in Seq(Documents) /\ Len(source) <= Len(source')
        /\ b.numDocs < Len(source') /\ source'[b.numDocs + 1] = d
    <3>1. CASE b.numDocs < Len(source)
      BY <1>1, <1>17, <3>1 DEF BeginAdd, CallerTyped
    <3>2. CASE ~(b.numDocs < Len(source))
      <4>1. source' = Append(source, d) /\ b.numDocs = Len(source)
        BY <1>2, <1>17, <3>2 DEF BeginAdd
      <4>2. source \in Seq(Documents)
        BY <1>1 DEF CallerTyped
      <4>. QED
        BY <4>1, <4>2
    <3>. QED
      BY <3>1, <3>2
  <2>3. Len(source') \in Nat
    BY <2>2
  <2>4. CallerTyped'
    BY <1>1, <2>1, <2>2 DEF CallerTyped
  <2>5. FilesTyped' /\ BuiltTyped' /\ WritersTyped'
    BY <2>1, Frames
  <2>6. CkptTyped'
    <3>1. ckpt \in Checkpoint => ckpt.b.numDocs \in Nat
      BY DEF Checkpoint, Builder
    <3>2. ckpt.state = "complete" => ckpt \in Checkpoint
      BY <1>1 DEF CkptTyped, Absent
    <3>. QED
      BY <1>1, <1>2, <2>1, <2>2, <2>3, <3>1, <3>2 DEF CkptTyped
  <2>7. b' \in Builder /\ b'.numDocs = b.numDocs
    <3>1. b.block \in DocBlock /\ b.count \in Nat /\ b.numBlocks \in Nat
          /\ b.contentOffset \in Nat /\ b.index \in Seq(Nat) /\ b.intra \in Seq(Nat)
      BY <1>2, BuilderIs
    <3>2. Len(b.block) \in Nat /\ b.block \o Encode(d) \in DocBlock
      <4>1. \A T : \A s \in Seq(T), t \in Seq(T) : Len(s) \in Nat /\ s \o t \in Seq(T)
        OBVIOUS
      <4>. QED
        BY <3>1, <4>1, EncodeIs, Zenon DEF DocBlock
    <3>3. Append(b.index, b.numBlocks) \in Seq(Nat) /\ Append(b.intra, Len(b.block)) \in Seq(Nat)
      BY <3>1, <3>2
    <3>. QED
      BY <1>2, <2>1, <3>1, <3>2, <3>3 DEF Builder
  <2>8. BuilderTyped'
    <3>1. b'.numDocs <= Len(source') /\ last' \in 0 .. b'.numDocs
      BY <1>2, <2>1, <2>2, <2>3, <2>7
    <3>2. freq' \in Nat \cup {Manual}
      BY <1>1, <2>1 DEF BuilderTyped
    <3>. QED
      BY <2>7, <3>1, <3>2 DEF BuilderTyped
  <2>9. ControlTyped'
    <3>1. todo' \subseteq KeyNames
      BY <2>1, DocumentIs
    <3>2. turn = 0
      BY <1>1, <2>1 DEF ControlTyped, Closed
    <3>. QED
      BY <1>6, <2>1, <2>2, <2>7, <3>1, <3>2 DEF ControlTyped, Phases
  <2>. QED
    BY <2>4, <2>5, <2>6, <2>8, <2>9
<1>18. ASSUME NEW k \in KeyNames, AddKey(k)
       PROVE  /\ CallerTyped' /\ FilesTyped' /\ BuiltTyped' /\ CkptTyped'
              /\ BuilderTyped' /\ WritersTyped' /\ ControlTyped'
  <2> DEFINE line == [value |-> source[b.numDocs + 1].keys[k], doc |-> b.numDocs]
  <2>1. /\ phase = "adding" /\ k \in todo /\ todo' = todo \ {k}
        /\ UNCHANGED <<caller, source, content, blocks, built, ckpt, phase, freq, b, last, out,
                       turn>>
    BY <1>18 DEF AddKey, caller
  <2>2. \/ /\ keyOut' = [keyOut EXCEPT ![k] = Put(keyOut[k], <<line>>)]
           /\ UNCHANGED <<keyFile, keyNames>>
        \/ /\ keyFile' = [keyFile EXCEPT ![k] = <<>>]
           /\ keyNames' = Append(keyNames, k)
           /\ keyOut' = [keyOut EXCEPT ![k] = Put(Nothing, <<line>>)]
    BY <1>18 DEF AddKey
  <2>3. /\ b.numDocs < Len(source) /\ todo \subseteq DOMAIN source[b.numDocs + 1].keys
        /\ turn = 0
    BY <1>1, <2>1 DEF ControlTyped, Closed
  <2>4. source[b.numDocs + 1] \in Documents
    BY <1>1, <1>2, <2>3 DEF CallerTyped
  <2>5. source[b.numDocs + 1].keys[k] \in KeyValues
    BY <2>1, <2>3, <2>4, DocumentIs
  <2>6. line \in Line
    BY <1>2, <2>5 DEF Line
  <2> HIDE DEF line
  <2>7. <<line>> \in Seq(Line)
    BY <2>6
  <2>8. Put(keyOut[k], <<line>>) \in Writer(Line) /\ Put(Nothing, <<line>>) \in Writer(Line)
    <3>1. keyOut[k] \in Writer(Line) /\ Nothing \in Writer(Line)
      BY <1>8 DEF Nothing, Writer
    <3>. QED
      BY <2>7, <3>1 DEF Put, Writer
  <2>9. FilesTyped'
    <3>1. keyFile' \in {keyFile, [keyFile EXCEPT ![k] = <<>>]} /\ <<>> \in Seq(Line)
      BY <2>2
    <3>2. keyFile' \in [KeyNames -> Seq(Line)]
      BY <1>7, <3>1
    <3>. QED
      BY <1>7, <2>1, <3>2 DEF FilesTyped
  <2>10. WritersTyped'
    BY <1>8, <2>1, <2>2, <2>8 DEF WritersTyped
  <2>11. ControlTyped'
    <3>1. keyNames' \in Seq(KeyNames) /\ todo' \subseteq todo /\ Len(keyNames') \in Nat
      BY <1>6, <2>1, <2>2
    <3>. QED
      BY <1>1, <1>6, <2>1, <2>3, <3>1 DEF ControlTyped, Phases
  <2>. QED
    BY <2>1, <2>9, <2>10, <2>11, Frames
<1>19. CASE EndAdd
  <2> DEFINE c == [numBlocks |-> b.numBlocks, numDocs |-> b.numDocs + 1,
                   contentOffset |-> b.contentOffset, index |-> b.index, intra |-> b.intra,
                   block |-> b.block, count |-> b.count + 1]
  <2>1. /\ phase = "adding" /\ phase' \in {"ckpt", "idle"}
        /\ UNCHANGED <<caller, source, content, blocks, keyFile, built, ckpt, freq, last, keyNames,
                       keyOut, todo, turn>>
    BY <1>19 DEF EndAdd, caller, disk
  <2>2. FlushBlock(c, out) \/ (b' = c /\ out' = out)
    BY <1>19 DEF EndAdd
  <2>3. c \in Builder /\ c.numDocs = b.numDocs + 1
    BY <1>2, BuilderIs DEF Builder
  <2> HIDE DEF c
  <2>4. b' \in Builder /\ out' \in Output /\ b'.numDocs = b.numDocs + 1
    BY <1>8, <2>2, <2>3, FlushBlockTyped
  <2>5. b.numDocs < Len(source) /\ turn = 0
    BY <1>1, <2>1 DEF ControlTyped, Closed
  <2>6. BuilderTyped'
    <3>1. b'.numDocs <= Len(source') /\ last' \in 0 .. b'.numDocs
      BY <1>2, <2>1, <2>4, <2>5
    <3>2. freq' \in Nat \cup {Manual}
      BY <1>1, <2>1 DEF BuilderTyped
    <3>. QED
      BY <2>4, <3>1, <3>2 DEF BuilderTyped
  <2>7. WritersTyped'
    BY <1>8, <2>1, <2>4 DEF WritersTyped
  <2>8. ControlTyped'
    BY <1>6, <2>1, <2>5 DEF ControlTyped, Phases
  <2>. QED
    BY <2>1, <2>6, <2>7, <2>8, Frames
<1>20. CASE CallCheckpoint
  <2>1. /\ phase = "idle" /\ phase' = "ckpt"
        /\ UNCHANGED <<caller, source, content, blocks, keyFile, built, ckpt, freq, b, last,
                       keyNames, out,
                       keyOut, todo, turn>>
    BY <1>20 DEF CallCheckpoint, memory, caller, disk
  <2>2. ControlTyped'
    BY <1>1, <2>1 DEF ControlTyped, Closed, Phases
  <2>. QED
    BY <2>1, <2>2, Frames
<1>21. CASE CheckpointFlush
  <2>1. /\ phase = "ckpt" /\ phase' = "ckpt_rename"
        /\ content' = Flushed(content, out.data, NoChunk)
        /\ blocks' = Flushed(blocks, out.blocks, NoBlock)
        /\ keyFile' = [k \in KeyNames |-> Flushed(keyFile[k], keyOut[k], NoLine)]
        /\ out' = [data |-> Emptied(out.data), blocks |-> Emptied(out.blocks)]
        /\ keyOut' = [k \in KeyNames |-> Emptied(keyOut[k])]
        /\ UNCHANGED <<caller, source, built, ckpt, freq, b, last, keyNames, todo, turn>>
    BY <1>21 DEF CheckpointFlush, caller
  <2>2. FilesTyped' /\ WritersTyped'
    BY <1>9, <2>1 DEF FilesTyped, WritersTyped
  <2>3. ControlTyped'
    BY <1>1, <2>1 DEF ControlTyped, Closed, Phases
  <2>. QED
    BY <2>1, <2>2, <2>3, Frames
<1>22. CASE CheckpointRename
  <2>1. /\ phase = "ckpt_rename" /\ phase' = "idle" /\ ckpt' = Snapshot /\ last' = b.numDocs
        /\ UNCHANGED <<caller, source, content, blocks, keyFile, built, freq, b, keyNames, out,
                       keyOut,
                       todo, turn>>
    BY <1>22 DEF CheckpointRename, caller
  <2> DEFINE lengths == [i \in 1 .. Len(keyNames) |-> Len(keyFile[keyNames[i]])]
  <2>2. \A i \in 1 .. Len(keyNames) : Len(keyFile[keyNames[i]]) \in Nat
    <3> TAKE i \in 1 .. Len(keyNames)
    <3>1. keyNames[i] \in KeyNames
      BY <1>6
    <3>2. keyFile[keyNames[i]] \in Seq(Line)
      BY <1>7, <3>1
    <3>. QED
      BY <3>2
  <2>3. lengths \in [1 .. Len(keyNames) -> Nat]
    BY <2>2
  <2>4. lengths \in Seq(Nat) /\ Len(lengths) = Len(keyNames)
    BY <1>6, <2>3, FunctionSequence
  <2>5. ckpt' = [state |-> "complete", b |-> b, names |-> keyNames, lengths |-> lengths]
    BY <2>1 DEF Snapshot
  <2> HIDE DEF lengths
  <2>6. CkptTyped'
    BY <1>2, <1>6, <2>1, <2>4, <2>5 DEF CkptTyped, Checkpoint
  <2>7. BuilderTyped'
    BY <1>1, <1>2, <2>1 DEF BuilderTyped
  <2>8. ControlTyped'
    BY <1>1, <2>1 DEF ControlTyped, Closed, Phases
  <2>. QED
    BY <2>1, <2>6, <2>7, <2>8, Frames
<1>23. CASE BeginBuild
  <2>1. /\ phase = "idle" /\ phase' = "build_flush" /\ FlushBlock(b, out)
        /\ UNCHANGED <<caller, source, content, blocks, keyFile, built, ckpt, freq, last, keyNames,
                       keyOut, todo, turn>>
    BY <1>23 DEF BeginBuild, caller, disk
  <2>2. b' \in Builder /\ out' \in Output /\ b'.numDocs = b.numDocs
    BY <1>2, <1>8, <2>1, FlushBlockTyped
  <2>3. BuilderTyped'
    BY <1>1, <2>1, <2>2 DEF BuilderTyped
  <2>4. WritersTyped'
    BY <1>8, <2>1, <2>2 DEF WritersTyped
  <2>5. ControlTyped'
    BY <1>1, <2>1 DEF ControlTyped, Closed, Phases
  <2>. QED
    BY <2>1, <2>3, <2>4, <2>5, Frames
<1>24. CASE BuildFlush
  <2>1. /\ phase = "build_flush" /\ phase' = "build_offsets"
        /\ content' = Flushed(content, out.data, NoChunk)
        /\ blocks' = Flushed(blocks, out.blocks, NoBlock)
        /\ out' = [data |-> Emptied(out.data), blocks |-> Emptied(out.blocks)]
        /\ UNCHANGED <<caller, source, keyFile, built, ckpt, freq, b, last, keyNames, keyOut, todo,
                       turn>>
    BY <1>24 DEF BuildFlush, caller
  <2>2. FilesTyped' /\ WritersTyped'
    BY <1>7, <1>8, <1>9, <2>1 DEF FilesTyped, WritersTyped
  <2>3. ControlTyped'
    BY <1>1, <2>1 DEF ControlTyped, Closed, Phases
  <2>. QED
    BY <2>1, <2>2, <2>3, Frames
<1>25. CASE BuildOffsets
  <2>1. /\ phase = "build_offsets" /\ phase' = "build_keys" /\ turn' = 1
        /\ offsets' = b.index \o b.intra
        /\ keyFile' = [k \in KeyNames |-> Flushed(keyFile[k], keyOut[k], NoLine)]
        /\ keyOut' = [k \in KeyNames |-> Emptied(keyOut[k])]
        /\ UNCHANGED <<caller, source, content, blocks, fst, meta, ckpt, freq, b, last, keyNames,
                       out, todo>>
    BY <1>25 DEF BuildOffsets, caller
  <2>2. FilesTyped' /\ WritersTyped'
    BY <1>7, <1>8, <1>9, <2>1 DEF FilesTyped, WritersTyped
  <2>3. BuiltTyped'
    <3>1. b.index \in Seq(Nat) /\ b.intra \in Seq(Nat)
      BY <1>2, BuilderIs
    <3>2. b.index \o b.intra \in Seq(Nat)
      BY <3>1
    <3>. QED
      BY <1>1, <2>1, <3>2 DEF BuiltTyped
  <2>4. ControlTyped'
    BY <1>6, <2>1 DEF ControlTyped, Closed, Phases
  <2>. QED
    BY <2>1, <2>2, <2>3, <2>4, Frames
<1>26. CASE BuildKey
  <2> DEFINE k == keyNames[turn]
             new == {[zeros |-> e.zeros, value |-> e.value, doc |-> e.doc] :
                        e \in Entries(keyFile[k])}
  <2>1. /\ phase = "build_keys" /\ turn <= Len(keyNames) /\ phase' \in {"build_keys", "failed"}
        /\ turn' \in {turn, turn + 1}
        /\ keyFile' \in {keyFile, [keyFile EXCEPT ![k] = <<>>]}
        /\ fst' \in {fst, [fst EXCEPT ![k] = {}], [fst EXCEPT ![k] = new]}
        /\ UNCHANGED <<caller, source, content, blocks, offsets, meta, ckpt, freq, b, last,
                       keyNames, out,
                       keyOut, todo>>
    BY <1>26 DEF BuildKey, caller
  <2>2. FilesTyped'
    <3>1. <<>> \in Seq(Line)
      OBVIOUS
    <3>2. keyFile' \in [KeyNames -> Seq(Line)]
      BY <1>7, <2>1, <3>1
    <3>. QED
      BY <1>7, <2>1, <3>2 DEF FilesTyped
  <2>3. BuiltTyped'
    <3>1. CASE fst' \in {fst, [fst EXCEPT ![k] = {}]}
      BY <1>1, <2>1, <3>1 DEF BuiltTyped
    <3>2. CASE fst' = [fst EXCEPT ![k] = new]
      <4>1. ASSUME k \in KeyNames
            PROVE  new \subseteq [zeros : Nat, value : KeyValues, doc : Nat]
        <5>1. keyFile[k] \in Seq(Line)
          BY <1>7, <4>1
        <5>. QED
          BY <5>1, EntriesTyped
      <4> HIDE DEF k, new
      <4>. QED
        BY <1>1, <2>1, <3>2, <4>1 DEF BuiltTyped
    <3>. QED
      BY <2>1, <3>1, <3>2
  <2>4. ControlTyped'
    BY <1>6, <2>1 DEF ControlTyped, Closed, Phases
  <2>. QED
    BY <2>1, <2>2, <2>3, <2>4, Frames
<1>27. CASE BuildMeta
  <2>1. /\ phase = "build_keys" /\ phase' = "build_clean"
        /\ meta' = [state |-> "complete", numDocs |-> b.numDocs, names |-> keyNames]
        /\ UNCHANGED <<caller, source, content, blocks, keyFile, offsets, fst, ckpt, freq, b, last,
                       keyNames, out, keyOut, todo, turn>>
    BY <1>27 DEF BuildMeta, caller, memory
  <2>2. BuiltTyped'
    BY <1>1, <1>2, <1>6, <2>1 DEF BuiltTyped
  <2>3. ControlTyped'
    BY <1>1, <2>1 DEF ControlTyped, Closed, Phases
  <2>. QED
    BY <2>1, <2>2, <2>3, Frames
<1>28. CASE BuildClean
  <2>1. /\ phase = "build_clean" /\ phase' = "built" /\ ckpt' = Absent
        /\ UNCHANGED <<caller, source, content, blocks, keyFile, built, freq, b, last, keyNames,
                       out, keyOut, todo, turn>>
    BY <1>28 DEF BuildClean, caller, memory
  <2>2. CkptTyped'
    BY <2>1 DEF CkptTyped, Absent
  <2>3. ControlTyped'
    BY <1>1, <2>1 DEF ControlTyped, Closed, Phases
  <2>. QED
    BY <2>1, <2>2, <2>3, Frames
<1>29. CASE Crash
  <2>1. /\ phase' = "down" /\ freq' = 0 /\ b' = NewBuilder /\ last' = 0 /\ keyNames' = <<>>
        /\ out' = NewOut /\ keyOut' = NewKeyOut /\ todo' = {} /\ turn' = 0
        /\ losses.crashes < client.crashes
        /\ losses' = [crashes |-> losses.crashes + 1, reopens |-> losses.reopens]
        /\ UNCHANGED <<client, source, content, blocks, keyFile, built, ckpt>>
    BY <1>29 DEF Crash, disk
  <2>2. FreshBuilder
    BY <2>1 DEF FreshBuilder
  <2>3. BuilderTyped' /\ WritersTyped' /\ keyNames' \in Seq(KeyNames)
    BY <2>1, <2>2, FreshTyped DEF BuilderTyped
  <2>4. CallerTyped'
    BY <1>1, <1>3, <2>1 DEF CallerTyped, Caller
  <2>5. ControlTyped'
    BY <2>1 DEF ControlTyped, Closed, Phases
  <2>. QED
    BY <2>1, <2>3, <2>4, <2>5, Frames
<1>30. CASE UNCHANGED vars
  <2>1. /\ UNCHANGED <<caller, source, content, blocks, keyFile, built, ckpt, freq, b, last, out,
                       keyOut>>
        /\ UNCHANGED <<phase, keyNames, todo, turn>>
    BY <1>30 DEF caller, built
  <2>2. ControlTyped'
    BY <1>1, <2>1 DEF ControlTyped
  <2>. QED
    BY <2>1, <2>2, Frames
<1>. QED
  BY <1>10, <1>11, <1>12, <1>13, <1>14, <1>15, <1>16, <1>17, <1>18, <1>19, <1>20, <1>21, <1>22,
     <1>23, <1>24, <1>25, <1>26, <1>27, <1>28, <1>29, <1>30 DEF Next, Finished

-----------------------------------------------------------------------------
(***************************************************************************)
(* Documents in blocks                                                     *)
(***************************************************************************)

\* A document that is at an offset is decoded there.
LEMMA DecodeIs ==
  ASSUME NEW block, NEW at, NEW d \in Documents, HoldsAt(block, at, d)
  PROVE  DecodeAt(block, at) = d
<1>1. /\ block \in DocBlock /\ at \in Nat /\ at + d.size <= Len(block) /\ d.size \in Nat /\ d.size > 0
      /\ \A i \in 1 .. d.size : block[at + i] = [doc |-> d, part |-> i]
  BY DocumentIs DEF HoldsAt
<1>2. block \in Seq([doc : Documents, part : Nat]) /\ Len(block) \in Nat
      /\ DOMAIN block = 1 .. Len(block)
  BY <1>1 DEF DocBlock
<1>3. at + 1 \in DOMAIN block /\ block[at + 1] = [doc |-> d, part |-> 1]
  <2>1. 1 \in 1 .. d.size /\ at + 1 \in 1 .. Len(block)
    BY <1>1, <1>2
  <2>. QED
    BY <1>1, <1>2, <2>1
<1> DEFINE s == SubSeq(block, at + 1, at + d.size)
<1>4. s \in Seq([doc : Documents, part : Nat]) /\ Len(s) = d.size
      /\ \A i \in 1 .. d.size : s[i] = block[at + i]
  <2>1. PICK n, B : n = d.size /\ B = [doc : Documents, part : Nat]
    OBVIOUS
  <2>2. block \in Seq(B)
    BY <1>2, <2>1
  <2>3. at \in Nat /\ n \in Nat
    BY <1>1, <2>1
  <2>4. at + n <= Len(block)
    BY <1>1, <2>1
  <2>5. /\ SubSeq(block, at + 1, at + n) \in Seq(B) /\ Len(SubSeq(block, at + 1, at + n)) = n
        /\ \A i \in 1 .. n : SubSeq(block, at + 1, at + n)[i] = block[at + i]
    BY <2>2, <2>3, <2>4, MiddleSequence
  <2>. QED
    BY <2>1, <2>5
<1>5. Encode(d) \in Seq([doc : Documents, part : Nat]) /\ Len(Encode(d)) = d.size
      /\ \A i \in 1 .. d.size : Encode(d)[i] = [doc |-> d, part |-> i]
  BY EncodeIs DEF DocBlock
<1> HIDE DEF s
<1>6. \A i \in 1 .. Len(s) : s[i] = Encode(d)[i]
  BY <1>1, <1>4, <1>5
<1>7. s = Encode(d)
  BY <1>4, <1>5, <1>6, SameSequence
<1>8. block[at + 1].doc = d /\ block[at + 1].part = 1
  BY <1>3
<1>. QED
  BY <1>3, <1>7, <1>8 DEF DecodeAt, s

\* What is added to a block leaves its documents, and starts where the block ended.
LEMMA HoldsAtAppend ==
  ASSUME NEW block \in DocBlock, NEW more \in DocBlock
  PROVE  /\ block \o more \in DocBlock /\ Len(block \o more) = Len(block) + Len(more)
         /\ \A at, d : d \in Documents /\ HoldsAt(block, at, d) => HoldsAt(block \o more, at, d)
         /\ \A i \in 1 .. Len(more) : (block \o more)[Len(block) + i] = more[i]
<1> DEFINE T == [doc : Documents, part : Nat]
<1>1. block \in Seq(T) /\ more \in Seq(T)
  BY DEF DocBlock
<1> HIDE DEF T
<1>2. /\ block \o more \in Seq(T) /\ Len(block \o more) = Len(block) + Len(more)
      /\ \A i \in 1 .. Len(block) : (block \o more)[i] = block[i]
      /\ \A i \in 1 .. Len(more) : (block \o more)[Len(block) + i] = more[i]
      /\ Len(block) \in Nat /\ Len(more) \in Nat
  BY <1>1
<1>3. block \o more \in DocBlock
  BY <1>2 DEF DocBlock, T
<1>4. ASSUME NEW at, NEW d \in Documents, HoldsAt(block, at, d)
      PROVE  HoldsAt(block \o more, at, d)
  <2>1. /\ at \in Nat /\ at + d.size <= Len(block) /\ d.size \in Nat
        /\ \A i \in 1 .. d.size : block[at + i] = [doc |-> d, part |-> i]
    BY <1>4, DocumentIs DEF HoldsAt
  <2>2. at + d.size <= Len(block \o more)
    BY <1>2, <2>1
  <2>3. ASSUME NEW i \in 1 .. d.size
        PROVE  (block \o more)[at + i] = [doc |-> d, part |-> i]
    <3>1. at + i \in 1 .. Len(block)
      BY <1>2, <2>1
    <3>. QED
      BY <1>2, <2>1, <3>1
  <2>. QED
    BY <1>3, <2>1, <2>2, <2>3 DEF HoldsAt
<1>. QED
  BY <1>2, <1>3, <1>4

\* A document encoded at the end of a block is found there.
LEMMA HoldsAtEnd ==
  ASSUME NEW block \in DocBlock, NEW d \in Documents
  PROVE  HoldsAt(block \o Encode(d), Len(block), d)
<1>1. /\ Encode(d) \in DocBlock /\ Len(Encode(d)) = d.size /\ d.size \in Nat
      /\ \A i \in 1 .. d.size : Encode(d)[i] = [doc |-> d, part |-> i]
  BY EncodeIs, DocumentIs
<1> DEFINE e == Encode(d)
<1>2. e \in DocBlock /\ Len(e) = d.size
  BY <1>1
<1> HIDE DEF e
<1>3. /\ block \o e \in DocBlock /\ Len(block \o e) = Len(block) + Len(e)
      /\ \A i \in 1 .. Len(e) : (block \o e)[Len(block) + i] = e[i]
  BY <1>2, HoldsAtAppend
<1>4. /\ block \o Encode(d) \in DocBlock /\ Len(block \o Encode(d)) = Len(block) + d.size
      /\ \A i \in 1 .. d.size : (block \o Encode(d))[Len(block) + i] = Encode(d)[i]
  BY <1>2, <1>3 DEF e
<1>5. Len(block) \in Nat
  BY DEF DocBlock
<1>. QED
  BY <1>1, <1>4, <1>5 DEF HoldsAt

\* Files that agree on a range have the same middle there.
LEMMA SameMiddle ==
  ASSUME NEW S, NEW f \in Seq(S), NEW g \in Seq(S), NEW lo \in Nat, NEW hi \in Nat,
         1 <= lo, lo <= hi + 1, hi <= Len(f), hi <= Len(g), \A i \in lo .. hi : f[i] = g[i]
  PROVE  SubSeq(f, lo, hi) = SubSeq(g, lo, hi)
<1>1. PICK o, n \in Nat : lo = o + 1 /\ hi = o + n
  <2>1. lo - 1 \in Nat /\ hi - (lo - 1) \in Nat
    OBVIOUS
  <2>2. lo = (lo - 1) + 1 /\ hi = (lo - 1) + (hi - (lo - 1))
    OBVIOUS
  <2>. QED
    BY <2>1, <2>2
<1>2. PICK s, t : s = SubSeq(f, lo, hi) /\ t = SubSeq(g, lo, hi)
  OBVIOUS
<1>3. s \in Seq(S) /\ Len(s) = n /\ \A i \in 1 .. n : s[i] = f[o + i]
  BY <1>1, <1>2, MiddleSequence
<1>4. t \in Seq(S) /\ Len(t) = n /\ \A i \in 1 .. n : t[i] = g[o + i]
  BY <1>1, <1>2, MiddleSequence
<1>5. \A i \in 1 .. n : s[i] = t[i]
  <2> TAKE i \in 1 .. n
  <2>1. o + i \in lo .. hi
    BY <1>1
  <2>. QED
    BY <1>3, <1>4, <2>1
<1>. QED
  BY <1>2, <1>3, <1>4, <1>5, SameSequence

\* A block is read back from files that agree where it is.
LEMMA ReadStable ==
  ASSUME NEW bs \in Seq(Record), NEW bs2 \in Seq(Record), NEW cs \in Seq(Chunk),
         NEW cs2 \in Seq(Chunk),
         NEW n \in Nat, NEW off \in Nat, Agree(bs, bs2, n), Agree(cs, cs2, off),
         NEW x \in Nat, x < n, bs[x + 1].offset + bs[x + 1].size <= off
  PROVE  ReadBlock(bs2, cs2, x) = ReadBlock(bs, cs, x)
<1>1. /\ n <= Len(bs) /\ n <= Len(bs2) /\ x + 1 \in 1 .. n /\ bs[x + 1] = bs2[x + 1]
      /\ off <= Len(cs) /\ off <= Len(cs2) /\ \A i \in 1 .. off : cs[i] = cs2[i]
  BY DEF Agree
<1>2. x + 1 \in DOMAIN bs /\ x + 1 \in DOMAIN bs2
  BY <1>1
<1> DEFINE o == bs[x + 1].offset
           n1 == bs[x + 1].size
<1>3. bs[x + 1] \in Record
  BY <1>2
<1>4. o \in Nat /\ n1 \in Nat /\ o + n1 <= off
  BY <1>3 DEF Record
<1>5. bs2[x + 1].offset = o /\ bs2[x + 1].size = n1
  BY <1>1
<1> HIDE DEF o, n1
<1>6. o + n1 <= Len(cs) /\ o + n1 <= Len(cs2) /\ Len(cs) \in Nat /\ Len(cs2) \in Nat
  BY <1>1, <1>4
<1> DEFINE s == SubSeq(cs, o + 1, o + n1)
           t == SubSeq(cs2, o + 1, o + n1)
<1>7. PICK lo, hi \in Nat : lo = o + 1 /\ hi = o + n1
  BY <1>4
<1>8. s = t
  <2>1. 1 <= lo /\ lo <= hi + 1 /\ hi <= off
    BY <1>4, <1>7
  <2>2. hi <= Len(cs) /\ hi <= Len(cs2)
    BY <1>6, <1>7
  <2>3. \A i \in lo .. hi : cs[i] = cs2[i]
    BY <1>1, <2>1
  <2>4. SubSeq(cs, lo, hi) = SubSeq(cs2, lo, hi)
    BY <2>1, <2>2, <2>3, SameMiddle
  <2>. QED
    BY <1>7, <2>4
<1> HIDE DEF s, t
<1>9. ReadBlock(bs, cs, x) = Decompress(s)
  BY <1>2, <1>6 DEF ReadBlock, o, n1, s
<1>10. ReadBlock(bs2, cs2, x) = Decompress(t)
  BY <1>2, <1>5, <1>6 DEF ReadBlock, t
<1>. QED
  BY <1>8, <1>9, <1>10

\* A block that was compressed is read back.
LEMMA ReadCompressed ==
  ASSUME NEW bs \in Seq(Record), NEW cs \in Seq(Chunk), NEW x \in Nat, x < Len(bs),
         NEW block \in DocBlock, NEW n \in Nat, n > 0, NEW off \in Nat, off + n <= Len(cs),
         bs[x + 1].offset = off, bs[x + 1].size = n,
         \A i \in 1 .. n : cs[off + i] = Compress(block, n)[i]
  PROVE  ReadBlock(bs, cs, x) = block
<1> DEFINE chunks == Compress(block, n)
           s == SubSeq(cs, off + 1, off + n)
<1>1. /\ chunks \in Seq(Chunk) /\ Len(chunks) = n
      /\ \A i \in 1 .. n : chunks[i] = [block |-> block, part |-> i, parts |-> n]
  BY CompressIs
<1>2. s \in Seq(Chunk) /\ Len(s) = n /\ \A i \in 1 .. n : s[i] = cs[off + i]
  <2>1. PICK lo, hi \in Nat : lo = off + 1 /\ hi = off + n
    OBVIOUS
  <2>2. 1 <= lo /\ lo <= hi + 1 /\ hi <= Len(cs)
    BY <2>1
  <2>3. PICK u : u = SubSeq(cs, lo, hi)
    OBVIOUS
  <2>4. u \in Seq(Chunk) /\ Len(u) = hi - lo + 1 /\ \A i \in 1 .. Len(u) : u[i] = cs[lo - 1 + i]
    BY <2>2, <2>3, MiddleOf, SMTT(30)
  <2>5. Len(u) = n /\ lo - 1 = off
    BY <2>1, <2>4
  <2>. QED
    BY <2>1, <2>3, <2>4, <2>5
<1>3. \A i \in 1 .. Len(s) : s[i] = chunks[i]
  BY <1>2
<1> HIDE DEF s, chunks
<1>4. s = chunks
  BY <1>1, <1>2, <1>3, SameSequence
<1>5. chunks[1].block = block /\ chunks # <<>>
  BY <1>1
<1>6. Decompress(s) = block
  BY <1>1, <1>4, <1>5 DEF Decompress, chunks
<1>7. x + 1 \in DOMAIN bs
  OBVIOUS
<1>. QED
  BY <1>6, <1>7 DEF ReadBlock, s

\* A longer collection, and files that agree below its end, keep what a builder counts.
LEMMA BlockedKept ==
  ASSUME NEW c \in Builder, NEW bs \in Seq(Record), NEW bs2 \in Seq(Record),
         NEW cs \in Seq(Chunk), NEW cs2 \in Seq(Chunk),
         NEW docs \in Seq(Documents), NEW docs2 \in Seq(Documents),
         Agree(docs, docs2, Len(docs)),
         Agree(bs, bs2, c.numBlocks), Agree(cs, cs2, c.contentOffset),
         Blocked(c, bs, cs, docs)
  PROVE  Blocked(c, bs2, cs2, docs2)
<1>1. c.numBlocks \in Nat /\ c.contentOffset \in Nat /\ c.index \in Seq(Nat) /\ Len(c.index) \in Nat
  BY BuilderIs
<1>2. c.contentOffset <= Len(cs2) /\ c.numBlocks <= Len(bs2) /\ Len(docs) <= Len(docs2)
      /\ \A x \in 1 .. c.numBlocks : bs2[x] = bs[x]
  BY DEF Agree
<1>3. \A j \in 1 .. Len(docs) : docs2[j] = docs[j]
  BY DEF Agree
<1>4. \A x \in 1 .. c.numBlocks : bs[x].offset + bs[x].size <= c.contentOffset
  BY DEF Blocked
<1>5. \A x \in 1 .. c.numBlocks : bs2[x].offset + bs2[x].size <= c.contentOffset
  BY <1>2, <1>4
<1>6. Len(c.intra) = Len(c.index) /\ Len(c.index) <= Len(docs)
  BY DEF Blocked
<1>7. ASSUME NEW i \in 1 .. Len(c.index)
      PROVE  InPlace(c, bs2, cs2, docs2, i)
  <2>1. InPlace(c, bs, cs, docs, i)
    BY DEF Blocked
  <2>2. docs2[i] = docs[i]
    <3>1. Len(c.index) \in Nat /\ Len(docs) \in Nat /\ Len(c.index) <= Len(docs)
      BY <1>1, <1>6
    <3>2. i \in 1 .. Len(docs)
      BY <3>1
    <3>. QED
      BY <1>3, <3>2, Zenon
  <2>3. c.index[i] \in Nat
    BY <1>1, ElementOf, Zenon
  <2>4. ASSUME c.index[i] < c.numBlocks
        PROVE  ReadBlock(bs2, cs2, c.index[i]) = ReadBlock(bs, cs, c.index[i])
    <3> DEFINE x == c.index[i]
    <3>1. x \in Nat /\ x < c.numBlocks /\ c.numBlocks \in Nat
      BY <1>1, <2>3, <2>4
    <3> HIDE DEF x
    <3>2. x + 1 \in 1 .. c.numBlocks
      BY <3>1
    <3>3. c.index[i] + 1 \in 1 .. c.numBlocks
      BY <3>2 DEF x
    <3>4. bs[c.index[i] + 1].offset + bs[c.index[i] + 1].size <= c.contentOffset
      BY <1>4, <3>3
    <3>5. bs[x + 1].offset + bs[x + 1].size <= c.contentOffset
      BY <3>4 DEF x
    <3>6. c.contentOffset \in Nat /\ c.numBlocks \in Nat
      BY <1>1
    <3>7. ReadBlock(bs2, cs2, x) = ReadBlock(bs, cs, x)
      BY <3>1, <3>5, <3>6, ReadStable, SMTT(60)
    <3>. QED
      BY <3>7 DEF x
  <2>. QED
    BY <2>1, <2>2, <2>4 DEF InPlace
<1>8. Len(c.index) <= Len(docs2)
  BY <1>1, <1>2, <1>6
<1>. QED
  BY <1>2, <1>5, <1>6, <1>7, <1>8 DEF Blocked

\* Builder c2 is c after its block was flushed, after the blocks it had.
FlushedTo(c, c2, bs2, cs2) ==
  /\ c.count > 0 /\ c2.numBlocks = c.numBlocks + 1 /\ c2.contentOffset = c.contentOffset + c.count
  /\ c2.index = c.index /\ c2.intra = c.intra
  /\ c2.numBlocks <= Len(bs2) /\ c2.contentOffset <= Len(cs2)
  /\ bs2[c.numBlocks + 1].offset = c.contentOffset /\ bs2[c.numBlocks + 1].size = c.count
  /\ \A i \in 1 .. c.count : cs2[c.contentOffset + i] = Compress(c.block, c.count)[i]

\* The documents of the block are then read from the files.
LEMMA BlockedFlush ==
  ASSUME NEW c \in Builder, NEW c2 \in Builder, NEW bs \in Seq(Record), NEW bs2 \in Seq(Record),
         NEW cs \in Seq(Chunk), NEW cs2 \in Seq(Chunk), NEW docs \in Seq(Documents),
         Blocked(c, bs, cs, docs),
         Agree(bs, bs2, c.numBlocks), Agree(cs, cs2, c.contentOffset),
         FlushedTo(c, c2, bs2, cs2)
  PROVE  Blocked(c2, bs2, cs2, docs)
<1>1. c.numBlocks \in Nat /\ c.contentOffset \in Nat /\ c.index \in Seq(Nat) /\ Len(c.index) \in Nat
      /\ c.block \in DocBlock /\ c.count \in Nat
  BY BuilderIs
<1>2. /\ c2.numBlocks = c.numBlocks + 1 /\ c2.contentOffset = c.contentOffset + c.count
      /\ c2.index = c.index /\ c2.intra = c.intra /\ c.count > 0
      /\ c2.numBlocks <= Len(bs2) /\ c2.contentOffset <= Len(cs2)
  BY DEF FlushedTo
<1>3. bs2[c.numBlocks + 1].offset = c.contentOffset /\ bs2[c.numBlocks + 1].size = c.count
  BY DEF FlushedTo
<1>4. Agree(docs, docs, Len(docs))
  BY DEF Agree
<1>5. Blocked(c, bs2, cs2, docs)
  BY <1>4, BlockedKept
<1>6. ReadBlock(bs2, cs2, c.numBlocks) = c.block
  <2> DEFINE x == c.numBlocks
             n == c.count
             off == c.contentOffset
  <2>1. x \in Nat /\ x < Len(bs2) /\ n \in Nat /\ n > 0 /\ off \in Nat /\ off + n <= Len(cs2)
    BY <1>1, <1>2
  <2>2. bs2[x + 1].offset = off /\ bs2[x + 1].size = n
        /\ \A i \in 1 .. n : cs2[off + i] = Compress(c.block, n)[i]
    BY DEF FlushedTo
  <2> HIDE DEF x, n, off
  <2>3. c.block \in DocBlock
    BY <1>1
  <2>4. ReadBlock(bs2, cs2, x) = c.block
    BY <2>1, <2>2, <2>3, ReadCompressed
  <2>. QED
    BY <2>4 DEF x
<1>7. ASSUME NEW x \in 1 .. c2.numBlocks
      PROVE  bs2[x].offset + bs2[x].size <= c2.contentOffset
  <2>1. CASE x = c.numBlocks + 1
    BY <1>1, <1>2, <1>3, <2>1
  <2>2. CASE x # c.numBlocks + 1
    <3>1. x \in 1 .. c.numBlocks /\ x \in DOMAIN bs2
      <4>1. PICK m \in Nat : m = c.numBlocks
        BY <1>1
      <4>2. c2.numBlocks = m + 1 /\ m + 1 <= Len(bs2) /\ x # m + 1
        BY <1>2, <2>2, <4>1
      <4>3. x \in 1 .. m + 1
        BY <4>2
      <4>4. x \in 1 .. m /\ x \in 1 .. Len(bs2)
        BY <4>2, <4>3
      <4>. QED
        BY <4>1, <4>4
    <3>2. bs2[x].offset + bs2[x].size <= c.contentOffset
      BY <1>5, <3>1 DEF Blocked
    <3>3. bs2[x] \in Record
      BY <3>1
    <3>4. PICK from, size : from = bs2[x].offset /\ size = bs2[x].size
      OBVIOUS
    <3>5. from \in Nat /\ size \in Nat
      BY <3>3, <3>4 DEF Record
    <3>6. from + size <= c.contentOffset
      BY <3>2, <3>4
    <3>7. from + size <= c2.contentOffset
      BY <1>1, <1>2, <3>5, <3>6
    <3>. QED
      BY <3>4, <3>7
  <2>. QED
    BY <2>1, <2>2
<1>8. ASSUME NEW i \in 1 .. Len(c2.index)
      PROVE  InPlace(c2, bs2, cs2, docs, i)
  <2>1. i \in 1 .. Len(c.index)
    BY <1>2
  <2>2. c.index[i] \in Nat
    BY <1>1, <2>1, ElementOf, Zenon
  <2>3. InPlace(c, bs2, cs2, docs, i) /\ c.index[i] \in Nat
    BY <1>5, <2>1, <2>2 DEF Blocked
  <2>4. CASE c.index[i] = c.numBlocks
    <3>1. c2.index[i] < c2.numBlocks /\ c2.index[i] = c.numBlocks
      BY <1>1, <1>2, <2>3, <2>4
    <3>2. HoldsAt(c.block, c.intra[i], docs[i])
      BY <2>3, <2>4, <1>1 DEF InPlace
    <3>. QED
      BY <1>6, <1>2, <3>1, <3>2 DEF InPlace
  <2>5. CASE c.index[i] # c.numBlocks
    <3>1. c.index[i] < c.numBlocks /\ HoldsAt(ReadBlock(bs2, cs2, c.index[i]), c.intra[i], docs[i])
      BY <2>3, <2>5 DEF InPlace
    <3>2. c2.index[i] < c2.numBlocks
      <4> DEFINE x == c.index[i]
      <4>1. x \in Nat /\ x < c.numBlocks /\ c2.numBlocks = c.numBlocks + 1 /\ c.numBlocks \in Nat
        BY <1>1, <1>2, <2>3, <3>1
      <4> HIDE DEF x
      <4>2. x < c2.numBlocks
        BY <4>1
      <4>. QED
        BY <1>2, <4>2 DEF x
    <3>. QED
      BY <1>2, <3>1, <3>2 DEF InPlace
  <2>. QED
    BY <2>4, <2>5
<1>9. Len(c2.intra) = Len(c2.index) /\ Len(c2.index) <= Len(docs)
  BY <1>2 DEF Blocked
<1>. QED
  BY <1>7, <1>8, <1>9, <1>2 DEF Blocked

-----------------------------------------------------------------------------
(***************************************************************************)
(* The memory of the process                                               *)
(***************************************************************************)

\* The types most steps need.
LEMMA TypesNow ==
  ASSUME Typed
  PROVE  /\ source \in Seq(Documents) /\ Len(source) \in Nat
         /\ content \in Seq(Chunk) /\ blocks \in Seq(Record) /\ keyFile \in [KeyNames -> Seq(Line)]
         /\ b \in Builder /\ b.numDocs \in Nat /\ b.numDocs <= Len(source)
         /\ out.data \in Writer(Chunk) /\ out.blocks \in Writer(Record)
         /\ keyOut \in [KeyNames -> Writer(Line)]
         /\ keyNames \in Seq(KeyNames) /\ Len(keyNames) \in Nat
         /\ todo \subseteq KeyNames /\ turn \in Nat
         /\ phase = "adding" =>
              b.numDocs < Len(source) /\ todo \subseteq DOMAIN source[b.numDocs + 1].keys
         /\ phase \notin Closed => turn = 0
BY TypeParts, BuilderIs DEF CallerTyped, FilesTyped, BuilderTyped, WritersTyped, Output,
   ControlTyped

\* A builder that holds nothing counts nothing.
LEMMA BlockedNew ==
  ASSUME NEW bs \in Seq(Record), NEW cs \in Seq(Chunk), NEW docs \in Seq(Documents)
  PROVE  /\ Blocked(NewBuilder, bs, cs, docs)
         /\ NewBuilder \in Builder /\ NewBuilder.numDocs = 0 /\ NewBuilder.index = <<>>
         /\ NewBuilder.block = <<>> /\ NewBuilder.contentOffset = 0 /\ NewBuilder.numBlocks = 0
<1>1. Len(bs) \in Nat /\ Len(cs) \in Nat /\ Len(docs) \in Nat
  OBVIOUS
<1>2. NewBuilder \in Builder
  BY DEF NewBuilder, Builder, DocBlock
<1>3. /\ NewBuilder.numDocs = 0 /\ NewBuilder.index = <<>> /\ NewBuilder.intra = <<>>
      /\ NewBuilder.block = <<>> /\ NewBuilder.contentOffset = 0 /\ NewBuilder.numBlocks = 0
  BY DEF NewBuilder
<1>4. 0 <= Len(cs) /\ 0 <= Len(bs) /\ 1 .. 0 = {} /\ Len(<<>>) = 0 /\ 0 <= Len(docs)
  BY <1>1
<1>. QED
  BY <1>2, <1>3, <1>4 DEF Blocked

\* What a writer has taken is not changed by a spill or a flush.
LEMMA MemoryMoved ==
  ASSUME MemoryInv, UNCHANGED <<source, b>>,
         FullContent' = FullContent, FullBlocks' = FullBlocks,
         EndsAt(content', out'.data, b.contentOffset),
         EndsAt(blocks', out'.blocks, b.numBlocks),
         phase' = "adding" <=> phase = "adding"
  PROVE  MemoryInv'
<1>1. Blocked(b, FullBlocks, FullContent, source)'
  <2>1. Blocked(b', FullBlocks', FullContent', source')
    BY Zenon DEF MemoryInv
  <2>. QED
    BY <2>1
<1>2. /\ EndsAt(content, out.data, b.contentOffset)'
      /\ EndsAt(blocks, out.blocks, b.numBlocks)'
  OBVIOUS
<1>3. Len(b'.index) = IF phase' = "adding" THEN b'.numDocs + 1 ELSE b'.numDocs
  BY Zenon DEF MemoryInv
<1>4. b'.block # <<>> => b'.count > 0 \/ phase' = "adding"
  BY Zenon DEF MemoryInv
<1>. QED
  BY <1>1, <1>2, <1>3, <1>4, Zenon DEF MemoryInv

\* A step that touches neither the two files nor their writers.
LEMMA MemoryFrame ==
  ASSUME MemoryInv, UNCHANGED <<source, content, blocks, b, out>>,
         phase' = "adding" <=> phase = "adding"
  PROVE  MemoryInv'
<1>1. FullContent' = FullContent /\ FullBlocks' = FullBlocks
  BY DEF FullContent, FullBlocks
<1>2. /\ EndsAt(content', out'.data, b.contentOffset)
      /\ EndsAt(blocks', out'.blocks, b.numBlocks)
  BY DEF MemoryInv
<1>. QED
  BY <1>1, <1>2, MemoryMoved, Zenon

\* A builder that starts with a number of blocks and of chunks.
LEMMA MemoryStarts ==
  ASSUME Typed', UNCHANGED source, phase' # "adding",
         out' = [data |-> WriterAt(b'.contentOffset), blocks |-> WriterAt(b'.numBlocks)],
         Len(b'.index) = b'.numDocs, b'.block # <<>> => b'.count > 0,
         Blocked(b', blocks', content', source')
  PROVE  MemoryInv'
<1>1. content' \in Seq(Chunk) /\ blocks' \in Seq(Record) /\ b' \in Builder
  <2>1. FilesTyped' /\ BuilderTyped'
    BY TypeParts, PTL
  <2>. QED
    BY <2>1 DEF FilesTyped, BuilderTyped
<1>2. b'.contentOffset \in Nat /\ b'.numBlocks \in Nat
  BY <1>1, BuilderIs
<1>3. out'.data = WriterAt(b'.contentOffset) /\ out'.blocks = WriterAt(b'.numBlocks)
  OBVIOUS
<1>4. /\ out'.data.at = b'.contentOffset /\ out'.data.at + Len(out'.data.held) = b'.contentOffset
      /\ Flushed(content', out'.data, NoChunk) = content'
      /\ out'.blocks.at = b'.numBlocks /\ out'.blocks.at + Len(out'.blocks.held) = b'.numBlocks
      /\ Flushed(blocks', out'.blocks, NoBlock) = blocks'
  BY <1>1, <1>2, <1>3, WriterAtIs
<1>5. b'.contentOffset <= Len(content') /\ b'.numBlocks <= Len(blocks')
  BY DEF Blocked
<1>6. /\ EndsAt(content, out.data, b.contentOffset)'
      /\ EndsAt(blocks, out.blocks, b.numBlocks)'
  BY <1>4, <1>5 DEF EndsAt
<1>7. Blocked(b, FullBlocks, FullContent, source)'
  BY <1>4 DEF FullBlocks, FullContent
<1>. QED
  BY <1>6, <1>7 DEF MemoryInv

\* flush_block: the block of c follows the blocks the writers have.
LEMMA FlushBlockKeeps ==
  ASSUME Typed, UNCHANGED <<source, content, blocks>>,
         NEW c \in Builder, FlushBlock(c, out), c.block # <<>> => c.count > 0,
         EndsAt(content, out.data, c.contentOffset),
         EndsAt(blocks, out.blocks, c.numBlocks),
         Blocked(c, FullBlocks, FullContent, source)
  PROVE  /\ EndsAt(content', out'.data, b'.contentOffset)
         /\ EndsAt(blocks', out'.blocks, b'.numBlocks)
         /\ Blocked(b', FullBlocks', FullContent', source')
         /\ b'.block = <<>> /\ b'.index = c.index /\ b'.numDocs = c.numDocs
         /\ out'.data.at = out.data.at /\ out'.blocks.at = out.blocks.at
<1>1. source \in Seq(Documents) /\ content \in Seq(Chunk) /\ blocks \in Seq(Record)
      /\ out.data \in Writer(Chunk) /\ out.blocks \in Writer(Record) /\ out \in Output
  BY TypesNow, TypeParts DEF WritersTyped
<1>2. CASE c.block = <<>>
  <2>1. b' = c /\ out' = out
    BY <1>2 DEF FlushBlock
  <2>2. FullBlocks' = FullBlocks /\ FullContent' = FullContent
    BY <2>1 DEF FullBlocks, FullContent
  <2>3. Blocked(b', FullBlocks', FullContent', source')
    BY <2>1, <2>2, Zenon
  <2>4. EndsAt(content', out'.data, b'.contentOffset) /\ EndsAt(blocks', out'.blocks, b'.numBlocks)
    BY <2>1, Zenon
  <2>. QED
    BY <1>2, <2>1, <2>3, <2>4, Zenon
<1>3. CASE c.block # <<>>
  <2> DEFINE chunks == Compress(c.block, c.count)
             entry == [offset |-> c.contentOffset, size |-> Len(chunks), docs |-> c.count]
  <2>1. c.block \in DocBlock /\ c.count \in Nat /\ c.count > 0 /\ c.numBlocks \in Nat
        /\ c.contentOffset \in Nat
    BY <1>3, BuilderIs
  <2>2. chunks \in Seq(Chunk) /\ Len(chunks) = c.count
    BY <2>1, CompressIs
  <2>3. /\ out' = [data |-> Put(out.data, chunks), blocks |-> Put(out.blocks, <<entry>>)]
        /\ b' = [numBlocks |-> c.numBlocks + 1, numDocs |-> c.numDocs,
                 contentOffset |-> c.contentOffset + Len(chunks),
                 index |-> c.index, intra |-> c.intra, block |-> <<>>, count |-> 0]
    BY <1>3 DEF FlushBlock
  <2>4. b' \in Builder
    BY <1>1, FlushBlockTyped
  <2>5. entry.offset = c.contentOffset /\ entry.size = c.count
    BY <2>2
  <2>6. entry \in Record
    BY <2>1, <2>2 DEF Record
  <2> HIDE DEF entry, chunks
  <2>7. /\ b'.numBlocks = c.numBlocks + 1 /\ b'.numDocs = c.numDocs
        /\ b'.contentOffset = c.contentOffset + c.count
        /\ b'.index = c.index /\ b'.intra = c.intra /\ b'.block = <<>>
    BY <2>2, <2>3
  <2>8. out'.data = Put(out.data, chunks) /\ out'.blocks = Put(out.blocks, <<entry>>)
    BY <2>3
  <2>9. /\ out.data.at <= Len(content) /\ c.contentOffset = out.data.at + Len(out.data.held)
        /\ out.blocks.at <= Len(blocks) /\ c.numBlocks = out.blocks.at + Len(out.blocks.held)
    BY DEF EndsAt
  <2>10. /\ Put(out.data, chunks) \in Writer(Chunk) /\ Put(out.data, chunks).at = out.data.at
         /\ Put(out.data, chunks).at + Len(Put(out.data, chunks).held) =
              c.contentOffset + Len(chunks)
         /\ Agree(FullContent, Flushed(content, Put(out.data, chunks), NoChunk), c.contentOffset)
         /\ c.contentOffset + Len(chunks) <= Len(Flushed(content, Put(out.data, chunks), NoChunk))
         /\ \A i \in 1 .. Len(chunks) :
              Flushed(content, Put(out.data, chunks), NoChunk)[c.contentOffset + i] = chunks[i]
    <3>1. NoChunk \in Chunk /\ chunks \in Seq(Chunk) /\ out.data.at <= Len(content)
      BY <2>2, <2>9, ZerosTyped
    <3>2. PutsAfter(Chunk, content, out.data, chunks, NoChunk, out.data.at + Len(out.data.held))
      BY <1>1, <3>1, PutKeeps
    <3>3. PutsAfter(Chunk, content, out.data, chunks, NoChunk, c.contentOffset)
      BY <2>9, <3>2
    <3>. QED
      BY <3>3, Zenon DEF FullContent, PutsAfter
  <2>11. <<entry>> \in Seq(Record) /\ Len(<<entry>>) = 1 /\ <<entry>>[1] = entry
    BY <2>6
  <2> DEFINE e == <<entry>>
  <2> HIDE DEF e
  <2>12. /\ Put(out.blocks, e) \in Writer(Record) /\ Put(out.blocks, e).at = out.blocks.at
         /\ Put(out.blocks, e).at + Len(Put(out.blocks, e).held) = c.numBlocks + Len(e)
         /\ Agree(FullBlocks, Flushed(blocks, Put(out.blocks, e), NoBlock), c.numBlocks)
         /\ c.numBlocks + Len(e) <= Len(Flushed(blocks, Put(out.blocks, e), NoBlock))
         /\ \A i \in 1 .. Len(e) :
              Flushed(blocks, Put(out.blocks, e), NoBlock)[c.numBlocks + i] = e[i]
    <3>1. NoBlock \in Record /\ e \in Seq(Record) /\ out.blocks.at <= Len(blocks)
      BY <2>9, <2>11, ZerosTyped DEF e
    <3>2. PutsAfter(Record, blocks, out.blocks, e, NoBlock, out.blocks.at + Len(out.blocks.held))
      BY <1>1, <3>1, PutKeeps
    <3>3. PutsAfter(Record, blocks, out.blocks, e, NoBlock, c.numBlocks)
      BY <2>9, <3>2
    <3>. QED
      BY <3>3, Zenon DEF FullBlocks, PutsAfter
  <2>13. Len(e) = 1 /\ e[1] = entry /\ out'.blocks = Put(out.blocks, e)
    BY <2>8, <2>11 DEF e
  <2>14. /\ FullContent' = Flushed(content, Put(out.data, chunks), NoChunk)
         /\ FullBlocks' = Flushed(blocks, Put(out.blocks, e), NoBlock)
    BY <2>8, <2>13 DEF FullContent, FullBlocks
  <2>15. EndsAt(content', out'.data, b'.contentOffset)
    BY <2>2, <2>7, <2>8, <2>9, <2>10 DEF EndsAt
  <2>16. EndsAt(blocks', out'.blocks, b'.numBlocks)
    BY <2>7, <2>9, <2>12, <2>13 DEF EndsAt
  <2>17. FullContent \in Seq(Chunk) /\ FullBlocks \in Seq(Record)
    BY <1>1, <2>9, FlushedIs, ZerosTyped DEF FullContent, FullBlocks
  <2>18. FullContent' \in Seq(Chunk) /\ FullBlocks' \in Seq(Record)
    BY <1>1, <2>9, <2>10, <2>12, <2>14, FlushedIs, ZerosTyped
  <2>19. FlushedTo(c, b', FullBlocks', FullContent')
    <3>1. b'.numBlocks <= Len(FullBlocks') /\ b'.contentOffset <= Len(FullContent')
      BY <2>2, <2>7, <2>10, <2>12, <2>13, <2>14
    <3>2. FullBlocks'[c.numBlocks + 1] = entry
      BY <2>12, <2>13, <2>14
    <3>3. \A i \in 1 .. c.count : FullContent'[c.contentOffset + i] = Compress(c.block, c.count)[i]
      BY <2>2, <2>10, <2>14 DEF chunks
    <3>. QED
      BY <2>1, <2>5, <2>7, <3>1, <3>2, <3>3 DEF FlushedTo
  <2>20. Agree(FullBlocks, FullBlocks', c.numBlocks)
         /\ Agree(FullContent, FullContent', c.contentOffset)
    BY <2>10, <2>12, <2>14
  <2>21. Blocked(b', FullBlocks', FullContent', source)
    BY <1>1, <2>4, <2>17, <2>18, <2>19, <2>20, BlockedFlush, Zenon
  <2>. QED
    BY <2>7, <2>8, <2>10, <2>12, <2>13, <2>15, <2>16, <2>21
<1>. QED
  BY <1>2, <1>3

-----------------------------------------------------------------------------
(***************************************************************************)
(* Records that move from a writer to its file                             *)
(***************************************************************************)

\* File g and writer v are f and w after some of what w held was handed over.
Moved(S, f, w, g, v, zero) ==
  /\ Flushed(g, v, zero) = Flushed(f, w, zero)
  /\ v.at + Len(v.held) = w.at + Len(w.held)
  /\ w.at <= v.at /\ v.at <= Len(g)
  /\ Agree(f, g, w.at)
  /\ w.at = Len(f) => v.at = Len(g)

\* Nothing is, some of it is, or all of it.
LEMMA MovesNothing ==
  ASSUME NEW S, NEW f \in Seq(S), NEW w \in Writer(S), w.at <= Len(f), NEW zero
  PROVE  Moved(S, f, w, f, w, zero)
<1>1. w.at \in Nat
  BY DEF Writer
<1>. QED
  BY <1>1 DEF Moved, Agree

\* The bytes a writer hands over, however many, only move from it to the file.
LEMMA MovesSome ==
  ASSUME NEW S, NEW f \in Seq(S), NEW w \in Writer(S), w.at <= Len(f), NEW zero \in S,
         NEW n \in 0 .. Len(w.held)
  PROVE  Moved(S, f, w, Received(f, w, n, zero), HandedOver(w, n), zero)
<1>1. w.at \in Nat /\ n \in Nat
  BY DEF Writer
<1>2. HandedOver(w, n).at = w.at + n
  BY SpillKeeps
<1>3. w.at <= HandedOver(w, n).at
  BY <1>1, <1>2
<1>. QED
  BY <1>3, SpillKeeps DEF Moved

\* A flush moves all a writer holds to the file, and leaves the writer empty.
LEMMA MovesAll ==
  ASSUME NEW S, NEW f \in Seq(S), NEW w \in Writer(S), w.at <= Len(f), NEW zero \in S
  PROVE  Moved(S, f, w, Flushed(f, w, zero), Emptied(w), zero) /\ Emptied(w).held = <<>>
<1>1. w.held \in Seq(S) /\ Len(w.held) \in 0 .. Len(w.held)
  BY DEF Writer
<1>2. Moved(S, f, w, Received(f, w, Len(w.held), zero), HandedOver(w, Len(w.held)), zero)
  BY <1>1, MovesSome
<1>. QED
  BY <1>2, EmptiedIs DEF Flushed, Emptied

\* A step moves records of all writers, or of none of some.
WritersMove ==
  /\ Moved(Chunk, content, out.data, content', out'.data, NoChunk)
  /\ Moved(Record, blocks, out.blocks, blocks', out'.blocks, NoBlock)
  /\ \A i \in 1 .. Len(keyNames) : turn <= i =>
       Moved(Line, keyFile[keyNames[i]], keyOut[keyNames[i]],
             keyFile'[keyNames[i]], keyOut'[keyNames[i]], NoLine)

\* Such a step leaves the memory and the files in agreement.
LEMMA MemoryMoves ==
  ASSUME MemoryInv, UNCHANGED <<source, b>>, WritersMove, phase' = "adding" <=> phase = "adding"
  PROVE  MemoryInv'
<1>1. EndsAt(content, out.data, b.contentOffset) /\ EndsAt(blocks, out.blocks, b.numBlocks)
  BY DEF MemoryInv
<1>2. FullContent' = FullContent /\ EndsAt(content', out'.data, b.contentOffset)
  BY <1>1 DEF WritersMove, Moved, FullContent, EndsAt
<1>3. FullBlocks' = FullBlocks /\ EndsAt(blocks', out'.blocks, b.numBlocks)
  BY <1>1 DEF WritersMove, Moved, FullBlocks, EndsAt
<1>. QED
  BY <1>2, <1>3, MemoryMoved, Zenon

\* The writer of a key that is not closed is at the end of its file.
LEMMA KeyWriter ==
  ASSUME Typed, KeyInv, NEW i \in 1 .. Len(keyNames), turn <= i
  PROVE  /\ keyNames[i] \in KeyNames
         /\ keyFile[keyNames[i]] \in Seq(Line) /\ keyOut[keyNames[i]] \in Writer(Line)
         /\ keyOut[keyNames[i]].at = Len(keyFile[keyNames[i]])
         /\ keyOut[keyNames[i]].at <= Len(keyFile[keyNames[i]])
<1>1. keyNames[i] \in KeyNames
  BY TypesNow, ElementOf
<1>2. keyFile[keyNames[i]] \in Seq(Line) /\ keyOut[keyNames[i]] \in Writer(Line)
  BY <1>1, TypesNow
<1>3. keyOut[keyNames[i]].at = Len(keyFile[keyNames[i]])
  BY DEF KeyInv
<1>4. Len(keyFile[keyNames[i]]) \in Nat
  BY <1>2
<1>. QED
  BY <1>1, <1>2, <1>3, <1>4

\* What the actions that hand records over do.
LEMMA SpillsMove ==
  ASSUME Typed, MemoryInv, KeyInv
  PROVE  /\ UNCHANGED <<content, blocks, keyFile, out, keyOut>> => WritersMove
         /\ \A n \in 1 .. Len(out.data.held) : SpillContent(n) => WritersMove
         /\ \A n \in 1 .. Len(out.blocks.held) : SpillBlocks(n) => WritersMove
         /\ \A k \in KeyNames : \A n \in 1 .. Len(keyOut[k].held) : SpillKey(k, n) => WritersMove
<1>1. /\ content \in Seq(Chunk) /\ out.data \in Writer(Chunk) /\ out.data.at <= Len(content)
      /\ blocks \in Seq(Record) /\ out.blocks \in Writer(Record) /\ out.blocks.at <= Len(blocks)
      /\ NoChunk \in Chunk /\ NoBlock \in Record /\ NoLine \in Line
  BY TypesNow, ZerosTyped DEF MemoryInv, EndsAt
<1>2. /\ Moved(Chunk, content, out.data, content, out.data, NoChunk)
      /\ Moved(Record, blocks, out.blocks, blocks, out.blocks, NoBlock)
  BY <1>1, MovesNothing
<1>3. \A i \in 1 .. Len(keyNames) : turn <= i =>
        Moved(Line, keyFile[keyNames[i]], keyOut[keyNames[i]],
              keyFile[keyNames[i]], keyOut[keyNames[i]], NoLine)
  BY KeyWriter, MovesNothing
<1>4. UNCHANGED <<content, blocks, keyFile, out, keyOut>> => WritersMove
  BY <1>2, <1>3 DEF WritersMove
<1>5. ASSUME NEW n \in 1 .. Len(out.data.held), SpillContent(n)
      PROVE  WritersMove
  <2>1. n \in 0 .. Len(out.data.held)
    BY <1>1 DEF Writer
  <2>2. Moved(Chunk, content, out.data, Received(content, out.data, n, NoChunk),
              HandedOver(out.data, n), NoChunk)
    BY <1>1, <2>1, MovesSome
  <2>3. /\ content' = Received(content, out.data, n, NoChunk) /\ out'.data = HandedOver(out.data, n)
        /\ blocks' = blocks /\ out'.blocks = out.blocks /\ keyFile' = keyFile /\ keyOut' = keyOut
    BY <1>5 DEF SpillContent
  <2>. QED
    BY <1>2, <1>3, <2>2, <2>3 DEF WritersMove
<1>6. ASSUME NEW n \in 1 .. Len(out.blocks.held), SpillBlocks(n)
      PROVE  WritersMove
  <2>1. n \in 0 .. Len(out.blocks.held)
    BY <1>1 DEF Writer
  <2>2. Moved(Record, blocks, out.blocks, Received(blocks, out.blocks, n, NoBlock),
              HandedOver(out.blocks, n), NoBlock)
    BY <1>1, <2>1, MovesSome
  <2>3. /\ blocks' = Received(blocks, out.blocks, n, NoBlock)
        /\ out'.blocks = HandedOver(out.blocks, n)
        /\ content' = content /\ out'.data = out.data /\ keyFile' = keyFile /\ keyOut' = keyOut
    BY <1>6 DEF SpillBlocks
  <2>. QED
    BY <1>2, <1>3, <2>2, <2>3 DEF WritersMove
<1>7. ASSUME NEW k \in KeyNames, NEW n \in 1 .. Len(keyOut[k].held), SpillKey(k, n)
      PROVE  WritersMove
  <2>1. /\ keyFile' = [keyFile EXCEPT ![k] = Received(keyFile[k], keyOut[k], n, NoLine)]
        /\ keyOut' = [keyOut EXCEPT ![k] = HandedOver(keyOut[k], n)]
        /\ content' = content /\ blocks' = blocks /\ out' = out
    BY <1>7 DEF SpillKey
  <2>2. keyFile \in [KeyNames -> Seq(Line)] /\ keyOut \in [KeyNames -> Writer(Line)]
    BY TypesNow
  <2>3. ASSUME NEW i \in 1 .. Len(keyNames), turn <= i
        PROVE  Moved(Line, keyFile[keyNames[i]], keyOut[keyNames[i]],
                     keyFile'[keyNames[i]], keyOut'[keyNames[i]], NoLine)
    <3> DEFINE j == keyNames[i]
    <3>1. j \in KeyNames /\ keyFile[j] \in Seq(Line) /\ keyOut[j] \in Writer(Line)
          /\ keyOut[j].at <= Len(keyFile[j])
      BY <2>3, KeyWriter
    <3>2. Moved(Line, keyFile[j], keyOut[j], keyFile[j], keyOut[j], NoLine)
      BY <1>3, <2>3
    <3> HIDE DEF j
    <3>3. CASE j = k
      <4>1. n \in 0 .. Len(keyOut[j].held)
        BY <3>1, <3>3 DEF Writer
      <4>2. Moved(Line, keyFile[j], keyOut[j], Received(keyFile[j], keyOut[j], n, NoLine),
                  HandedOver(keyOut[j], n), NoLine)
        BY <1>1, <3>1, <4>1, MovesSome
      <4>3. /\ keyFile'[j] = Received(keyFile[j], keyOut[j], n, NoLine)
            /\ keyOut'[j] = HandedOver(keyOut[j], n)
        BY <2>1, <2>2, <3>1, <3>3
      <4>. QED
        BY <4>2, <4>3 DEF j
    <3>4. CASE j # k
      <4>1. keyFile'[j] = keyFile[j] /\ keyOut'[j] = keyOut[j]
        BY <2>1, <2>2, <3>1, <3>4
      <4>. QED
        BY <3>2, <4>1 DEF j
    <3>. QED
      BY <3>3, <3>4
  <2>. QED
    BY <1>2, <2>1, <2>3 DEF WritersMove
<1>. QED
  BY <1>4, <1>5, <1>6, <1>7, Zenon

\* What the actions that flush do: those that flush the store, and those that
\* flush the keys.
LEMMA FlushesMove ==
  ASSUME Typed, MemoryInv, KeyInv,
         \/ /\ content' = Flushed(content, out.data, NoChunk)
            /\ blocks' = Flushed(blocks, out.blocks, NoBlock)
            /\ out' = [data |-> Emptied(out.data), blocks |-> Emptied(out.blocks)]
         \/ UNCHANGED <<content, blocks, out>>,
         \/ /\ keyFile' = [k \in KeyNames |-> Flushed(keyFile[k], keyOut[k], NoLine)]
            /\ keyOut' = [k \in KeyNames |-> Emptied(keyOut[k])]
         \/ UNCHANGED <<keyFile, keyOut>>
  PROVE  WritersMove
<1>1. /\ content \in Seq(Chunk) /\ out.data \in Writer(Chunk) /\ out.data.at <= Len(content)
      /\ blocks \in Seq(Record) /\ out.blocks \in Writer(Record) /\ out.blocks.at <= Len(blocks)
      /\ NoChunk \in Chunk /\ NoBlock \in Record /\ NoLine \in Line
  BY TypesNow, ZerosTyped DEF MemoryInv, EndsAt
<1>2. /\ Moved(Chunk, content, out.data, content', out'.data, NoChunk)
      /\ Moved(Record, blocks, out.blocks, blocks', out'.blocks, NoBlock)
  <2>1. CASE UNCHANGED <<content, blocks, out>>
    BY <1>1, <2>1, MovesNothing
  <2>2. CASE /\ content' = Flushed(content, out.data, NoChunk)
             /\ blocks' = Flushed(blocks, out.blocks, NoBlock)
             /\ out' = [data |-> Emptied(out.data), blocks |-> Emptied(out.blocks)]
    <3>1. /\ Moved(Chunk, content, out.data, Flushed(content, out.data, NoChunk),
                   Emptied(out.data), NoChunk)
          /\ Moved(Record, blocks, out.blocks, Flushed(blocks, out.blocks, NoBlock),
                   Emptied(out.blocks), NoBlock)
      BY <1>1, MovesAll
    <3>2. out'.data = Emptied(out.data) /\ out'.blocks = Emptied(out.blocks)
      BY <2>2
    <3>. QED
      BY <2>2, <3>1, <3>2
  <2>. QED
    BY <2>1, <2>2
<1>3. ASSUME NEW i \in 1 .. Len(keyNames), turn <= i
      PROVE  Moved(Line, keyFile[keyNames[i]], keyOut[keyNames[i]],
                   keyFile'[keyNames[i]], keyOut'[keyNames[i]], NoLine)
  <2> DEFINE j == keyNames[i]
  <2>1. j \in KeyNames /\ keyFile[j] \in Seq(Line) /\ keyOut[j] \in Writer(Line)
        /\ keyOut[j].at <= Len(keyFile[j])
    BY <1>3, KeyWriter
  <2> HIDE DEF j
  <2>2. CASE UNCHANGED <<keyFile, keyOut>>
    <3>1. Moved(Line, keyFile[j], keyOut[j], keyFile[j], keyOut[j], NoLine)
      BY <2>1, MovesNothing
    <3>. QED
      BY <2>2, <3>1 DEF j
  <2>3. CASE /\ keyFile' = [k \in KeyNames |-> Flushed(keyFile[k], keyOut[k], NoLine)]
             /\ keyOut' = [k \in KeyNames |-> Emptied(keyOut[k])]
    <3>1. Moved(Line, keyFile[j], keyOut[j], Flushed(keyFile[j], keyOut[j], NoLine),
                Emptied(keyOut[j]), NoLine)
      BY <1>1, <2>1, MovesAll
    <3>2. keyFile'[j] = Flushed(keyFile[j], keyOut[j], NoLine) /\ keyOut'[j] = Emptied(keyOut[j])
      BY <2>1, <2>3
    <3>. QED
      BY <3>1, <3>2 DEF j
  <2>. QED
    BY <2>2, <2>3
<1>. QED
  BY <1>2, <1>3 DEF WritersMove

\* A steady caller resumes from a checkpoint that holds, opens a fresh builder only
\* where none is to resume, and replaces or interrupts none that resumes.
LEMMA StartsAre ==
  ASSUME Typed, Steady(client), CheckpointInv
  PROVE  /\ \A f \in client.frequencies :
              /\ StartResume(f) => Resumes(client) /\ ckpt.state = "complete" /\ Recoverable
              /\ StartFresh(f) => ~(Resumes(client) /\ ckpt.state = "complete")
              /\ Reopen(f) => ~Recovering(f) /\ ~Resumes(client) /\ FreshBuilder /\ ckpt' = Absent
         /\ Crash => ~(Resumes(client) /\ Publishing)
<1>1. /\ losses \in [crashes : 0 .. client.crashes, reopens : 0 .. client.reopens]
      /\ client \in Caller
  BY TypeParts, DocStoreAssumption DEF CallerTyped
<1>2. losses.reopens \in 0 .. client.reopens /\ client.reopens \in Nat
  BY <1>1 DEF Caller
<1>3. client.reopens = 0 => ~(losses.reopens < client.reopens)
  BY <1>2
<1>4. \/ Resumes(client) /\ client.reopens = 0 /\ ~client.interrupts
      \/ client.frequencies = {0} /\ ~Resumes(client)
  BY DEF Steady, Resumes
<1>5. ASSUME NEW f \in client.frequencies, StartResume(f)
      PROVE  Resumes(client) /\ ckpt.state = "complete" /\ Recoverable
  <2>1. f # 0 /\ ckpt.state = "complete" /\ phase = "down"
    BY <1>5 DEF StartResume, Recovering
  <2>2. Resumes(client) /\ ~Publishing
    BY <1>4, <2>1 DEF Publishing
  <2>. QED
    BY <2>1, <2>2 DEF CheckpointInv
<1>6. ASSUME NEW f \in client.frequencies, StartFresh(f)
      PROVE  ~(Resumes(client) /\ ckpt.state = "complete")
  BY <1>6 DEF StartFresh, Recovering, Resumes
<1>7. ASSUME NEW f \in client.frequencies, Reopen(f)
      PROVE  ~Recovering(f) /\ ~Resumes(client) /\ FreshBuilder /\ ckpt' = Absent
  <2>1. losses.reopens < client.reopens
    BY <1>7 DEF Reopen
  <2>2. ~Resumes(client) /\ f = 0
    BY <1>3, <1>4, <2>1
  <2>3. ~Recovering(f)
    BY <2>2 DEF Recovering
  <2>. QED
    BY <1>7, <2>2, <2>3 DEF Reopen
<1>8. Crash => ~(Resumes(client) /\ Publishing)
  BY <1>4 DEF Crash
<1>. QED
  BY <1>5, <1>6, <1>7, <1>8

\* A builder that met one document more, in the block it fills.
LEMMA BlockedAdd ==
  ASSUME NEW c \in Builder, NEW c2 \in Builder, NEW bs \in Seq(Record), NEW cs \in Seq(Chunk),
         NEW docs \in Seq(Documents), Blocked(c, bs, cs, docs),
         Len(c.index) + 1 <= Len(docs), NEW d \in Documents, docs[Len(c.index) + 1] = d,
         c2.numBlocks = c.numBlocks, c2.contentOffset = c.contentOffset,
         c2.index = Append(c.index, c.numBlocks), c2.intra = Append(c.intra, Len(c.block)),
         c2.block = c.block \o Encode(d)
  PROVE  Blocked(c2, bs, cs, docs)
<1>1. /\ c.numBlocks \in Nat /\ c.index \in Seq(Nat) /\ c.intra \in Seq(Nat) /\ c.block \in DocBlock
      /\ Len(c.index) \in Nat /\ Len(c.intra) = Len(c.index) /\ Len(c.block) \in Nat
  <2>1. /\ c.numBlocks \in Nat /\ c.index \in Seq(Nat) /\ c.intra \in Seq(Nat) /\ c.block \in DocBlock
    BY BuilderIs
  <2>2. Len(c.index) \in Nat /\ Len(c.block) \in Nat
    BY <2>1 DEF DocBlock
  <2>. QED
    BY <2>1, <2>2 DEF Blocked
<1> DEFINE n == Len(c.index)
<1>2. /\ Len(c2.index) = n + 1 /\ Len(c2.intra) = n + 1
      /\ c2.index[n + 1] = c.numBlocks /\ c2.intra[n + 1] = Len(c.block)
      /\ \A i \in 1 .. n : c2.index[i] = c.index[i] /\ c2.intra[i] = c.intra[i]
  <2>1. PICK s, x : s = c.index /\ x = c.numBlocks
    OBVIOUS
  <2>2. /\ Len(Append(s, x)) = n + 1 /\ Append(s, x)[n + 1] = x
        /\ \A i \in 1 .. n : Append(s, x)[i] = s[i]
    BY <1>1, <2>1
  <2>3. PICK u, y : u = c.intra /\ y = Len(c.block)
    OBVIOUS
  <2>4. /\ Len(Append(u, y)) = n + 1 /\ Append(u, y)[n + 1] = y
        /\ \A i \in 1 .. n : Append(u, y)[i] = u[i]
    BY <1>1, <2>3
  <2>. QED
    BY <2>1, <2>2, <2>3, <2>4
<1>3. /\ n \in Nat /\ \A i \in 1 .. n : InPlace(c, bs, cs, docs, i)
  BY <1>1 DEF Blocked
<1>4. \A i \in 1 .. n : docs[i] \in Documents
  BY <1>1
<1>5. docs[n + 1] = d
  OBVIOUS
<1>6. n + 1 <= Len(docs)
  OBVIOUS
<1> HIDE DEF n
<1>7. Encode(d) \in DocBlock
  BY EncodeIs
<1>8. \A at, e : e \in Documents /\ HoldsAt(c.block, at, e) => HoldsAt(c2.block, at, e)
  BY <1>1, <1>7, HoldsAtAppend
<1>9. HoldsAt(c2.block, Len(c.block), d)
  BY <1>1, HoldsAtEnd
<1>10. ASSUME NEW i \in 1 .. Len(c2.index)
      PROVE  InPlace(c2, bs, cs, docs, i)
  <2>1. CASE i = n + 1
    BY <1>2, <1>9, <1>5, <2>1 DEF InPlace
  <2>2. CASE i # n + 1
    <3>1. i \in 1 .. n
      BY <1>2, <1>3, <2>2
    <3>2. InPlace(c, bs, cs, docs, i) /\ docs[i] \in Documents
      BY <1>3, <1>4, <3>1
    <3>. QED
      BY <1>2, <1>8, <3>1, <3>2, Zenon DEF InPlace
  <2>. QED
    BY <2>1, <2>2
<1>11. /\ c2.contentOffset <= Len(cs) /\ c2.numBlocks <= Len(bs)
      /\ \A x \in 1 .. c2.numBlocks : bs[x].offset + bs[x].size <= c2.contentOffset
  BY DEF Blocked
<1>12. Len(c2.intra) = Len(c2.index) /\ Len(c2.index) <= Len(docs)
  BY <1>2, <1>6
<1>. QED
  BY <1>10, <1>11, <1>12 DEF Blocked

\* Every step of a steady caller leaves the memory and the files in agreement.
LEMMA MemoryStep ==
  Typed /\ Typed' /\ Steady(client) /\ MemoryInv /\ KeyInv /\ CheckpointInv /\ [Next]_vars
    => MemoryInv'
<1> SUFFICES ASSUME Typed, Typed', Steady(client), MemoryInv, KeyInv, CheckpointInv, [Next]_vars
             PROVE  MemoryInv'
  OBVIOUS
<1>1. /\ source \in Seq(Documents) /\ content \in Seq(Chunk) /\ blocks \in Seq(Record)
      /\ b \in Builder /\ out.data \in Writer(Chunk) /\ out.blocks \in Writer(Record)
      /\ b.numDocs \in Nat /\ Len(source) \in Nat /\ b.numDocs <= Len(source)
  BY TypesNow
<1>2. /\ content' \in Seq(Chunk) /\ blocks' \in Seq(Record) /\ b' \in Builder
      /\ source' \in Seq(Documents)
  <2>1. FilesTyped' /\ BuilderTyped' /\ CallerTyped'
    BY TypeParts, PTL
  <2>. QED
    BY <2>1 DEF FilesTyped, BuilderTyped, CallerTyped
<1>3. /\ EndsAt(content, out.data, b.contentOffset) /\ EndsAt(blocks, out.blocks, b.numBlocks)
      /\ Len(b.index) = IF phase = "adding" THEN b.numDocs + 1 ELSE b.numDocs
      /\ Blocked(b, FullBlocks, FullContent, source)
      /\ b.block # <<>> => b.count > 0 \/ phase = "adding"
  BY DEF MemoryInv
<1>4. FullContent \in Seq(Chunk) /\ FullBlocks \in Seq(Record)
  BY <1>1, <1>3, FlushedIs, ZerosTyped DEF FullContent, FullBlocks, EndsAt
<1>5. NewOut = [data |-> WriterAt(0), blocks |-> WriterAt(0)] /\ Len(<<>>) = 0
  BY DEF NewOut, Nothing, WriterAt
<1>6. ASSUME FreshBuilder \/ (b' = NewBuilder /\ out' = NewOut), UNCHANGED source, phase' # "adding"
      PROVE  MemoryInv'
  <2>1. b' = NewBuilder /\ out' = NewOut
    BY <1>6 DEF FreshBuilder
  <2>2. /\ Blocked(b', blocks', content', source') /\ b'.numDocs = 0 /\ b'.index = <<>>
        /\ b'.block = <<>> /\ b'.contentOffset = 0 /\ b'.numBlocks = 0
    BY <1>2, <2>1, BlockedNew
  <2>3. out' = [data |-> WriterAt(b'.contentOffset), blocks |-> WriterAt(b'.numBlocks)]
    BY <1>5, <2>1, <2>2
  <2>4. Len(b'.index) = b'.numDocs
    BY <1>5, <2>2
  <2>. QED
    BY <1>6, <2>2, <2>3, <2>4, MemoryStarts
<1>7. ASSUME WritersMove, UNCHANGED <<source, b>>, phase' = "adding" <=> phase = "adding"
      PROVE  MemoryInv'
  BY <1>7, MemoryMoves
<1>8. ASSUME UNCHANGED <<source, content, blocks, b, out>>, phase' = "adding" <=> phase = "adding"
      PROVE  MemoryInv'
  BY <1>8, MemoryFrame
<1>9. ASSUME NEW f \in client.frequencies, StartResume(f)
       PROVE  MemoryInv'
  <2>1. Recoverable /\ ckpt.state = "complete"
    BY <1>9, StartsAre
  <2>2. /\ b' = ckpt.b /\ content' = SetLen(content, ckpt.b.contentOffset, NoChunk)
        /\ blocks' = SetLen(blocks, ckpt.b.numBlocks, NoBlock) /\ source' = source
        /\ out' = [data |-> WriterAt(ckpt.b.contentOffset), blocks |-> WriterAt(ckpt.b.numBlocks)]
        /\ phase' = "idle"
    BY <1>9 DEF StartResume, ResumeBuilder, Rewound, caller
  <2>3. ckpt.b \in Builder
    BY <1>2, <2>2
  <2>4. ckpt.b.contentOffset \in Nat /\ ckpt.b.numBlocks \in Nat
    BY <2>3, BuilderIs
  <2>5. Blocked(ckpt.b, blocks, content, source)
    BY <2>1 DEF Recoverable
  <2>6. ckpt.b.contentOffset <= Len(content) /\ ckpt.b.numBlocks <= Len(blocks)
    BY <2>5 DEF Blocked
  <2>7. Agree(content, content', ckpt.b.contentOffset) /\ Agree(blocks, blocks', ckpt.b.numBlocks)
    BY <1>1, <2>2, <2>4, <2>6, SetLenIs, ZerosTyped
  <2>8. Agree(source, source, Len(source))
    BY DEF Agree
  <2>9. Blocked(ckpt.b, blocks', content', source)
    BY <1>1, <1>2, <2>3, <2>5, <2>7, <2>8, BlockedKept
  <2>10. Len(b'.index) = b'.numDocs /\ (b'.block # <<>> => b'.count > 0)
    BY <2>1, <2>2 DEF Recoverable
  <2>11. /\ out' = [data |-> WriterAt(b'.contentOffset), blocks |-> WriterAt(b'.numBlocks)]
         /\ Blocked(b', blocks', content', source') /\ phase' # "adding"
    BY <2>2, <2>9
  <2>. QED
    BY <2>2, <2>10, <2>11, MemoryStarts
<1>10. ASSUME NEW f \in client.frequencies, StartFresh(f)
       PROVE  MemoryInv'
  <2>1. FreshBuilder /\ UNCHANGED source /\ phase' # "adding"
    BY <1>10 DEF StartFresh, caller
  <2>. QED
    BY <1>6, <2>1
<1>11. ASSUME NEW f \in client.frequencies, Reopen(f)
       PROVE  MemoryInv'
  <2>1. FreshBuilder /\ UNCHANGED source /\ phase' # "adding"
    BY <1>11, StartsAre DEF Reopen
  <2>. QED
    BY <1>6, <2>1
<1>12. ASSUME FreshClean
       PROVE  MemoryInv'
  BY <1>8, <1>12 DEF FreshClean, caller, memory
<1>13. ASSUME NEW n \in 1 .. Len(out.data.held), SpillContent(n)
       PROVE  MemoryInv'
  BY <1>7, <1>13, SpillsMove DEF SpillContent, caller
<1>14. ASSUME NEW n \in 1 .. Len(out.blocks.held), SpillBlocks(n)
       PROVE  MemoryInv'
  BY <1>7, <1>14, SpillsMove DEF SpillBlocks, caller
<1>15. ASSUME NEW k \in KeyNames, NEW n \in 1 .. Len(keyOut[k].held), SpillKey(k, n)
       PROVE  MemoryInv'
  BY <1>7, <1>15, SpillsMove DEF SpillKey, caller
<1>16. ASSUME NEW d \in Documents, BeginAdd(d)
       PROVE  MemoryInv'
  <2>1. /\ phase = "idle" /\ phase' = "adding" /\ UNCHANGED <<content, blocks, out>>
        /\ IF b.numDocs < Len(source) THEN d = source[b.numDocs + 1] /\ source' = source
           ELSE source' = Append(source, d)
    BY <1>16 DEF BeginAdd, disk
  <2>2. /\ b'.numBlocks = b.numBlocks /\ b'.contentOffset = b.contentOffset
        /\ b'.numDocs = b.numDocs
        /\ b'.index = Append(b.index, b.numBlocks) /\ b'.intra = Append(b.intra, Len(b.block))
        /\ b'.block = b.block \o Encode(d)
    BY <1>16 DEF BeginAdd
  <2>3. Agree(source, source', Len(source)) /\ b.numDocs + 1 <= Len(source')
        /\ source'[b.numDocs + 1] = d
    <3>1. CASE b.numDocs < Len(source)
      BY <1>1, <2>1, <3>1 DEF Agree
    <3>2. CASE ~(b.numDocs < Len(source))
      <4>1. source' = Append(source, d) /\ b.numDocs = Len(source)
        BY <1>1, <2>1, <3>2
      <4>2. Len(source') = Len(source) + 1 /\ source'[Len(source) + 1] = d
            /\ \A i \in 1 .. Len(source) : source'[i] = source[i]
        BY <1>1, <4>1
      <4>3. Agree(source, source', Len(source))
        BY <1>1, <4>2 DEF Agree
      <4>. QED
        BY <1>1, <4>1, <4>2, <4>3
    <3>. QED
      BY <3>1, <3>2
  <2>4. FullBlocks' = FullBlocks /\ FullContent' = FullContent
    BY <2>1 DEF FullBlocks, FullContent
  <2>5. Blocked(b, FullBlocks, FullContent, source')
    <3>1. b.numBlocks \in Nat /\ b.contentOffset \in Nat
      BY <1>1, BuilderIs
    <3>2. b.numBlocks <= Len(FullBlocks) /\ b.contentOffset <= Len(FullContent)
      BY <1>3 DEF Blocked
    <3>3. Agree(FullBlocks, FullBlocks, b.numBlocks)
          /\ Agree(FullContent, FullContent, b.contentOffset)
      BY <3>1, <3>2 DEF Agree
    <3>. QED
      BY <1>1, <1>2, <1>3, <1>4, <2>3, <3>3, BlockedKept, Zenon
  <2>6. Len(b.index) = b.numDocs
    BY <1>3, <2>1
  <2>7. Blocked(b', FullBlocks, FullContent, source')
    BY <1>1, <1>2, <1>4, <2>2, <2>3, <2>5, <2>6, BlockedAdd
  <2>8. /\ EndsAt(content', out'.data, b'.contentOffset)
        /\ EndsAt(blocks', out'.blocks, b'.numBlocks)
    BY <1>3, <2>1, <2>2, Zenon
  <2>9. Len(b'.index) = b'.numDocs + 1
    <3>1. b.index \in Seq(Nat) /\ b.numBlocks \in Nat
      BY <1>1, BuilderIs
    <3>. QED
      BY <2>2, <2>6, <3>1
  <2>. QED
    BY <2>1, <2>4, <2>7, <2>8, <2>9 DEF MemoryInv
<1>17. ASSUME NEW k \in KeyNames, AddKey(k)
       PROVE  MemoryInv'
  BY <1>8, <1>17 DEF AddKey, caller
<1>18. ASSUME EndAdd
       PROVE  MemoryInv'
  <2> DEFINE c == [numBlocks |-> b.numBlocks, numDocs |-> b.numDocs + 1,
                   contentOffset |-> b.contentOffset, index |-> b.index, intra |-> b.intra,
                   block |-> b.block, count |-> b.count + 1]
  <2>1. /\ b.numBlocks \in Nat /\ b.contentOffset \in Nat /\ b.index \in Seq(Nat)
        /\ b.intra \in Seq(Nat) /\ b.block \in DocBlock /\ b.count \in Nat
    BY <1>1, BuilderIs
  <2>2. c \in Builder /\ c.count > 0
    BY <1>1, <2>1 DEF Builder
  <2>3. /\ c.numBlocks = b.numBlocks /\ c.numDocs = b.numDocs + 1
        /\ c.contentOffset = b.contentOffset
        /\ c.index = b.index /\ c.intra = b.intra /\ c.block = b.block
    OBVIOUS
  <2>4. /\ FlushBlock(c, out) \/ (b' = c /\ out' = out)
        /\ UNCHANGED <<source, content, blocks>>
        /\ phase = "adding" /\ phase' # "adding"
    BY <1>18 DEF EndAdd, caller, disk
  <2> HIDE DEF c
  <2>5. Blocked(c, FullBlocks, FullContent, source)
    BY <1>3, <2>3, Zenon DEF Blocked, InPlace
  <2>6. EndsAt(content, out.data, c.contentOffset) /\ EndsAt(blocks, out.blocks, c.numBlocks)
    BY <1>3, <2>3, Zenon
  <2>7. Len(c.index) = c.numDocs
    BY <1>3, <2>3, <2>4
  <2>8. CASE FlushBlock(c, out)
    <3>1. /\ EndsAt(content', out'.data, b'.contentOffset)
          /\ EndsAt(blocks', out'.blocks, b'.numBlocks)
          /\ Blocked(b', FullBlocks', FullContent', source')
          /\ b'.block = <<>> /\ b'.index = c.index /\ b'.numDocs = c.numDocs
      BY <2>2, <2>4, <2>5, <2>6, <2>8, FlushBlockKeeps
    <3>. QED
      BY <2>4, <2>7, <3>1 DEF MemoryInv
  <2>9. CASE b' = c /\ out' = out
    <3>1. FullBlocks' = FullBlocks /\ FullContent' = FullContent
      BY <2>4, <2>9 DEF FullBlocks, FullContent
    <3>2. Blocked(b', FullBlocks', FullContent', source')
      BY <2>4, <2>5, <2>9, <3>1, Zenon
    <3>3. EndsAt(content', out'.data, b'.contentOffset)
          /\ EndsAt(blocks', out'.blocks, b'.numBlocks)
      BY <2>4, <2>6, <2>9, Zenon
    <3>. QED
      BY <2>2, <2>4, <2>7, <2>9, <3>2, <3>3 DEF MemoryInv
  <2>. QED
    BY <2>4, <2>8, <2>9
<1>19. ASSUME CallCheckpoint
       PROVE  MemoryInv'
  BY <1>8, <1>19 DEF CallCheckpoint, caller, disk, memory
<1>20. ASSUME CheckpointFlush
       PROVE  MemoryInv'
  <2>1. WritersMove
    BY <1>20, FlushesMove DEF CheckpointFlush
  <2>. QED
    BY <1>7, <1>20, <2>1 DEF CheckpointFlush, caller
<1>21. ASSUME CheckpointRename
       PROVE  MemoryInv'
  BY <1>8, <1>21 DEF CheckpointRename, caller
<1>22. ASSUME BeginBuild
       PROVE  MemoryInv'
  <2>1. /\ FlushBlock(b, out) /\ UNCHANGED <<source, content, blocks>>
        /\ phase = "idle" /\ phase' = "build_flush"
    BY <1>22 DEF BeginBuild, caller, disk
  <2>2. /\ EndsAt(content', out'.data, b'.contentOffset)
        /\ EndsAt(blocks', out'.blocks, b'.numBlocks)
        /\ Blocked(b', FullBlocks', FullContent', source')
        /\ b'.block = <<>> /\ b'.index = b.index /\ b'.numDocs = b.numDocs
    BY <1>1, <1>3, <2>1, FlushBlockKeeps
  <2>. QED
    BY <1>3, <2>1, <2>2 DEF MemoryInv
<1>23. ASSUME BuildFlush
       PROVE  MemoryInv'
  <2>1. WritersMove
    BY <1>23, FlushesMove DEF BuildFlush
  <2>. QED
    BY <1>7, <1>23, <2>1 DEF BuildFlush, caller
<1>24. ASSUME BuildOffsets
       PROVE  MemoryInv'
  BY <1>8, <1>24 DEF BuildOffsets, caller
<1>25. ASSUME BuildKey
       PROVE  MemoryInv'
  BY <1>8, <1>25 DEF BuildKey, caller
<1>26. ASSUME BuildMeta
       PROVE  MemoryInv'
  BY <1>8, <1>26 DEF BuildMeta, caller, memory
<1>27. ASSUME BuildClean
       PROVE  MemoryInv'
  BY <1>8, <1>27 DEF BuildClean, caller, memory
<1>28. ASSUME Crash
       PROVE  MemoryInv'
  BY <1>6, <1>28 DEF Crash
<1>29. CASE UNCHANGED vars
  BY <1>8, <1>29 DEF vars
<1>. QED
  BY <1>9, <1>10, <1>11, <1>12, <1>13, <1>14, <1>15, <1>16, <1>17, <1>18, <1>19, <1>20, <1>21,
     <1>22, <1>23, <1>24, <1>25, <1>26, <1>27, <1>28, <1>29 DEF Next, Finished

-----------------------------------------------------------------------------
(***************************************************************************)
(* The lines of keys                                                       *)
(***************************************************************************)

\* No document has no line; documents that are the same have the same lines.
LEMMA LinesNone ==
  ASSUME NEW docs, NEW k
  PROVE  Lines(docs, k, 0) = {}
<1>1. \A e : e \notin 0 .. 0 - 1
  OBVIOUS
<1>. QED
  BY <1>1 DEF Lines

\* The lines of a key name depend only on the documents that are counted.
LEMMA LinesAgree ==
  ASSUME NEW docs, NEW docs2, NEW k, NEW n \in Nat, Agree(docs, docs2, n)
  PROVE  Lines(docs2, k, n) = Lines(docs, k, n)
<1>1. \A d \in 0 .. n - 1 : docs2[d + 1] = docs[d + 1]
  <2> TAKE d \in 0 .. n - 1
  <2>1. d + 1 \in 1 .. n
    OBVIOUS
  <2>. QED
    BY <2>1 DEF Agree
<1>. QED
  BY <1>1, Zenon DEF Lines

\* A line is that of a document counted.
LEMMA LineIs ==
  ASSUME NEW docs, NEW k, NEW n \in Nat, NEW l \in Lines(docs, k, n)
  PROVE  /\ l.doc \in 0 .. n - 1 /\ k \in DOMAIN docs[l.doc + 1].keys
         /\ l = [value |-> docs[l.doc + 1].keys[k], doc |-> l.doc]
<1>1. PICK d \in {e \in 0 .. n - 1 : k \in DOMAIN docs[e + 1].keys} :
        l = [value |-> docs[d + 1].keys[k], doc |-> d]
  BY DEF Lines
<1>2. l.doc = d
  BY <1>1
<1>. QED
  BY <1>1, <1>2

\* The next document adds its line.
LEMMA LinesNext ==
  ASSUME NEW docs, NEW k, NEW n \in Nat
  PROVE  /\ k \notin DOMAIN docs[n + 1].keys => Lines(docs, k, n + 1) = Lines(docs, k, n)
         /\ k \in DOMAIN docs[n + 1].keys =>
              Lines(docs, k, n + 1) =
                Lines(docs, k, n) \cup {[value |-> docs[n + 1].keys[k], doc |-> n]}
         /\ \A v : [value |-> v, doc |-> n] \notin Lines(docs, k, n)
<1> DEFINE has(e) == k \in DOMAIN docs[e + 1].keys
           line(e) == [value |-> docs[e + 1].keys[k], doc |-> e]
<1>1. 0 .. (n + 1) - 1 = (0 .. n - 1) \cup {n} /\ n \notin 0 .. n - 1
  OBVIOUS
<1>2. Lines(docs, k, n + 1) = {line(e) : e \in {d \in 0 .. (n + 1) - 1 : has(d)}}
  BY DEF Lines
<1>3. Lines(docs, k, n) = {line(e) : e \in {d \in 0 .. n - 1 : has(d)}}
  BY DEF Lines
<1>4. \A v : [value |-> v, doc |-> n] \notin Lines(docs, k, n)
  <2> SUFFICES ASSUME NEW v, [value |-> v, doc |-> n] \in Lines(docs, k, n) PROVE FALSE
    OBVIOUS
  <2>1. [value |-> v, doc |-> n].doc \in 0 .. n - 1
    BY LineIs
  <2>. QED
    BY <1>1, <2>1
<1>5. ~has(n) => Lines(docs, k, n + 1) = Lines(docs, k, n)
  <2> HIDE DEF has, line
  <2>. QED
    BY <1>1, <1>2, <1>3
<1>6. has(n) => Lines(docs, k, n + 1) = Lines(docs, k, n) \cup {line(n)}
  <2> HIDE DEF has, line
  <2>. QED
    BY <1>1, <1>2, <1>3
<1>. QED
  BY <1>4, <1>5, <1>6

\* A line put into the writer of a key that has the lines of the documents before.
LEMMA PutLine ==
  ASSUME NEW f \in Seq(Line), NEW w \in Writer(Line), w.at = Len(f),
         NEW docs \in Seq(Documents), NEW n \in Nat, n < Len(docs),
         NEW k, k \in DOMAIN docs[n + 1].keys,
         Keyed(Flushed(f, w, NoLine), docs, k, n)
  PROVE  LET line == [value |-> docs[n + 1].keys[k], doc |-> n]
         IN /\ Put(w, <<line>>).at = Len(f)
            /\ Keyed(Flushed(f, Put(w, <<line>>), NoLine), docs, k, n + 1)
<1> DEFINE line == [value |-> docs[n + 1].keys[k], doc |-> n]
           s == <<line>>
           G == Flushed(f, w, NoLine)
           H == Flushed(f, Put(w, s), NoLine)
           e == w.at + Len(w.held)
<1>1. line \in Line
  <2>1. docs[n + 1] \in Documents
    OBVIOUS
  <2>2. docs[n + 1].keys[k] \in KeyValues
    BY <2>1, DocumentIs
  <2>. QED
    BY <2>2 DEF Line
<1>2. /\ Lines(docs, k, n + 1) = Lines(docs, k, n) \cup {line}
      /\ line \notin Lines(docs, k, n)
  BY LinesNext
<1> HIDE DEF line
<1>3. s \in Seq(Line) /\ Len(s) = 1 /\ s[1] = line
  BY <1>1
<1> HIDE DEF s
<1>4. NoLine \in Line /\ w.at <= Len(f) /\ Len(f) \in Nat
  BY ZerosTyped
<1>5. PutsAfter(Line, f, w, s, NoLine, e)
  BY <1>3, <1>4, PutKeeps
<1>6. /\ Put(w, s) \in Writer(Line) /\ Put(w, s).at = w.at
      /\ Put(w, s).at + Len(Put(w, s).held) = e + 1
      /\ Agree(G, H, e) /\ \A i \in 1 .. Len(s) : H[e + i] = s[i]
  BY <1>3, <1>5, Zenon DEF PutsAfter
<1>7. Len(G) = e
  BY <1>4, FlushedAppends
<1>8. Len(H) = e + 1
  <2>1. PICK v : v = Put(w, s)
    OBVIOUS
  <2>2. v \in Writer(Line) /\ v.at = Len(f) /\ v.at + Len(v.held) = e + 1
    BY <1>6, <2>1
  <2>3. Len(Flushed(f, v, NoLine)) = v.at + Len(v.held)
    BY <1>4, <2>2, FlushedAppends
  <2>. QED
    BY <2>1, <2>2, <2>3
<1>9. G \in Seq(Line) /\ H \in Seq(Line)
  BY <1>4, <1>6, FlushedIs
<1>10. H[e + 1] = line /\ \A i \in 1 .. e : H[i] = G[i]
  BY <1>3, <1>6 DEF Agree
<1>11. IsInjective(G) /\ Range(G) = Lines(docs, k, n)
  BY DEF Keyed
<1>12. e \in Nat
  BY DEF Writer
<1> HIDE DEF G, H, e
<1>13. DOMAIN G = 1 .. e /\ DOMAIN H = 1 .. e + 1
  BY <1>7, <1>8, <1>9
<1>14. 1 .. e + 1 = (1 .. e) \cup {e + 1} /\ e + 1 \notin 1 .. e
  BY <1>12
<1>15. \A i \in 1 .. e : G[i] # line
  BY <1>2, <1>11, <1>13 DEF Range
<1>16. IsInjective(H)
  BY <1>10, <1>11, <1>13, <1>14, <1>15 DEF IsInjective
<1>17. Range(H) = Range(G) \cup {line}
  BY <1>10, <1>13, <1>14 DEF Range
<1>18. Keyed(H, docs, k, n + 1)
  BY <1>2, <1>11, <1>16, <1>17 DEF Keyed
<1>. QED
  BY <1>6, <1>18 DEF H, s, line

\* A step that leaves the key names, the lines there are and what the open key
\* files will hold.
LEMMA KeyFrame ==
  ASSUME KeyInv, keyNames' = keyNames, turn \in Int, turn' \in Int, turn <= turn',
         Len(keyNames) \in Nat,
         \A k \in KeyNames : Lines(source', k, Done(k)') = Lines(source, k, Done(k)),
         \A i \in 1 .. Len(keyNames) : keyNames[i] \in KeyNames,
         \A i \in 1 .. Len(keyNames) : turn' <= i =>
           /\ keyOut'[keyNames[i]].at = Len(keyFile'[keyNames[i]])
           /\ Flushed(keyFile'[keyNames[i]], keyOut'[keyNames[i]], NoLine) = FullKey(keyNames[i])
  PROVE  KeyInv'
<1>1. IsInjective(keyNames)'
  BY DEF KeyInv
<1>2. \A k \in KeyNames : k \in Range(keyNames') <=> Lines(source', k, Done(k)') # {}
  BY Zenon DEF KeyInv
<1>3. ASSUME NEW i \in 1 .. Len(keyNames), turn' <= i
      PROVE  /\ keyOut'[keyNames[i]].at = Len(keyFile'[keyNames[i]])
             /\ Keyed(FullKey(keyNames[i])', source', keyNames[i], Done(keyNames[i])')
  <2>1. turn <= i
    BY <1>3
  <2>2. Keyed(FullKey(keyNames[i]), source, keyNames[i], Done(keyNames[i]))
    BY <2>1, Zenon DEF KeyInv
  <2>3. FullKey(keyNames[i])' = FullKey(keyNames[i])
    <3>1. FullKey(keyNames[i])' = Flushed(keyFile'[keyNames[i]], keyOut'[keyNames[i]], NoLine)
      BY Zenon DEF FullKey
    <3>. QED
      BY <1>3, <3>1, Zenon
  <2>4. Lines(source', keyNames[i], Done(keyNames[i])') =
          Lines(source, keyNames[i], Done(keyNames[i]))
    BY Zenon
  <2>5. Keyed(FullKey(keyNames[i])', source', keyNames[i], Done(keyNames[i])')
    BY <2>2, <2>3, <2>4, Zenon DEF Keyed
  <2>. QED
    BY <1>3, <2>5, Zenon
<1>. QED
  BY <1>1, <1>2, <1>3, Zenon DEF KeyInv

\* A step that hands records over, or that leaves the key files alone.
LEMMA KeyMoves ==
  ASSUME Typed, KeyInv, WritersMove \/ UNCHANGED <<keyFile, keyOut>>,
         keyNames' = keyNames, turn' \in Int, turn <= turn',
         \A k \in KeyNames : Lines(source', k, Done(k)') = Lines(source, k, Done(k))
  PROVE  KeyInv'
<1>1. turn \in Int /\ Len(keyNames) \in Nat
  BY TypesNow
<1>2. \A i \in 1 .. Len(keyNames) : keyNames[i] \in KeyNames
  BY TypesNow, ElementOf
<1>3. ASSUME NEW i \in 1 .. Len(keyNames), turn' <= i
      PROVE  /\ keyOut'[keyNames[i]].at = Len(keyFile'[keyNames[i]])
             /\ Flushed(keyFile'[keyNames[i]], keyOut'[keyNames[i]], NoLine) = FullKey(keyNames[i])
  <2>1. turn <= i
    BY <1>1, <1>3
  <2>2. keyOut[keyNames[i]].at = Len(keyFile[keyNames[i]])
    BY <2>1, KeyWriter
  <2>3. CASE WritersMove
    BY <2>1, <2>2, <2>3 DEF WritersMove, Moved, FullKey
  <2>4. CASE UNCHANGED <<keyFile, keyOut>>
    BY <2>2, <2>4 DEF FullKey
  <2>. QED
    BY <2>3, <2>4
<1>. QED
  BY <1>1, <1>2, <1>3, KeyFrame, Zenon

\* A builder that opens or that is gone, with the key names and files it has.
LEMMA KeyStarts ==
  ASSUME phase' # "adding", IsInjective(keyNames'),
         \A k \in KeyNames : k \in Range(keyNames') <=> Lines(source', k, b'.numDocs) # {},
         \A i \in 1 .. Len(keyNames') :
           /\ keyOut'[keyNames'[i]].at = Len(keyFile'[keyNames'[i]])
           /\ Keyed(Flushed(keyFile'[keyNames'[i]], keyOut'[keyNames'[i]], NoLine),
                    source', keyNames'[i], b'.numDocs)
  PROVE  KeyInv'
<1>1. \A k : Done(k)' = b'.numDocs
  BY DEF Done
<1>2. \A k \in KeyNames : k \in Range(keyNames') <=> Lines(source', k, Done(k)') # {}
  BY <1>1
<1>3. ASSUME NEW i \in 1 .. Len(keyNames')
      PROVE  /\ keyOut'[keyNames'[i]].at = Len(keyFile'[keyNames'[i]])
             /\ Keyed(FullKey(keyNames[i])', source', keyNames'[i], Done(keyNames[i])')
  <2>1. Done(keyNames[i])' = b'.numDocs
    BY DEF Done
  <2>2. FullKey(keyNames[i])' = Flushed(keyFile'[keyNames'[i]], keyOut'[keyNames'[i]], NoLine)
    BY DEF FullKey
  <2>. QED
    BY <2>1, <2>2
<1>. QED
  BY <1>2, <1>3, Zenon DEF KeyInv

\* The files of the keys a checkpoint names are resumed with their lines.
LEMMA KeysResume ==
  ASSUME Typed, Recoverable, ckpt.state = "complete", ResumeBuilder,
         keyFile' = Rewound.keyFile, UNCHANGED source, phase' # "adding"
  PROVE  KeyInv'
<1>1. /\ keyNames' = ckpt.names /\ b' = ckpt.b
      /\ keyOut' = [k \in KeyNames |->
                    IF k \in Range(ckpt.names) THEN WriterAt(SavedLength(k)) ELSE Nothing]
      /\ keyFile' = [k \in KeyNames |-> IF k \in Range(ckpt.names)
                                        THEN SetLen(keyFile[k], SavedLength(k), NoLine)
                                        ELSE keyFile[k]]
  BY DEF ResumeBuilder, Rewound
<1>2. /\ ckpt.names \in Seq(KeyNames) /\ ckpt.lengths \in Seq(Nat)
      /\ Len(ckpt.lengths) = Len(ckpt.names) /\ IsInjective(ckpt.names)
      /\ \A i \in 1 .. Len(ckpt.names) : SavedLength(ckpt.names[i]) = ckpt.lengths[i]
  BY SavedLengthIs DEF Checkpoint, Recoverable
<1>3. \A k \in KeyNames : k \in Range(keyNames') <=> Lines(source', k, b'.numDocs) # {}
  BY <1>1 DEF Recoverable
<1>4. ASSUME NEW i \in 1 .. Len(ckpt.names)
      PROVE  /\ keyOut'[ckpt.names[i]].at = Len(keyFile'[ckpt.names[i]])
             /\ Keyed(Flushed(keyFile'[ckpt.names[i]], keyOut'[ckpt.names[i]], NoLine),
                      source, ckpt.names[i], ckpt.b.numDocs)
  <2>1. PICK k, n : k = ckpt.names[i] /\ n = ckpt.lengths[i]
    OBVIOUS
  <2>2. k \in KeyNames /\ k \in Range(ckpt.names) /\ n \in Nat /\ SavedLength(k) = n
    BY <1>2, <2>1 DEF Range
  <2>3. keyFile[k] \in Seq(Line)
    BY <2>2, TypesNow
  <2>4. n <= Len(keyFile[k]) /\ Keyed(SubSeq(keyFile[k], 1, n), source, k, ckpt.b.numDocs)
    BY <2>1 DEF Recoverable
  <2>5. keyOut'[k] = WriterAt(n) /\ keyFile'[k] = SetLen(keyFile[k], n, NoLine)
    BY <1>1, <2>2
  <2>6. \A f \in Seq(Line) : n <= Len(f) =>
          /\ SetLen(f, n, NoLine) \in Seq(Line) /\ Len(SetLen(f, n, NoLine)) = n
          /\ SetLen(f, n, NoLine) = SubSeq(f, 1, n)
    BY <2>2, SetLenIs, ZerosTyped
  <2>7. \A f \in Seq(Line) : WriterAt(n).at = n /\ Flushed(f, WriterAt(n), NoLine) = f
    BY <2>2, WriterAtIs
  <2>8. keyOut'[k].at = Len(keyFile'[k])
        /\ Keyed(Flushed(keyFile'[k], keyOut'[k], NoLine), source, k, ckpt.b.numDocs)
    BY <2>3, <2>4, <2>5, <2>6, <2>7
  <2>. QED
    BY <2>1, <2>8
<1>5. \A i \in 1 .. Len(keyNames') :
        /\ keyOut'[keyNames'[i]].at = Len(keyFile'[keyNames'[i]])
        /\ Keyed(Flushed(keyFile'[keyNames'[i]], keyOut'[keyNames'[i]], NoLine),
                 source', keyNames'[i], b'.numDocs)
  BY <1>1, <1>4
<1>. QED
  BY <1>1, <1>2, <1>3, <1>5, KeyStarts

\* A line is written for a key of the document being added.
LEMMA KeysAdd ==
  ASSUME Typed, KeyInv, NEW k \in KeyNames, AddKey(k)
  PROVE  KeyInv'
<1>1. /\ source \in Seq(Documents) /\ keyFile \in [KeyNames -> Seq(Line)]
      /\ b.numDocs \in Nat /\ keyOut \in [KeyNames -> Writer(Line)]
      /\ keyNames \in Seq(KeyNames) /\ Len(keyNames) \in Nat
  BY TypesNow
<1> DEFINE n == b.numDocs
           line == [value |-> source[n + 1].keys[k], doc |-> n]
           s == <<line>>
<1>2. /\ phase = "adding" /\ k \in todo /\ phase' = "adding" /\ todo' = todo \ {k}
      /\ UNCHANGED <<source, b, turn>>
  BY DEF AddKey, caller
<1>3. n < Len(source) /\ k \in DOMAIN source[n + 1].keys /\ turn = 0
  BY <1>2, TypesNow DEF Closed
<1>4. Lines(source, k, n + 1) # {}
  BY <1>1, <1>3, LinesNext
<1>5. Done(k) = n /\ Done(k)' = n + 1
  BY <1>2 DEF Done
<1>6. \A j \in KeyNames : j # k => Done(j)' = Done(j)
  BY <1>2 DEF Done
<1>7. \A i \in 1 .. Len(keyNames) :
        /\ keyNames[i] \in KeyNames
        /\ keyOut[keyNames[i]].at = Len(keyFile[keyNames[i]])
        /\ Keyed(FullKey(keyNames[i]), source, keyNames[i], Done(keyNames[i]))
  <2>1. \A i \in 1 .. Len(keyNames) : keyNames[i] \in KeyNames
    BY <1>1, ElementOf
  <2>2. \A i \in 1 .. Len(keyNames) : turn <= i
    BY <1>3
  <2>. QED
    BY <2>1, <2>2 DEF KeyInv
<1>8. /\ IsInjective(keyNames)
      /\ \A j \in KeyNames : j \in Range(keyNames) <=> Lines(source, j, Done(j)) # {}
  BY DEF KeyInv
<1>9. \A f \in Seq(Line), w \in Writer(Line) :
        w.at = Len(f) /\ Keyed(Flushed(f, w, NoLine), source, k, n) =>
          /\ Put(w, s).at = Len(f)
          /\ Keyed(Flushed(f, Put(w, s), NoLine), source, k, n + 1)
  BY <1>1, <1>3, PutLine
<1>10. CASE k \in Range(keyNames)
  <2>1. /\ keyOut' = [keyOut EXCEPT ![k] = Put(keyOut[k], s)]
        /\ UNCHANGED <<keyFile, keyNames>>
    BY <1>10 DEF AddKey
  <2> HIDE DEF s, n
  <2>2. \A j \in KeyNames : j \in Range(keyNames') <=> Lines(source', j, Done(j)') # {}
    BY <1>2, <1>4, <1>5, <1>6, <1>8, <1>10, <2>1
  <2>3. ASSUME NEW i \in 1 .. Len(keyNames)
        PROVE  /\ keyOut'[keyNames[i]].at = Len(keyFile'[keyNames[i]])
               /\ Keyed(FullKey(keyNames[i])', source', keyNames[i], Done(keyNames[i])')
    <3>1. PICK j : j = keyNames[i]
      OBVIOUS
    <3>2. /\ j \in KeyNames /\ keyOut[j].at = Len(keyFile[j])
          /\ Keyed(Flushed(keyFile[j], keyOut[j], NoLine), source, j, Done(j))
      BY <1>7, <3>1 DEF FullKey
    <3>3. FullKey(keyNames[i])' = Flushed(keyFile[j], keyOut'[j], NoLine)
      BY <2>1, <3>1 DEF FullKey
    <3>4. Done(keyNames[i])' = Done(j)'
      BY <2>1, <3>1 DEF Done
    <3>5. CASE j = k
      <4>1. keyOut'[j] = Put(keyOut[j], s) /\ keyOut[j] \in Writer(Line) /\ keyFile[j] \in Seq(Line)
        BY <1>1, <2>1, <3>2, <3>5
      <4>2. Keyed(Flushed(keyFile[j], keyOut[j], NoLine), source, k, n)
        BY <1>5, <3>2, <3>5
      <4>3. /\ Put(keyOut[j], s).at = Len(keyFile[j])
            /\ Keyed(Flushed(keyFile[j], Put(keyOut[j], s), NoLine), source, k, n + 1)
        BY <1>9, <3>2, <4>1, <4>2
      <4>4. Done(keyNames[i])' = n + 1
        BY <1>5, <3>4, <3>5
      <4>. QED
        BY <1>2, <2>1, <3>1, <3>3, <3>5, <4>1, <4>3, <4>4
    <3>6. CASE j # k
      <4>1. keyOut'[j] = keyOut[j] /\ Done(keyNames[i])' = Done(j)
        BY <1>1, <1>6, <2>1, <3>2, <3>4, <3>6
      <4>. QED
        BY <1>2, <2>1, <3>1, <3>2, <3>3, <4>1
    <3>. QED
      BY <3>5, <3>6
  <2>. QED
    BY <1>8, <2>1, <2>2, <2>3 DEF KeyInv
<1>11. CASE k \notin Range(keyNames)
  <2>1. /\ keyFile' = [keyFile EXCEPT ![k] = <<>>]
        /\ keyNames' = Append(keyNames, k)
        /\ keyOut' = [keyOut EXCEPT ![k] = Put(Nothing, s)]
    BY <1>11 DEF AddKey
  <2> HIDE DEF s
  <2>2. /\ Len(keyNames') = Len(keyNames) + 1 /\ keyNames'[Len(keyNames) + 1] = k
        /\ \A i \in 1 .. Len(keyNames) : keyNames'[i] = keyNames[i]
        /\ DOMAIN keyNames' = 1 .. Len(keyNames) + 1 /\ DOMAIN keyNames = 1 .. Len(keyNames)
    BY <1>1, <2>1
  <2>3. 1 .. Len(keyNames) + 1 = (1 .. Len(keyNames)) \cup {Len(keyNames) + 1}
        /\ Len(keyNames) + 1 \notin 1 .. Len(keyNames)
    BY <1>1
  <2>4. \A i \in 1 .. Len(keyNames) : keyNames[i] # k
    BY <1>11, <2>2 DEF Range
  <2>5. IsInjective(keyNames')
    BY <1>8, <2>2, <2>3, <2>4 DEF IsInjective
  <2>6. Range(keyNames') = Range(keyNames) \cup {k}
    BY <2>2, <2>3 DEF Range
  <2>7. \A j \in KeyNames : j \in Range(keyNames') <=> Lines(source', j, Done(j)') # {}
    BY <1>2, <1>4, <1>5, <1>6, <1>8, <2>6
  <2>8. Keyed(Flushed(<<>>, Nothing, NoLine), source, k, n) /\ Nothing \in Writer(Line)
        /\ Nothing.at = Len(<<>>) /\ <<>> \in Seq(Line)
    <3>1. Nothing \in Writer(Line) /\ Nothing.held = <<>> /\ Nothing.at = Len(<<>>)
          /\ <<>> \in Seq(Line)
      BY DEF Nothing, Writer
    <3>2. Flushed(<<>>, Nothing, NoLine) = <<>>
      BY <3>1, FlushedNothing
    <3>3. Lines(source, k, n) = {}
      BY <1>5, <1>8, <1>11
    <3>4. IsInjective(<<>>) /\ Range(<<>>) = {}
      BY DEF IsInjective, Range
    <3>. QED
      BY <3>1, <3>2, <3>3, <3>4 DEF Keyed
  <2>9. /\ Put(Nothing, s).at = Len(<<>>)
        /\ Keyed(Flushed(<<>>, Put(Nothing, s), NoLine), source, k, n + 1)
    BY <1>9, <2>8
  <2>10. ASSUME NEW i \in 1 .. Len(keyNames')
         PROVE  /\ keyOut'[keyNames'[i]].at = Len(keyFile'[keyNames'[i]])
                /\ Keyed(FullKey(keyNames[i])', source', keyNames'[i], Done(keyNames[i])')
    <3>1. PICK j : j = keyNames'[i]
      OBVIOUS
    <3>2. FullKey(keyNames[i])' = Flushed(keyFile'[j], keyOut'[j], NoLine)
      BY <3>1 DEF FullKey
    <3>3. Done(keyNames[i])' = Done(j)'
      BY <3>1 DEF Done
    <3>4. CASE i = Len(keyNames) + 1
      <4>1. j = k
        BY <2>2, <3>1, <3>4
      <4>2. keyOut'[j] = Put(Nothing, s) /\ keyFile'[j] = <<>>
        BY <1>1, <2>1, <4>1
      <4>3. Done(keyNames[i])' = n + 1
        BY <1>5, <3>3, <4>1
      <4>. QED
        BY <1>2, <2>9, <3>1, <3>2, <4>1, <4>2, <4>3
    <3>5. CASE i # Len(keyNames) + 1
      <4>1. i \in 1 .. Len(keyNames)
        BY <2>2, <2>3, <3>5
      <4>2. j = keyNames[i] /\ j # k
        BY <2>2, <2>4, <3>1, <4>1
      <4>3. /\ j \in KeyNames /\ keyOut[j].at = Len(keyFile[j])
            /\ Keyed(Flushed(keyFile[j], keyOut[j], NoLine), source, j, Done(j))
        BY <1>7, <4>1, <4>2 DEF FullKey
      <4>4. keyOut'[j] = keyOut[j] /\ keyFile'[j] = keyFile[j] /\ Done(keyNames[i])' = Done(j)
        BY <1>1, <1>6, <2>1, <3>3, <4>2, <4>3
      <4>. QED
        BY <1>2, <3>1, <3>2, <4>3, <4>4
    <3>. QED
      BY <3>4, <3>5
  <2>. QED
    BY <2>5, <2>7, <2>10 DEF KeyInv
<1>. QED
  BY <1>10, <1>11

\* Every step of a steady caller keeps the lines of the keys.
LEMMA KeyStep ==
  Typed /\ Typed' /\ Steady(client) /\ MemoryInv /\ KeyInv /\ CheckpointInv /\ BuildInv
    /\ [Next]_vars => KeyInv'
<1> SUFFICES ASSUME Typed, Typed', Steady(client), MemoryInv, KeyInv, CheckpointInv, BuildInv,
                    [Next]_vars
             PROVE  KeyInv'
  OBVIOUS
<1>1. /\ source \in Seq(Documents) /\ keyFile \in [KeyNames -> Seq(Line)]
      /\ b \in Builder /\ out \in Output /\ keyOut \in [KeyNames -> Writer(Line)]
      /\ keyNames \in Seq(KeyNames) /\ Len(keyNames) \in Nat
      /\ b.numDocs \in Nat /\ Len(source) \in Nat /\ b.numDocs <= Len(source) /\ turn \in Nat
      /\ phase \notin Closed => turn = 0
  BY TypesNow, TypeParts DEF WritersTyped
<1>2. ASSUME FreshBuilder \/ (b' = NewBuilder /\ keyNames' = <<>>), phase' # "adding"
      PROVE  KeyInv'
  <2>1. b'.numDocs = 0 /\ keyNames' = <<>>
    BY <1>2 DEF FreshBuilder, NewBuilder
  <2>2. Len(<<>>) = 0 /\ 1 .. 0 = {} /\ IsInjective(<<>>) /\ Range(<<>>) = {}
    BY DEF IsInjective, Range
  <2>3. \A k : Lines(source', k, b'.numDocs) = {}
    BY <2>1, LinesNone
  <2>. QED
    BY <1>2, <2>1, <2>2, <2>3, KeyStarts
<1>3. ASSUME WritersMove \/ UNCHANGED <<keyFile, keyOut>>, keyNames' = keyNames,
             turn' \in Int, turn <= turn', UNCHANGED <<source, todo>>, b'.numDocs = b.numDocs,
             phase' = "adding" <=> phase = "adding"
      PROVE  KeyInv'
  <2>1. \A k : Done(k)' = Done(k)
    BY <1>3 DEF Done
  <2>2. \A k \in KeyNames : Lines(source', k, Done(k)') = Lines(source, k, Done(k))
    BY <1>3, <2>1, Zenon
  <2>. QED
    BY <1>3, <2>2, KeyMoves, Zenon
<1>4. turn \in Int /\ turn <= turn
  BY <1>1
<1>5. ASSUME NEW f \in client.frequencies, StartResume(f)
       PROVE  KeyInv'
  <2>1. Recoverable /\ ckpt.state = "complete"
    BY <1>5, StartsAre
  <2>2. ResumeBuilder /\ keyFile' = Rewound.keyFile /\ UNCHANGED source /\ phase' # "adding"
    BY <1>5 DEF StartResume, caller
  <2>. QED
    BY <2>1, <2>2, KeysResume
<1>6. ASSUME NEW f \in client.frequencies, StartFresh(f)
       PROVE  KeyInv'
  BY <1>2, <1>6 DEF StartFresh
<1>7. ASSUME NEW f \in client.frequencies, Reopen(f)
       PROVE  KeyInv'
  <2>1. FreshBuilder /\ phase' # "adding"
    BY <1>7, StartsAre DEF Reopen
  <2>. QED
    BY <1>2, <2>1
<1>8. ASSUME FreshClean
       PROVE  KeyInv'
  BY <1>3, <1>4, <1>8 DEF FreshClean, caller, memory
<1>9. ASSUME NEW n \in 1 .. Len(out.data.held), SpillContent(n)
       PROVE  KeyInv'
  BY <1>3, <1>4, <1>9 DEF SpillContent, caller
<1>10. ASSUME NEW n \in 1 .. Len(out.blocks.held), SpillBlocks(n)
       PROVE  KeyInv'
  BY <1>3, <1>4, <1>10 DEF SpillBlocks, caller
<1>11. ASSUME NEW k \in KeyNames, NEW n \in 1 .. Len(keyOut[k].held), SpillKey(k, n)
       PROVE  KeyInv'
  BY <1>3, <1>4, <1>11, SpillsMove DEF SpillKey, caller
<1>12. ASSUME NEW d \in Documents, BeginAdd(d)
       PROVE  KeyInv'
  <2>1. /\ phase = "idle" /\ phase' = "adding" /\ UNCHANGED <<keyFile, keyOut, keyNames, turn>>
        /\ b'.numDocs = b.numDocs /\ todo' = DOMAIN d.keys
        /\ IF b.numDocs < Len(source) THEN d = source[b.numDocs + 1] /\ source' = source
           ELSE source' = Append(source, d)
    BY <1>12 DEF BeginAdd, disk
  <2>2. Agree(source, source', b.numDocs) /\ source'[b.numDocs + 1] = d
    <3>1. CASE b.numDocs < Len(source)
      BY <1>1, <2>1, <3>1 DEF Agree
    <3>2. CASE ~(b.numDocs < Len(source))
      <4>1. source' = Append(source, d) /\ b.numDocs = Len(source)
        BY <1>1, <2>1, <3>2
      <4>2. Len(source') = Len(source) + 1 /\ source'[Len(source) + 1] = d
            /\ \A i \in 1 .. Len(source) : source'[i] = source[i]
        BY <1>1, <4>1
      <4>. QED
        BY <1>1, <4>1, <4>2 DEF Agree
    <3>. QED
      BY <3>1, <3>2
  <2>3. ASSUME NEW k \in KeyNames
        PROVE  Lines(source', k, Done(k)') = Lines(source, k, Done(k))
    <3>1. Done(k) = b.numDocs
      BY <2>1 DEF Done
    <3>2. Lines(source', k, b.numDocs) = Lines(source, k, b.numDocs)
      BY <1>1, <2>2, LinesAgree
    <3>3. CASE k \in DOMAIN d.keys
      <4>1. Done(k)' = b.numDocs
        BY <2>1, <3>3 DEF Done
      <4>. QED
        BY <3>1, <3>2, <4>1
    <3>4. CASE k \notin DOMAIN d.keys
      <4>1. Done(k)' = b.numDocs + 1
        BY <2>1, <3>4 DEF Done
      <4>2. Lines(source', k, b.numDocs + 1) = Lines(source', k, b.numDocs)
        BY <1>1, <2>2, <3>4, LinesNext
      <4>. QED
        BY <3>1, <3>2, <4>1, <4>2
    <3>. QED
      BY <3>3, <3>4
  <2>. QED
    BY <1>4, <2>1, <2>3, KeyMoves
<1>13. ASSUME NEW k \in KeyNames, AddKey(k)
       PROVE  KeyInv'
  BY <1>13, KeysAdd
<1>14. ASSUME EndAdd
       PROVE  KeyInv'
  <2> DEFINE c == [numBlocks |-> b.numBlocks, numDocs |-> b.numDocs + 1,
                   contentOffset |-> b.contentOffset, index |-> b.index, intra |-> b.intra,
                   block |-> b.block, count |-> b.count + 1]
  <2>1. c \in Builder /\ c.numDocs = b.numDocs + 1
    <3>1. /\ b.numBlocks \in Nat /\ b.contentOffset \in Nat /\ b.index \in Seq(Nat)
          /\ b.intra \in Seq(Nat) /\ b.block \in DocBlock /\ b.count \in Nat
      BY <1>1, BuilderIs
    <3>. QED
      BY <1>1, <3>1 DEF Builder
  <2>2. /\ FlushBlock(c, out) \/ (b' = c /\ out' = out)
        /\ UNCHANGED <<source, keyFile, keyOut, keyNames, todo, turn>>
        /\ phase = "adding" /\ phase' # "adding" /\ todo = {}
    BY <1>14 DEF EndAdd, caller, disk
  <2> HIDE DEF c
  <2>3. b'.numDocs = b.numDocs + 1
    BY <1>1, <2>1, <2>2, FlushBlockTyped
  <2>4. \A k : Done(k)' = Done(k)
    BY <2>2, <2>3 DEF Done
  <2>5. \A k \in KeyNames : Lines(source', k, Done(k)') = Lines(source, k, Done(k))
    BY <2>2, <2>4, Zenon
  <2>. QED
    BY <1>4, <2>2, <2>5, KeyMoves
<1>15. ASSUME CallCheckpoint
       PROVE  KeyInv'
  BY <1>3, <1>4, <1>15 DEF CallCheckpoint, caller, disk, memory
<1>16. ASSUME CheckpointFlush
       PROVE  KeyInv'
  <2>1. WritersMove
    BY <1>16, FlushesMove DEF CheckpointFlush
  <2>. QED
    BY <1>3, <1>4, <1>16, <2>1 DEF CheckpointFlush, caller
<1>17. ASSUME CheckpointRename
       PROVE  KeyInv'
  BY <1>3, <1>4, <1>17 DEF CheckpointRename, caller
<1>18. ASSUME BeginBuild
       PROVE  KeyInv'
  <2>1. /\ FlushBlock(b, out) /\ UNCHANGED <<source, keyFile, keyOut, keyNames, todo, turn>>
        /\ phase = "idle" /\ phase' = "build_flush"
    BY <1>18 DEF BeginBuild, caller, disk
  <2>2. b'.numDocs = b.numDocs
    BY <1>1, <2>1, FlushBlockTyped
  <2>. QED
    BY <1>3, <1>4, <2>1, <2>2
<1>19. ASSUME BuildFlush
       PROVE  KeyInv'
  BY <1>3, <1>4, <1>19 DEF BuildFlush, caller
<1>20. ASSUME BuildOffsets
       PROVE  KeyInv'
  <2>1. WritersMove
    BY <1>20, FlushesMove DEF BuildOffsets
  <2>2. turn = 0 /\ turn' = 1 /\ phase # "adding" /\ phase' # "adding"
    BY <1>1, <1>20 DEF BuildOffsets, Closed
  <2>3. turn' \in Int /\ turn <= turn'
    BY <2>2
  <2>. QED
    BY <1>3, <1>20, <2>1, <2>2, <2>3 DEF BuildOffsets, caller
<1>21. ASSUME BuildKey
       PROVE  KeyInv'
  <2>1. /\ phase = "build_keys" /\ turn <= Len(keyNames) /\ phase' \in {"failed", "build_keys"}
        /\ UNCHANGED <<source, b, keyNames, keyOut, todo>>
        /\ \/ UNCHANGED <<keyFile, turn>>
           \/ keyFile' = [keyFile EXCEPT ![keyNames[turn]] = <<>>] /\ turn' = turn + 1
    BY <1>21 DEF BuildKey, caller
  <2>2. \A k : Done(k)' = Done(k)
    BY <2>1 DEF Done
  <2>3. \A k \in KeyNames : Lines(source', k, Done(k)') = Lines(source, k, Done(k))
    BY <2>1, <2>2, Zenon
  <2>4. CASE UNCHANGED <<keyFile, turn>>
    BY <1>4, <2>1, <2>3, <2>4, KeyMoves
  <2>5. CASE keyFile' = [keyFile EXCEPT ![keyNames[turn]] = <<>>] /\ turn' = turn + 1
    <3>1. \A i \in 1 .. Len(keyNames) : keyNames[i] \in KeyNames
      BY <1>1, ElementOf
    <3>2. ASSUME NEW i \in 1 .. Len(keyNames), turn' <= i
          PROVE  /\ keyOut'[keyNames[i]].at = Len(keyFile'[keyNames[i]])
                 /\ Flushed(keyFile'[keyNames[i]], keyOut'[keyNames[i]], NoLine) =
                      FullKey(keyNames[i])
      <4>1. turn \in Nat /\ turn < i /\ turn + 1 <= i
        BY <1>1, <2>5, <3>2
      <4>2. keyNames[turn] # keyNames[i]
        <5>1. turn \in DOMAIN keyNames \/ turn = 0
          BY <1>1, <2>1
        <5>2. turn # 0
          BY <2>1 DEF BuildInv, Closed
        <5>3. IsInjective(keyNames) /\ i \in DOMAIN keyNames
          BY <1>1 DEF KeyInv
        <5>. QED
          BY <4>1, <5>1, <5>2, <5>3 DEF IsInjective
      <4>3. keyFile'[keyNames[i]] = keyFile[keyNames[i]] /\ keyOut' = keyOut
        BY <1>1, <2>1, <2>5, <3>1, <4>2
      <4>4. turn <= i
        BY <4>1
      <4>5. keyOut[keyNames[i]].at = Len(keyFile[keyNames[i]])
        BY <4>4, KeyWriter
      <4>. QED
        BY <4>3, <4>5 DEF FullKey
    <3>3. turn' \in Int /\ turn <= turn'
      BY <1>1, <2>5
    <3>. QED
      BY <1>1, <1>4, <2>1, <2>3, <3>1, <3>2, <3>3, KeyFrame
  <2>. QED
    BY <2>1, <2>4, <2>5
<1>22. ASSUME BuildMeta
       PROVE  KeyInv'
  BY <1>3, <1>4, <1>22 DEF BuildMeta, caller, memory
<1>23. ASSUME BuildClean
       PROVE  KeyInv'
  BY <1>3, <1>4, <1>23 DEF BuildClean, caller, memory
<1>24. ASSUME Crash
       PROVE  KeyInv'
  BY <1>2, <1>24 DEF Crash
<1>25. CASE UNCHANGED vars
  BY <1>3, <1>4, <1>25 DEF vars
<1>. QED
  BY <1>5, <1>6, <1>7, <1>8, <1>9, <1>10, <1>11, <1>12, <1>13, <1>14, <1>15, <1>16, <1>17,
     <1>18, <1>19, <1>20, <1>21, <1>22, <1>23, <1>24, <1>25 DEF Next, Finished

-----------------------------------------------------------------------------
(***************************************************************************)
(* What the checkpoint counts                                              *)
(***************************************************************************)

\* Files that agree below a length have the same records up to it.
LEMMA PrefixSame ==
  ASSUME NEW S, NEW f \in Seq(S), NEW g \in Seq(S), NEW n \in Nat, Agree(f, g, n)
  PROVE  SubSeq(g, 1, n) = SubSeq(f, 1, n)
<1>1. n \in 0 .. Len(f) /\ n \in 0 .. Len(g) /\ \A i \in 1 .. n : f[i] = g[i]
  BY DEF Agree
<1>2. /\ SubSeq(f, 1, n) \in Seq(S) /\ Len(SubSeq(f, 1, n)) = n
      /\ \A i \in 1 .. n : SubSeq(f, 1, n)[i] = f[i]
  BY <1>1, SplitSequence
<1>3. /\ SubSeq(g, 1, n) \in Seq(S) /\ Len(SubSeq(g, 1, n)) = n
      /\ \A i \in 1 .. n : SubSeq(g, 1, n)[i] = g[i]
  BY <1>1, SplitSequence
<1>. QED
  BY <1>1, <1>2, <1>3, SameSequence

\* The fields of a checkpoint that is there.
LEMMA CheckpointIs ==
  ASSUME Typed, ckpt.state = "complete"
  PROVE  /\ ckpt.b \in Builder /\ ckpt.b.numDocs \in Nat /\ ckpt.b.numBlocks \in Nat
         /\ ckpt.b.contentOffset \in Nat /\ ckpt.b.numDocs <= Len(source)
         /\ ckpt.names \in Seq(KeyNames) /\ ckpt.lengths \in Seq(Nat)
         /\ Len(ckpt.lengths) = Len(ckpt.names)
         /\ \A i \in 1 .. Len(ckpt.names) :
              ckpt.names[i] \in KeyNames /\ ckpt.lengths[i] \in Nat
<1>1. ckpt \in Checkpoint /\ Len(ckpt.lengths) = Len(ckpt.names) /\ ckpt.b.numDocs <= Len(source)
  BY SavedLengthIs, TypeParts DEF CkptTyped
<1>2. ckpt.b \in Builder /\ ckpt.names \in Seq(KeyNames) /\ ckpt.lengths \in Seq(Nat)
  BY <1>1 DEF Checkpoint
<1>3. \A i \in 1 .. Len(ckpt.names) : ckpt.names[i] \in KeyNames /\ ckpt.lengths[i] \in Nat
  BY <1>1, <1>2
<1>. QED
  BY <1>1, <1>2, <1>3, BuilderIs

\* It is not disturbed by what happens to the files above the lengths it saves.
LEMMA RecoverableKept ==
  ASSUME Typed, Typed', Recoverable, ckpt.state = "complete", ckpt' = ckpt,
         Agree(source, source', Len(source)),
         Agree(blocks, blocks', ckpt.b.numBlocks), Agree(content, content', ckpt.b.contentOffset),
         \A i \in 1 .. Len(ckpt.names) :
           Agree(keyFile[ckpt.names[i]], keyFile'[ckpt.names[i]], ckpt.lengths[i])
  PROVE  Recoverable'
<1>1. /\ source \in Seq(Documents) /\ content \in Seq(Chunk) /\ blocks \in Seq(Record)
      /\ keyFile \in [KeyNames -> Seq(Line)]
  BY TypesNow
<1>2. /\ source' \in Seq(Documents) /\ content' \in Seq(Chunk) /\ blocks' \in Seq(Record)
      /\ keyFile' \in [KeyNames -> Seq(Line)]
  <2>1. FilesTyped' /\ CallerTyped'
    BY TypeParts, PTL
  <2>. QED
    BY <2>1 DEF FilesTyped, CallerTyped
<1>3. /\ ckpt.b \in Builder /\ ckpt.b.numDocs \in Nat /\ ckpt.b.numDocs <= Len(source)
      /\ \A i \in 1 .. Len(ckpt.names) :
           ckpt.names[i] \in KeyNames /\ ckpt.lengths[i] \in Nat
  BY CheckpointIs
<1>4. Blocked(ckpt.b, blocks', content', source')
  BY <1>1, <1>2, <1>3, BlockedKept DEF Recoverable
<1>5. Agree(source, source', ckpt.b.numDocs)
  BY <1>1, <1>2, <1>3 DEF Agree
<1>6. \A k : Lines(source', k, ckpt.b.numDocs) = Lines(source, k, ckpt.b.numDocs)
  BY <1>3, <1>5, LinesAgree
<1>7. ASSUME NEW i \in 1 .. Len(ckpt.names)
      PROVE  /\ ckpt.lengths[i] <= Len(keyFile'[ckpt.names[i]])
             /\ Keyed(SubSeq(keyFile'[ckpt.names[i]], 1, ckpt.lengths[i]),
                      source', ckpt.names[i], ckpt.b.numDocs)
  <2>1. PICK k, n : k = ckpt.names[i] /\ n = ckpt.lengths[i]
    OBVIOUS
  <2>2. /\ k \in KeyNames /\ n \in Nat /\ Agree(keyFile[k], keyFile'[k], n)
        /\ Keyed(SubSeq(keyFile[k], 1, n), source, k, ckpt.b.numDocs)
    BY <1>3, <2>1 DEF Recoverable
  <2>3. keyFile[k] \in Seq(Line) /\ keyFile'[k] \in Seq(Line)
    BY <1>1, <1>2, <2>2
  <2>4. SubSeq(keyFile'[k], 1, n) = SubSeq(keyFile[k], 1, n)
    BY <2>2, <2>3, PrefixSame
  <2>5. Keyed(SubSeq(keyFile'[k], 1, n), source', k, ckpt.b.numDocs)
    BY <1>6, <2>2, <2>4, Zenon DEF Keyed
  <2>6. n <= Len(keyFile'[k])
    BY <2>2 DEF Agree
  <2>. QED
    BY <2>1, <2>5, <2>6
<1>8. \A k \in KeyNames : k \in Range(ckpt.names) <=> Lines(source', k, ckpt.b.numDocs) # {}
  BY <1>6 DEF Recoverable
<1>9. /\ Len(ckpt.b.index) = ckpt.b.numDocs /\ (ckpt.b.block # <<>> => ckpt.b.count > 0)
      /\ IsInjective(ckpt.names)
  BY DEF Recoverable
<1>. QED
  BY <1>4, <1>7, <1>8, <1>9, Zenon DEF Recoverable

\* A step that touches none of the files the checkpoint names.
LEMMA RecoverableFrame ==
  ASSUME Typed, Typed', Recoverable, ckpt.state = "complete", ckpt' = ckpt,
         Agree(source, source', Len(source)), UNCHANGED <<content, blocks>>,
         \A i \in 1 .. Len(ckpt.names) : keyFile'[ckpt.names[i]] = keyFile[ckpt.names[i]]
  PROVE  Recoverable'
<1>1. \A f, n : n \in Nat /\ n <= Len(f) => Agree(f, f, n)
  BY DEF Agree
<1>2. ckpt.b.contentOffset <= Len(content) /\ ckpt.b.numBlocks <= Len(blocks)
  BY DEF Recoverable, Blocked
<1>3. Agree(blocks, blocks', ckpt.b.numBlocks) /\ Agree(content, content', ckpt.b.contentOffset)
  BY <1>1, <1>2, CheckpointIs
<1>4. ASSUME NEW i \in 1 .. Len(ckpt.names)
      PROVE  Agree(keyFile[ckpt.names[i]], keyFile'[ckpt.names[i]], ckpt.lengths[i])
  <2>1. ckpt.lengths[i] \in Nat /\ ckpt.lengths[i] <= Len(keyFile[ckpt.names[i]])
    BY CheckpointIs DEF Recoverable
  <2>. QED
    BY <1>1, <2>1
<1>. QED
  BY <1>3, <1>4, RecoverableKept

\* A step that hands records over leaves what the checkpoint counts.
LEMMA CheckpointMoves ==
  ASSUME Typed, Typed', KeyInv, Recoverable, Above, ckpt.state = "complete", ckpt' = ckpt,
         UNCHANGED <<source, keyNames>>, turn <= 1, WritersMove
  PROVE  Recoverable' /\ Above'
<1>1. /\ content \in Seq(Chunk) /\ blocks \in Seq(Record) /\ keyFile \in [KeyNames -> Seq(Line)]
      /\ out.data \in Writer(Chunk) /\ out.blocks \in Writer(Record)
      /\ keyOut \in [KeyNames -> Writer(Line)] /\ turn \in Nat
      /\ keyNames \in Seq(KeyNames) /\ Len(keyNames) \in Nat /\ source \in Seq(Documents)
  BY TypesNow
<1>2. /\ out'.data \in Writer(Chunk) /\ out'.blocks \in Writer(Record)
      /\ keyOut' \in [KeyNames -> Writer(Line)]
  <2>1. WritersTyped'
    BY TypeParts, PTL
  <2>. QED
    BY <2>1 DEF WritersTyped, Output
<1>3. /\ ckpt.b.contentOffset \in Nat /\ ckpt.b.numBlocks \in Nat
      /\ \A i \in 1 .. Len(ckpt.names) :
           ckpt.names[i] \in KeyNames /\ ckpt.lengths[i] \in Nat
  BY CheckpointIs
<1>4. \A S : \A w \in Writer(S) : w.at \in Nat
  BY DEF Writer
<1>5. /\ ckpt.b.contentOffset <= out.data.at /\ ckpt.b.numBlocks <= out.blocks.at
      /\ out.data.at <= out'.data.at /\ out.blocks.at <= out'.blocks.at
      /\ Agree(content, content', out.data.at) /\ Agree(blocks, blocks', out.blocks.at)
  BY DEF Above, WritersMove, Moved
<1>6. out.data.at \in Nat /\ out.blocks.at \in Nat /\ out'.data.at \in Nat /\ out'.blocks.at \in Nat
  BY <1>1, <1>2, <1>4
<1>7. \A f, g, m, n : Agree(f, g, n) /\ m \in Nat /\ n \in Nat /\ m <= n
                        /\ Len(f) \in Nat /\ Len(g) \in Nat => Agree(f, g, m)
  BY DEF Agree
<1>8. Agree(content, content', ckpt.b.contentOffset) /\ Agree(blocks, blocks', ckpt.b.numBlocks)
  <2>1. content' \in Seq(Chunk) /\ blocks' \in Seq(Record)
    <3>1. FilesTyped'
      BY TypeParts, PTL
    <3>. QED
      BY <3>1 DEF FilesTyped
  <2>2. Len(content) \in Nat /\ Len(content') \in Nat /\ Len(blocks) \in Nat /\ Len(blocks') \in Nat
    BY <1>1, <2>1
  <2>. QED
    BY <1>3, <1>5, <1>6, <1>7, <2>2
<1>9. ckpt.b.contentOffset <= out'.data.at /\ ckpt.b.numBlocks <= out'.blocks.at
  BY <1>3, <1>5, <1>6
<1>10. ASSUME NEW i \in 1 .. Len(ckpt.names)
       PROVE  /\ Agree(keyFile[ckpt.names[i]], keyFile'[ckpt.names[i]], ckpt.lengths[i])
              /\ ckpt.names[i] \in Range(keyNames')
              /\ ckpt.lengths[i] <= keyOut'[ckpt.names[i]].at
  <2>1. PICK k, n : k = ckpt.names[i] /\ n = ckpt.lengths[i]
    OBVIOUS
  <2>2. k \in Range(keyNames) /\ n <= keyOut[k].at /\ k \in KeyNames /\ n \in Nat
    BY <1>3, <2>1 DEF Above
  <2>3. PICK j \in 1 .. Len(keyNames) : keyNames[j] = k
    BY <1>1, <2>2 DEF Range
  <2>4. turn <= j
    BY <1>1, <2>3
  <2>5. Moved(Line, keyFile[k], keyOut[k], keyFile'[k], keyOut'[k], NoLine)
    BY <2>3, <2>4 DEF WritersMove
  <2>6. keyOut[k].at \in Nat /\ keyOut'[k].at \in Nat
    BY <1>1, <1>2, <1>4, <2>2
  <2>7. keyFile' \in [KeyNames -> Seq(Line)]
    <3>1. FilesTyped'
      BY TypeParts, PTL
    <3>. QED
      BY <3>1 DEF FilesTyped
  <2>8. Len(keyFile[k]) \in Nat /\ Len(keyFile'[k]) \in Nat
    <3>1. keyFile[k] \in Seq(Line) /\ keyFile'[k] \in Seq(Line)
      BY <1>1, <2>2, <2>7
    <3>. QED
      BY <3>1
  <2>9. Agree(keyFile[k], keyFile'[k], keyOut[k].at) /\ keyOut[k].at <= keyOut'[k].at
    BY <2>5 DEF Moved
  <2>10. Agree(keyFile[k], keyFile'[k], n)
    BY <1>7, <2>2, <2>6, <2>8, <2>9
  <2>11. n <= keyOut'[k].at
    BY <2>2, <2>6, <2>9
  <2>. QED
    BY <2>1, <2>2, <2>10, <2>11
<1>11. Agree(source, source', Len(source))
  BY <1>1 DEF Agree
<1>12. Recoverable'
  BY <1>8, <1>10, <1>11, RecoverableKept
<1>13. Above'
  BY <1>9, <1>10 DEF Above
<1>. QED
  BY <1>12, <1>13

\* flush_block does not move the offsets of the writers.
LEMMA FlushBlockAt ==
  ASSUME NEW c, NEW o, FlushBlock(c, o) \/ out' = o
  PROVE  out'.data.at = o.data.at /\ out'.blocks.at = o.blocks.at
<1>1. \A w, s : Put(w, s).at = w.at
  BY DEF Put
<1>2. \/ out' = o
      \/ \E s, t : out' = [data |-> Put(o.data, s), blocks |-> Put(o.blocks, t)]
  BY Zenon DEF FlushBlock
<1>. QED
  BY <1>1, <1>2

\* Every step of a steady caller keeps what its checkpoint counts.
LEMMA CheckpointStep ==
  Typed /\ Typed' /\ Steady(client) /\ MemoryInv /\ KeyInv /\ CheckpointInv /\ BuildInv
    /\ [Next]_vars => CheckpointInv'
<1> SUFFICES ASSUME Typed, Typed', Steady(client), MemoryInv, KeyInv, CheckpointInv, BuildInv,
                    [Next]_vars
             PROVE  CheckpointInv'
  OBVIOUS
<1>1. /\ source \in Seq(Documents) /\ Len(source) \in Nat
      /\ content \in Seq(Chunk) /\ blocks \in Seq(Record) /\ keyFile \in [KeyNames -> Seq(Line)]
      /\ out.data \in Writer(Chunk) /\ out.blocks \in Writer(Record)
      /\ keyOut \in [KeyNames -> Writer(Line)] /\ turn \in Nat
      /\ keyNames \in Seq(KeyNames) /\ Len(keyNames) \in Nat
      /\ phase \notin Closed => turn = 0
  BY TypesNow
<1> DEFINE Counted == Resumes(client') /\ ckpt'.state = "complete" /\ ~Publishing'
           Kept == phase' # "fresh" /\ Recoverable' /\ (phase' # "down" => Above')
           Handed == /\ out'.data.held = <<>> /\ out'.blocks.held = <<>>
                     /\ \A k \in KeyNames : keyOut'[k].held = <<>>
<1>2. SUFFICES (Counted => Kept) /\ (phase' = "ckpt_rename" => Handed)
  BY DEF CheckpointInv
<1> HIDE DEF Counted, Kept, Handed
<1>3. Agree(source, source, Len(source))
  BY <1>1 DEF Agree
<1>4. phase \notin Closed \/ (phase \in {"build_keys", "failed"} /\ ~Publishing) => turn <= 1
  BY <1>1 DEF Publishing
<1>5. ASSUME Counted, client' = client, ckpt' = ckpt, Publishing => Publishing',
             phase # "down", phase' \notin {"fresh", "down"},
             \/ /\ Agree(source, source', Len(source)) /\ UNCHANGED <<content, blocks>>
                /\ out'.data.at = out.data.at /\ out'.blocks.at = out.blocks.at
                /\ \A k \in Range(keyNames) : /\ k \in Range(keyNames')
                                              /\ keyFile'[k] = keyFile[k]
                                              /\ keyOut'[k].at = keyOut[k].at
             \/ UNCHANGED <<source, keyNames>> /\ turn <= 1 /\ WritersMove
      PROVE  Kept
  <2>1. Recoverable /\ Above /\ ckpt.state = "complete"
    BY <1>5 DEF Counted, CheckpointInv
  <2>2. CASE /\ Agree(source, source', Len(source)) /\ UNCHANGED <<content, blocks>>
             /\ out'.data.at = out.data.at /\ out'.blocks.at = out.blocks.at
             /\ \A k \in Range(keyNames) : /\ k \in Range(keyNames')
                                           /\ keyFile'[k] = keyFile[k]
                                           /\ keyOut'[k].at = keyOut[k].at
    <3>1. Above'
      BY <1>5, <2>1, <2>2 DEF Above
    <3>2. \A i \in 1 .. Len(ckpt.names) : keyFile'[ckpt.names[i]] = keyFile[ckpt.names[i]]
      BY <2>1, <2>2 DEF Above
    <3>3. Recoverable'
      BY <1>5, <2>1, <2>2, <3>2, RecoverableFrame
    <3>. QED
      BY <1>5, <3>1, <3>3 DEF Kept
  <2>3. CASE UNCHANGED <<source, keyNames>> /\ turn <= 1 /\ WritersMove
    BY <1>5, <2>1, <2>3, CheckpointMoves DEF Kept
  <2>. QED
    BY <1>5, <2>2, <2>3
<1>6. ASSUME client' = client, ckpt' = ckpt, Publishing => Publishing',
             phase \notin {"down", "ckpt_rename"}, phase' \notin {"fresh", "down", "ckpt_rename"},
             Agree(source, source', Len(source)), UNCHANGED <<content, blocks>>,
             out'.data.at = out.data.at /\ out'.blocks.at = out.blocks.at,
             \A k \in Range(keyNames) : /\ k \in Range(keyNames')
                                        /\ keyFile'[k] = keyFile[k]
                                        /\ keyOut'[k].at = keyOut[k].at
      PROVE  (Counted => Kept) /\ (phase' = "ckpt_rename" => Handed)
  BY <1>5, <1>6
<1>7. phase = "ckpt_rename" =>
        /\ out.data.held = <<>> /\ out.blocks.held = <<>>
        /\ \A k \in KeyNames : keyOut[k].held = <<>>
  BY DEF CheckpointInv
<1>8. ASSUME client' = client, ckpt' = ckpt, phase' = phase, turn' = turn, Running,
             phase # "ckpt_rename",
             UNCHANGED <<source, keyNames>>, WritersMove
      PROVE  (Counted => Kept) /\ (phase' = "ckpt_rename" => Handed)
  <2>1. Publishing' <=> Publishing
    BY <1>8 DEF Publishing
  <2>2. phase \notin {"down", "built", "failed"}
    BY <1>8 DEF Running
  <2>3. CASE phase = "fresh"
    <3>1. ~Counted
      BY <1>8, <2>1, <2>3 DEF Counted, CheckpointInv
    <3>. QED
      BY <1>8, <3>1
  <2>4. CASE phase # "fresh"
    <3>1. Counted => turn <= 1
      <4> SUFFICES ASSUME Counted PROVE turn <= 1
        OBVIOUS
      <4>1. ~Publishing
        BY <2>1 DEF Counted
      <4>2. phase \notin Closed \/ phase \in {"build_keys", "failed"}
        BY <2>2, <4>1 DEF Closed, Publishing
      <4>. QED
        BY <1>4, <4>1, <4>2
    <3>. QED
      BY <1>5, <1>8, <2>1, <2>2, <2>4, <3>1
  <2>. QED
    BY <2>3, <2>4
<1>9. ASSUME NEW f \in client.frequencies, StartResume(f)
       PROVE  (Counted => Kept) /\ (phase' = "ckpt_rename" => Handed)
  <2>1. Recoverable /\ ckpt.state = "complete"
    BY <1>9, StartsAre
  <2>2. /\ ResumeBuilder /\ content' = Rewound.content /\ blocks' = Rewound.blocks
        /\ keyFile' = Rewound.keyFile /\ UNCHANGED <<source, ckpt>> /\ phase' = "idle"
    BY <1>9 DEF StartResume, caller
  <2>3. /\ ckpt.b.contentOffset \in Nat /\ ckpt.b.numBlocks \in Nat
        /\ ckpt.names \in Seq(KeyNames)
        /\ \A i \in 1 .. Len(ckpt.names) :
             ckpt.names[i] \in KeyNames /\ ckpt.lengths[i] \in Nat
    BY <2>1, CheckpointIs
  <2>4. ckpt.b.contentOffset <= Len(content) /\ ckpt.b.numBlocks <= Len(blocks)
    BY <2>1 DEF Recoverable, Blocked
  <2>5. Agree(content, content', ckpt.b.contentOffset) /\ Agree(blocks, blocks', ckpt.b.numBlocks)
    <3>1. /\ content' = SetLen(content, ckpt.b.contentOffset, NoChunk)
          /\ blocks' = SetLen(blocks, ckpt.b.numBlocks, NoBlock)
      BY <2>2 DEF Rewound
    <3>. QED
      BY <1>1, <2>3, <2>4, <3>1, SetLenIs, ZerosTyped
  <2>6. ASSUME NEW i \in 1 .. Len(ckpt.names)
        PROVE  /\ Agree(keyFile[ckpt.names[i]], keyFile'[ckpt.names[i]], ckpt.lengths[i])
               /\ ckpt.names[i] \in Range(keyNames')
               /\ ckpt.lengths[i] <= keyOut'[ckpt.names[i]].at
    <3>1. PICK k, n : k = ckpt.names[i] /\ n = ckpt.lengths[i]
      OBVIOUS
    <3>2. k \in KeyNames /\ n \in Nat /\ n <= Len(keyFile[k]) /\ k \in Range(ckpt.names)
      BY <2>1, <2>3, <3>1 DEF Recoverable, Range
    <3>3. SavedLength(k) = n
      BY <2>1, <3>1, SavedLengthIs DEF Recoverable
    <3>4. keyFile'[k] = SetLen(keyFile[k], n, NoLine) /\ keyOut'[k] = WriterAt(n)
      BY <2>2, <3>2, <3>3 DEF Rewound, ResumeBuilder
    <3>5. \A g \in Seq(Line) : n <= Len(g) => Agree(g, SetLen(g, n, NoLine), n)
      BY <3>2, SetLenIs, ZerosTyped
    <3>6. Agree(keyFile[k], keyFile'[k], n)
      BY <1>1, <3>2, <3>4, <3>5
    <3>7. keyOut'[k].at = n /\ keyNames' = ckpt.names
      BY <2>2, <3>4 DEF WriterAt, ResumeBuilder
    <3>. QED
      BY <3>1, <3>2, <3>6, <3>7
  <2>7. Recoverable'
    BY <1>3, <2>1, <2>2, <2>5, <2>6, RecoverableKept
  <2>8. out'.data.at = ckpt.b.contentOffset /\ out'.blocks.at = ckpt.b.numBlocks
    BY <2>2 DEF ResumeBuilder, WriterAt
  <2>9. ckpt.b.contentOffset <= out'.data.at /\ ckpt.b.numBlocks <= out'.blocks.at
    BY <2>3, <2>8
  <2>10. Above'
    BY <2>2, <2>6, <2>9 DEF Above
  <2>. QED
    BY <2>2, <2>7, <2>10 DEF Kept
<1>10. ASSUME NEW f \in client.frequencies, StartFresh(f)
       PROVE  (Counted => Kept) /\ (phase' = "ckpt_rename" => Handed)
  <2>1. ~(Resumes(client) /\ ckpt.state = "complete")
    BY <1>10, StartsAre
  <2>. QED
    BY <1>10, <2>1 DEF StartFresh, caller, Counted
<1>11. ASSUME NEW f \in client.frequencies, Reopen(f)
       PROVE  (Counted => Kept) /\ (phase' = "ckpt_rename" => Handed)
  <2>1. ~Resumes(client)
    BY <1>11, StartsAre
  <2>. QED
    BY <1>11, <2>1 DEF Reopen, Counted
<1>12. ASSUME FreshClean
       PROVE  (Counted => Kept) /\ (phase' = "ckpt_rename" => Handed)
  BY <1>12 DEF FreshClean, Counted, Absent
<1>13. ASSUME NEW n \in 1 .. Len(out.data.held), SpillContent(n)
       PROVE  (Counted => Kept) /\ (phase' = "ckpt_rename" => Handed)
  <2>1. phase # "ckpt_rename"
    BY <1>7
  <2>. QED
    BY <1>8, <1>13, <2>1, SpillsMove DEF SpillContent, caller
<1>14. ASSUME NEW n \in 1 .. Len(out.blocks.held), SpillBlocks(n)
       PROVE  (Counted => Kept) /\ (phase' = "ckpt_rename" => Handed)
  <2>1. phase # "ckpt_rename"
    BY <1>7
  <2>. QED
    BY <1>8, <1>14, <2>1, SpillsMove DEF SpillBlocks, caller
<1>15. ASSUME NEW k \in KeyNames, NEW n \in 1 .. Len(keyOut[k].held), SpillKey(k, n)
       PROVE  (Counted => Kept) /\ (phase' = "ckpt_rename" => Handed)
  <2>1. phase # "ckpt_rename"
    BY <1>7
  <2>. QED
    BY <1>8, <1>15, <2>1, SpillsMove DEF SpillKey, caller
<1>16. ASSUME NEW d \in Documents, BeginAdd(d)
       PROVE  (Counted => Kept) /\ (phase' = "ckpt_rename" => Handed)
  <2>1. /\ phase = "idle" /\ phase' = "adding"
        /\ UNCHANGED <<client, ckpt, content, blocks, keyFile, keyOut, keyNames, out, turn>>
        /\ source' = source \/ source' = Append(source, d)
    BY <1>16 DEF BeginAdd, disk
  <2>2. Agree(source, source', Len(source))
    <3>1. CASE source' = source
      BY <1>3, <3>1
    <3>2. CASE source' = Append(source, d)
      <4>1. Len(source') = Len(source) + 1 /\ \A i \in 1 .. Len(source) : source'[i] = source[i]
        BY <1>1, <3>2
      <4>2. Len(source) \in Nat
        BY <1>1
      <4>. QED
        BY <4>1, <4>2 DEF Agree
    <3>. QED
      BY <2>1, <3>1, <3>2
  <2>3. ~Publishing
    BY <2>1 DEF Publishing
  <2>. QED
    BY <1>6, <2>1, <2>2, <2>3
<1>17. ASSUME NEW k \in KeyNames, AddKey(k)
       PROVE  (Counted => Kept) /\ (phase' = "ckpt_rename" => Handed)
  <2>1. /\ phase = "adding" /\ phase' = "adding"
        /\ UNCHANGED <<client, source, ckpt, content, blocks, out, turn>>
    BY <1>17 DEF AddKey, caller
  <2>2. ~Publishing
    BY <2>1 DEF Publishing
  <2>3. ASSUME NEW j \in Range(keyNames)
        PROVE  j \in Range(keyNames') /\ keyFile'[j] = keyFile[j] /\ keyOut'[j].at = keyOut[j].at
    <3>1. j \in KeyNames
      BY <1>1 DEF Range
    <3>2. CASE k \in Range(keyNames)
      <4>1. keyNames' = keyNames /\ keyFile' = keyFile
        BY <1>17, <3>2 DEF AddKey
      <4>2. keyOut'[j].at = keyOut[j].at
        <5>1. PICK s : keyOut' = [keyOut EXCEPT ![k] = Put(keyOut[k], s)]
          BY <1>17, <3>2 DEF AddKey
        <5>2. Put(keyOut[k], s).at = keyOut[k].at
          BY DEF Put
        <5>. QED
          BY <1>1, <3>1, <5>1, <5>2
      <4>. QED
        BY <4>1, <4>2
    <3>3. CASE k \notin Range(keyNames)
      <4>1. PICK s : /\ keyFile' = [keyFile EXCEPT ![k] = <<>>]
                     /\ keyNames' = Append(keyNames, k)
                     /\ keyOut' = [keyOut EXCEPT ![k] = s]
        BY <1>17, <3>3 DEF AddKey
      <4>2. j # k
        BY <3>3
      <4>3. keyFile'[j] = keyFile[j] /\ keyOut'[j] = keyOut[j]
        BY <1>1, <3>1, <4>1, <4>2
      <4>4. j \in Range(keyNames')
        <5>1. PICK i \in 1 .. Len(keyNames) : keyNames[i] = j
          BY <1>1 DEF Range
        <5>2. keyNames'[i] = j /\ i \in DOMAIN keyNames'
          BY <1>1, <4>1, <5>1
        <5>. QED
          BY <5>2 DEF Range
      <4>. QED
        BY <4>3, <4>4
    <3>. QED
      BY <3>2, <3>3
  <2>. QED
    BY <1>3, <1>6, <2>1, <2>2, <2>3
<1>18. ASSUME EndAdd
       PROVE  (Counted => Kept) /\ (phase' = "ckpt_rename" => Handed)
  <2>1. /\ phase = "adding" /\ phase' \in {"idle", "ckpt"}
        /\ UNCHANGED <<client, source, ckpt, content, blocks, keyFile, keyOut, keyNames>>
        /\ \E c : FlushBlock(c, out) \/ out' = out
    BY <1>18 DEF EndAdd, caller, disk
  <2>2. ~Publishing
    BY <2>1 DEF Publishing
  <2>3. out'.data.at = out.data.at /\ out'.blocks.at = out.blocks.at
    BY <2>1, FlushBlockAt
  <2>. QED
    BY <1>3, <1>6, <2>1, <2>2, <2>3
<1>19. ASSUME CallCheckpoint
       PROVE  (Counted => Kept) /\ (phase' = "ckpt_rename" => Handed)
  <2>1. /\ phase = "idle" /\ phase' = "ckpt"
        /\ UNCHANGED <<client, source, ckpt, content, blocks, out, keyFile, keyOut, keyNames>>
    BY <1>19 DEF CallCheckpoint, caller, disk, memory
  <2>2. ~Publishing
    BY <2>1 DEF Publishing
  <2>. QED
    BY <1>3, <1>6, <2>1, <2>2
<1>20. ASSUME CheckpointFlush
       PROVE  (Counted => Kept) /\ (phase' = "ckpt_rename" => Handed)
  <2>1. WritersMove
    BY <1>20, FlushesMove DEF CheckpointFlush
  <2>2. /\ phase = "ckpt" /\ phase' = "ckpt_rename"
        /\ UNCHANGED <<client, source, ckpt, keyNames, turn>>
        /\ out'.data = Emptied(out.data) /\ out'.blocks = Emptied(out.blocks)
        /\ keyOut' = [k \in KeyNames |-> Emptied(keyOut[k])]
    BY <1>20 DEF CheckpointFlush, caller
  <2>3. ~Publishing /\ turn <= 1
    BY <1>4, <2>2 DEF Publishing, Closed
  <2>4. Counted => Kept
    BY <1>5, <2>1, <2>2, <2>3
  <2>5. \A S : \A w \in Writer(S) : Emptied(w).held = <<>>
    <3> TAKE S
    <3> TAKE w \in Writer(S)
    <3>1. w.held \in Seq(S) /\ Len(w.held) \in Nat
      BY DEF Writer
    <3>2. /\ SubSeq(w.held, Len(w.held) + 1, Len(w.held)) \in Seq(S)
          /\ Len(SubSeq(w.held, Len(w.held) + 1, Len(w.held))) = 0
      BY <3>1, SplitSequence
    <3>. QED
      BY <3>2 DEF Emptied, HandedOver
  <2>6. Handed
    BY <1>1, <2>2, <2>5 DEF Handed
  <2>. QED
    BY <2>4, <2>6
<1>21. ASSUME CheckpointRename
       PROVE  (Counted => Kept) /\ (phase' = "ckpt_rename" => Handed)
  <2>1. /\ phase = "ckpt_rename" /\ phase' = "idle" /\ ckpt' = Snapshot
        /\ UNCHANGED <<client, source, content, blocks, keyFile, out, keyOut, keyNames, b>>
    BY <1>21 DEF CheckpointRename, caller
  <2>2. /\ ckpt'.b = b /\ ckpt'.names = keyNames
        /\ ckpt'.lengths = [i \in 1 .. Len(keyNames) |-> Len(keyFile[keyNames[i]])]
    BY <2>1 DEF Snapshot
  <2>3. turn = 0
    BY <1>1, <2>1 DEF Closed
  <2>4. FullContent = content /\ FullBlocks = blocks /\ \A k \in KeyNames : FullKey(k) = keyFile[k]
    BY <1>1, <1>7, <2>1, FlushedNothing DEF FullContent, FullBlocks, FullKey
  <2>5. /\ Len(b.index) = b.numDocs /\ Blocked(b, blocks, content, source)
        /\ (b.block # <<>> => b.count > 0)
        /\ EndsAt(content, out.data, b.contentOffset) /\ EndsAt(blocks, out.blocks, b.numBlocks)
    BY <2>1, <2>4 DEF MemoryInv
  <2>6. \A k : Done(k) = b.numDocs
    BY <2>1 DEF Done
  <2>7. /\ IsInjective(keyNames)
        /\ \A k \in KeyNames : k \in Range(keyNames) <=> Lines(source, k, b.numDocs) # {}
    BY <2>6 DEF KeyInv
  <2>8. ASSUME NEW i \in 1 .. Len(keyNames)
        PROVE  /\ ckpt'.lengths[i] = Len(keyFile[keyNames[i]])
               /\ ckpt'.lengths[i] <= Len(keyFile[keyNames[i]])
               /\ Keyed(SubSeq(keyFile[keyNames[i]], 1, ckpt'.lengths[i]),
                        source, keyNames[i], b.numDocs)
               /\ keyNames[i] \in Range(keyNames)
               /\ ckpt'.lengths[i] <= keyOut[keyNames[i]].at
    <3>1. PICK k : k = keyNames[i]
      OBVIOUS
    <3>2. /\ k \in KeyNames /\ keyFile[k] \in Seq(Line) /\ keyOut[k].at = Len(keyFile[k])
      <4>1. turn <= i
        BY <2>3
      <4>. QED
        BY <3>1, <4>1, KeyWriter
    <3>3. Keyed(FullKey(k), source, k, b.numDocs)
      BY <2>3, <2>6, <3>1 DEF KeyInv
    <3>4. SubSeq(keyFile[k], 1, Len(keyFile[k])) = keyFile[k] /\ Len(keyFile[k]) \in Nat
      BY <3>2, WholeSequence
    <3>5. ckpt'.lengths[i] = Len(keyFile[k])
      BY <2>2, <3>1
    <3>6. k \in Range(keyNames)
      BY <1>1, <3>1 DEF Range
    <3>7. ckpt'.lengths[i] <= Len(keyFile[k]) /\ ckpt'.lengths[i] <= keyOut[k].at
      BY <3>2, <3>4, <3>5
    <3>8. FullKey(k) = keyFile[k]
      BY <2>4, <3>2
    <3>9. Keyed(SubSeq(keyFile[k], 1, ckpt'.lengths[i]), source, k, b.numDocs)
      BY <3>3, <3>4, <3>5, <3>8, Zenon
    <3>. QED
      BY <3>1, <3>5, <3>6, <3>7, <3>9, Zenon
  <2>9. Recoverable'
    BY <2>1, <2>2, <2>5, <2>7, <2>8, Zenon DEF Recoverable
  <2>10. b.contentOffset <= out.data.at /\ b.numBlocks <= out.blocks.at
    <3>1. out.data.at \in Nat /\ out.blocks.at \in Nat /\ Len(<<>>) = 0
      BY <1>1 DEF Writer
    <3>2. /\ out.data.at + Len(out.data.held) = b.contentOffset
          /\ out.blocks.at + Len(out.blocks.held) = b.numBlocks
      BY <2>5 DEF EndsAt
    <3>3. out.data.held = <<>> /\ out.blocks.held = <<>>
      BY <1>7, <2>1
    <3>. QED
      BY <3>1, <3>2, <3>3
  <2>11. Above'
    BY <2>1, <2>2, <2>8, <2>10, Zenon DEF Above
  <2>. QED
    BY <2>1, <2>9, <2>11 DEF Kept
<1>22. ASSUME BeginBuild
       PROVE  (Counted => Kept) /\ (phase' = "ckpt_rename" => Handed)
  <2>1. /\ phase = "idle" /\ phase' = "build_flush" /\ FlushBlock(b, out)
        /\ UNCHANGED <<client, source, ckpt, content, blocks, keyFile, keyOut, keyNames>>
    BY <1>22 DEF BeginBuild, caller, disk
  <2>2. ~Publishing
    BY <2>1 DEF Publishing
  <2>3. out'.data.at = out.data.at /\ out'.blocks.at = out.blocks.at
    BY <2>1, FlushBlockAt
  <2>. QED
    BY <1>3, <1>6, <2>1, <2>2, <2>3
<1>23. ASSUME BuildFlush
       PROVE  (Counted => Kept) /\ (phase' = "ckpt_rename" => Handed)
  <2>1. WritersMove
    BY <1>23, FlushesMove DEF BuildFlush
  <2>2. /\ phase = "build_flush" /\ phase' = "build_offsets"
        /\ UNCHANGED <<client, source, ckpt, keyNames, turn>>
    BY <1>23 DEF BuildFlush, caller
  <2>3. ~Publishing /\ turn <= 1
    BY <1>4, <2>2 DEF Publishing, Closed
  <2>. QED
    BY <1>5, <2>1, <2>2, <2>3
<1>24. ASSUME BuildOffsets
       PROVE  (Counted => Kept) /\ (phase' = "ckpt_rename" => Handed)
  <2>1. WritersMove
    BY <1>24, FlushesMove DEF BuildOffsets
  <2>2. /\ phase = "build_offsets" /\ phase' = "build_keys"
        /\ UNCHANGED <<client, source, ckpt, keyNames>>
    BY <1>24 DEF BuildOffsets, caller
  <2>3. ~Publishing /\ turn <= 1
    BY <1>4, <2>2 DEF Publishing, Closed
  <2>. QED
    BY <1>5, <2>1, <2>2, <2>3
<1>25. ASSUME BuildKey
       PROVE  (Counted => Kept) /\ (phase' = "ckpt_rename" => Handed)
  <2>1. /\ phase = "build_keys" /\ phase' \in {"build_keys", "failed"}
        /\ UNCHANGED <<client, source, ckpt, content, blocks, out, keyOut, keyNames>>
        /\ UNCHANGED <<keyFile, turn>> \/ turn' = turn + 1
    BY <1>25 DEF BuildKey, caller
  <2>2. turn >= 1
    BY <2>1 DEF BuildInv, Closed
  <2>3. CASE turn' = turn + 1
    <3>1. Publishing'
      BY <1>1, <2>1, <2>2, <2>3 DEF Publishing
    <3>. QED
      BY <2>1, <3>1 DEF Counted
  <2>4. CASE UNCHANGED <<keyFile, turn>>
    <3>1. Publishing => Publishing'
      BY <2>1, <2>4 DEF Publishing
    <3>. QED
      BY <1>3, <1>6, <2>1, <2>4, <3>1
  <2>. QED
    BY <2>1, <2>3, <2>4
<1>26. ASSUME BuildMeta
       PROVE  (Counted => Kept) /\ (phase' = "ckpt_rename" => Handed)
  BY <1>26 DEF BuildMeta, Counted, Publishing
<1>27. ASSUME BuildClean
       PROVE  (Counted => Kept) /\ (phase' = "ckpt_rename" => Handed)
  BY <1>27 DEF BuildClean, Counted, Absent
<1>28. ASSUME Crash
       PROVE  (Counted => Kept) /\ (phase' = "ckpt_rename" => Handed)
  <2>1. /\ phase' = "down" /\ Running
        /\ UNCHANGED <<client, source, ckpt, content, blocks, keyFile>>
    BY <1>28 DEF Crash, disk
  <2>2. ASSUME Counted
        PROVE  Kept
    <3>1. Resumes(client) /\ ckpt.state = "complete" /\ ~Publishing
      BY <1>28, <2>1, <2>2, StartsAre DEF Counted
    <3>2. Recoverable
      BY <3>1 DEF CheckpointInv
    <3>3. Recoverable'
      BY <1>3, <2>1, <3>1, <3>2, RecoverableFrame
    <3>. QED
      BY <2>1, <3>3 DEF Kept
  <2>. QED
    BY <2>1, <2>2
<1>29. CASE UNCHANGED vars
  <2>1. CheckpointInv'
    <3>1. UNCHANGED <<client, source, content, blocks, keyFile, ckpt, phase, keyNames, out, keyOut,
                      turn>>
      BY <1>29 DEF vars
    <3>2. (Recoverable' <=> Recoverable) /\ (Above' <=> Above) /\ (Publishing' <=> Publishing)
      BY <3>1, Zenon DEF Recoverable, Above, Publishing
    <3>. QED
      BY <3>1, <3>2, Zenon DEF CheckpointInv
  <2>. QED
    BY <2>1 DEF CheckpointInv, Counted, Kept, Handed
<1>. QED
  BY <1>9, <1>10, <1>11, <1>12, <1>13, <1>14, <1>15, <1>16, <1>17, <1>18, <1>19, <1>20, <1>21,
     <1>22, <1>23, <1>24, <1>25, <1>26, <1>27, <1>28, <1>29 DEF Next, Finished

-----------------------------------------------------------------------------
(***************************************************************************)
(* The key files as build reads them                                       *)
(***************************************************************************)

\* The values of lines are values of documents, which zeros are not.
LEMMA LineValue ==
  ASSUME NEW docs \in Seq(Documents), NEW n \in Nat, n <= Len(docs), NEW k,
         NEW l \in Lines(docs, k, n)
  PROVE  l.value \in KeyValues /\ l # NoLine /\ l.doc \in Nat
<1>1. /\ l.doc \in 0 .. n - 1 /\ k \in DOMAIN docs[l.doc + 1].keys
      /\ l = [value |-> docs[l.doc + 1].keys[k], doc |-> l.doc]
  BY LineIs
<1>2. docs[l.doc + 1] \in Documents
  BY <1>1
<1>3. docs[l.doc + 1].keys[k] \in KeyValues
  BY <1>1, <1>2, DocumentIs
<1>4. l.value \in KeyValues
  BY <1>1, <1>3
<1>5. NoLine.value = 0 /\ 0 \notin KeyValues
  BY DocStoreAssumption DEF NoLine
<1>. QED
  BY <1>1, <1>4, <1>5

\* A key file whose lines are those of the documents reads as one entry a line.
LEMMA EntriesAre ==
  ASSUME NEW f \in Seq(Line), NEW docs \in Seq(Documents), NEW n \in Nat, n <= Len(docs), NEW k,
         Keyed(f, docs, k, n)
  PROVE  /\ ~Unparsable(f)
         /\ \A i \in 1 .. Len(f) : f[i] \in Lines(docs, k, n)
         /\ Entries(f) = {[zeros |-> 0, value |-> f[i].value, doc |-> f[i].doc, line |-> i] :
                            i \in 1 .. Len(f)}
<1>1. Len(f) \in Nat /\ DOMAIN f = 1 .. Len(f) /\ Range(f) = Lines(docs, k, n)
  BY DEF Keyed
<1>2. \A i \in 1 .. Len(f) : f[i] \in Lines(docs, k, n)
  BY <1>1 DEF Range
<1>3. \A i \in 1 .. Len(f) : f[i] # NoLine
  BY <1>2, LineValue
<1>4. ~Unparsable(f)
  <2>1. f # <<>> => Len(f) \in 1 .. Len(f)
    BY <1>1
  <2>. QED
    BY <1>3, <2>1 DEF Unparsable
<1>5. ASSUME NEW i \in 1 .. Len(f)
      PROVE  ZerosBefore(f, i) = 0
  <2>1. ASSUME NEW j \in 1 .. i - 1, \A l \in j .. i - 1 : f[l] = NoLine
        PROVE  FALSE
    <3>1. j \in j .. i - 1 /\ j \in 1 .. Len(f)
      BY <1>1
    <3>. QED
      BY <1>3, <2>1, <3>1
  <2>2. {j \in 1 .. i - 1 : \A l \in j .. i - 1 : f[l] = NoLine} = {}
    BY <2>1
  <2>. QED
    BY <2>2, FS_EmptySet DEF ZerosBefore
<1>6. {j \in 1 .. Len(f) : f[j] # NoLine} = 1 .. Len(f)
  BY <1>3
<1>7. Entries(f) = {[zeros |-> ZerosBefore(f, i), value |-> f[i].value, doc |-> f[i].doc,
                     line |-> i] :
                      i \in 1 .. Len(f)}
  BY <1>6, Zenon DEF Entries
<1>8. Entries(f) = {[zeros |-> 0, value |-> f[i].value, doc |-> f[i].doc, line |-> i] :
                      i \in 1 .. Len(f)}
  BY <1>5, <1>7
<1>. QED
  BY <1>2, <1>4, <1>8

\* Two entries have one value when two documents do.
LEMMA DuplicatedIs ==
  ASSUME NEW f \in Seq(Line), NEW docs \in Seq(Documents), NEW n \in Nat, n <= Len(docs), NEW k,
         Keyed(f, docs, k, n)
  PROVE  Duplicated(f) <=> \E l, m \in Lines(docs, k, n) : l # m /\ l.value = m.value
<1> DEFINE entry(i) == [zeros |-> 0, value |-> f[i].value, doc |-> f[i].doc, line |-> i]
<1>1. /\ Entries(f) = {entry(i) : i \in 1 .. Len(f)}
      /\ \A i \in 1 .. Len(f) : f[i] \in Lines(docs, k, n)
      /\ DOMAIN f = 1 .. Len(f) /\ Range(f) = Lines(docs, k, n) /\ IsInjective(f)
  BY EntriesAre DEF Keyed
<1>2. ASSUME Duplicated(f)
      PROVE  \E l, m \in Lines(docs, k, n) : l # m /\ l.value = m.value
  <2>1. PICK e \in Entries(f), g \in Entries(f) : e.line # g.line /\ e.value = g.value
    BY <1>2 DEF Duplicated
  <2>2. PICK i \in 1 .. Len(f) : e = entry(i)
    BY <1>1, <2>1
  <2>3. PICK j \in 1 .. Len(f) : g = entry(j)
    BY <1>1, <2>1
  <2>4. i # j /\ f[i].value = f[j].value
    BY <2>1, <2>2, <2>3
  <2>5. f[i] # f[j]
    BY <1>1, <2>4 DEF IsInjective
  <2>. QED
    BY <1>1, <2>4, <2>5
<1>3. ASSUME NEW l \in Lines(docs, k, n), NEW m \in Lines(docs, k, n), l # m, l.value = m.value
      PROVE  Duplicated(f)
  <2>1. PICK i \in 1 .. Len(f) : f[i] = l
    BY <1>1 DEF Range
  <2>2. PICK j \in 1 .. Len(f) : f[j] = m
    BY <1>1 DEF Range
  <2>3. entry(i) \in Entries(f) /\ entry(j) \in Entries(f)
    BY <1>1
  <2>4. entry(i).line # entry(j).line /\ entry(i).zeros = entry(j).zeros
        /\ entry(i).value = entry(j).value
    BY <1>3, <2>1, <2>2
  <2>. QED
    BY <2>3, <2>4 DEF Duplicated
<1>. QED
  BY <1>2, <1>3

\* Then they are two of the documents that have it.
LEMMA HavingTwo ==
  ASSUME source \in Seq(Documents), NEW k, NEW n \in Nat, n <= Len(source),
         NEW l \in Lines(source, k, n), NEW m \in Lines(source, k, n), l # m, l.value = m.value
  PROVE  l.value \in KeyValues /\ Cardinality(Having(k, l.value, n)) > 1
<1> DEFINE v == l.value
           S == Having(k, v, n)
<1>1. /\ l.doc \in 0 .. n - 1 /\ k \in DOMAIN source[l.doc + 1].keys
      /\ l = [value |-> source[l.doc + 1].keys[k], doc |-> l.doc]
      /\ m.doc \in 0 .. n - 1 /\ k \in DOMAIN source[m.doc + 1].keys
      /\ m = [value |-> source[m.doc + 1].keys[k], doc |-> m.doc]
  BY LineIs
<1>2. source[l.doc + 1].keys[k] = v /\ source[m.doc + 1].keys[k] = v
  BY <1>1
<1>3. l.doc \in S /\ m.doc \in S
  BY <1>1, <1>2 DEF Having
<1>4. l.doc # m.doc
  BY <1>1, <1>2
<1>5. S \subseteq 0 .. n - 1
  BY DEF Having
<1>6. IsFiniteSet(0 .. n - 1)
  BY FS_Interval
<1>7. IsFiniteSet(S)
  BY <1>5, <1>6, FS_Subset
<1>8. v \in KeyValues
  BY LineValue
<1> HIDE DEF S, v
<1>9. Cardinality(S) \in Nat
  BY <1>7, FS_CardinalityType
<1>10. Cardinality(S) # 0
  BY <1>3, <1>7, FS_EmptySet
<1>11. Cardinality(S) # 1
  <2>1. ASSUME Cardinality(S) = 1
        PROVE  FALSE
    <3>1. \E x : S = {x}
      BY <1>7, <2>1, FS_Singleton
    <3>. QED
      BY <1>3, <1>4, <3>1
  <2>. QED
    BY <2>1
<1>12. Cardinality(S) > 1
  BY <1>9, <1>10, <1>11
<1>. QED
  BY <1>8, <1>12 DEF S, v

\* What build does with the file of the next key.
LEMMA KeyBuilt ==
  ASSUME Typed, KeyInv, BuildInv, BuildKey
  PROVE  /\ keyNames[turn] \in KeyNames /\ turn \in 1 .. Len(keyNames)
         /\ \A i \in 1 .. Len(keyNames) : i < turn => fst'[keyNames[i]] = fst[keyNames[i]]
         /\ \/ /\ phase' = "failed" /\ UNCHANGED turn
               /\ \E v \in KeyValues : Cardinality(Having(keyNames[turn], v, Len(source))) > 1
            \/ /\ phase' = "build_keys" /\ turn' = turn + 1
               /\ fst'[keyNames[turn]] =
                    {[zeros |-> 0, value |-> l.value, doc |-> l.doc] :
                       l \in Lines(source, keyNames[turn], b.numDocs)}
               /\ \A l, m \in Lines(source, keyNames[turn], b.numDocs) : l.value = m.value => l = m
<1>1. /\ source \in Seq(Documents) /\ Len(source) \in Nat
      /\ keyFile \in [KeyNames -> Seq(Line)] /\ keyOut \in [KeyNames -> Writer(Line)]
      /\ turn \in Nat /\ keyNames \in Seq(KeyNames) /\ Len(keyNames) \in Nat /\ b.numDocs \in Nat
  BY TypesNow
<1>2. fst \in [KeyNames -> SUBSET [zeros : Nat, value : KeyValues, doc : Nat]]
  BY TypeParts DEF BuiltTyped
<1>3. phase = "build_keys" /\ turn <= Len(keyNames)
  BY DEF BuildKey
<1>4. /\ turn >= 1 /\ b.numDocs = Len(source) /\ \A k \in KeyNames : keyOut[k].held = <<>>
  BY <1>3 DEF BuildInv, Closed
<1>5. turn \in 1 .. Len(keyNames)
  BY <1>1, <1>3, <1>4
<1>6. PICK k \in KeyNames : k = keyNames[turn]
  BY <1>1, <1>5, ElementOf
<1>7. PICK f \in Seq(Line) : f = keyFile[k]
  BY <1>1
<1>8. Keyed(f, source, k, b.numDocs)
  <2>1. turn <= turn
    BY <1>1
  <2>2. Keyed(FullKey(k), source, k, Done(k))
    BY <1>5, <1>6, <2>1 DEF KeyInv
  <2>3. Done(k) = b.numDocs
    BY <1>3 DEF Done
  <2>4. FullKey(k) = f
    BY <1>1, <1>4, <1>7, FlushedNothing DEF FullKey
  <2>. QED
    BY <2>2, <2>3, <2>4
<1>9. b.numDocs <= Len(source)
  BY <1>1, <1>4
<1> DEFINE n == b.numDocs
<1>10. n \in Nat /\ n <= Len(source)
  BY <1>1, <1>9
<1>11. Keyed(f, source, k, n)
  BY <1>8
<1> HIDE DEF n
<1>12. ~Unparsable(f)
  BY <1>1, <1>10, <1>11, EntriesAre
<1>13. Entries(f) = {[zeros |-> 0, value |-> f[i].value, doc |-> f[i].doc, line |-> i] :
                       i \in 1 .. Len(f)}
  BY <1>1, <1>10, <1>11, EntriesAre
<1>14. Duplicated(f) <=> \E l, m \in Lines(source, k, n) : l # m /\ l.value = m.value
  BY <1>1, <1>10, <1>11, DuplicatedIs
<1> USE DEF n
<1>15. \A i \in 1 .. Len(keyNames) : i < turn => keyNames[i] \in KeyNames /\ keyNames[i] # k
  <2>1. IsInjective(keyNames) /\ DOMAIN keyNames = 1 .. Len(keyNames)
    BY <1>1 DEF KeyInv
  <2>2. \A i \in 1 .. Len(keyNames) : keyNames[i] \in KeyNames
    BY <1>1, ElementOf
  <2>3. \A i \in 1 .. Len(keyNames) : i < turn => i # turn
    BY <1>1
  <2>. QED
    BY <1>5, <1>6, <2>1, <2>2, <2>3 DEF IsInjective
<1>16. CASE Refused(f)
  <2>1. /\ phase' = "failed" /\ UNCHANGED turn /\ fst' = [fst EXCEPT ![k] = {}]
    BY <1>6, <1>7, <1>12, <1>16 DEF BuildKey
  <2>2. PICK l \in Lines(source, k, b.numDocs), m \in Lines(source, k, b.numDocs) :
          l # m /\ l.value = m.value
    BY <1>12, <1>14, <1>16 DEF Refused
  <2>3. l.value \in KeyValues /\ Cardinality(Having(k, l.value, b.numDocs)) > 1
    BY <1>1, <1>9, <2>2, HavingTwo
  <2>4. \A i \in 1 .. Len(keyNames) : i < turn => fst'[keyNames[i]] = fst[keyNames[i]]
    BY <1>2, <1>15, <2>1
  <2>. QED
    BY <1>4, <1>5, <1>6, <2>1, <2>3, <2>4
<1>17. CASE ~Refused(f)
  <2> DEFINE Map == {[zeros |-> e.zeros, value |-> e.value, doc |-> e.doc] : e \in Entries(f)}
  <2>1. /\ phase' = "build_keys" /\ turn' = turn + 1 /\ fst' = [fst EXCEPT ![k] = Map]
    BY <1>3, <1>6, <1>7, <1>17 DEF BuildKey
  <2>2. Map = {[zeros |-> 0, value |-> l.value, doc |-> l.doc] : l \in Lines(source, k, b.numDocs)}
    <3>1. Range(f) = Lines(source, k, b.numDocs) /\ DOMAIN f = 1 .. Len(f)
      BY <1>8 DEF Keyed
    <3>2. Map = {[zeros |-> 0, value |-> f[i].value, doc |-> f[i].doc] : i \in 1 .. Len(f)}
      <4> DEFINE entry(i) == [zeros |-> 0, value |-> f[i].value, doc |-> f[i].doc, line |-> i]
      <4>1. \A i : /\ entry(i).zeros = 0 /\ entry(i).value = f[i].value
                   /\ entry(i).doc = f[i].doc
        OBVIOUS
      <4>2. Entries(f) = {entry(i) : i \in 1 .. Len(f)}
        BY <1>13
      <4> HIDE DEF entry
      <4>3. Map = {[zeros |-> entry(i).zeros, value |-> entry(i).value, doc |-> entry(i).doc] :
                     i \in 1 .. Len(f)}
        BY <4>2
      <4>. QED
        BY <4>1, <4>3
    <3>3. Range(f) = {f[i] : i \in 1 .. Len(f)}
      BY <3>1 DEF Range
    <3>. QED
      BY <3>1, <3>2, <3>3
  <2> HIDE DEF Map
  <2>3. fst'[k] = Map
    BY <1>2, <2>1
  <2>4. \A l, m \in Lines(source, k, b.numDocs) : l.value = m.value => l = m
    BY <1>14, <1>17 DEF Refused
  <2>5. \A i \in 1 .. Len(keyNames) : i < turn => fst'[keyNames[i]] = fst[keyNames[i]]
    BY <1>2, <1>15, <2>1
  <2>. QED
    BY <1>5, <1>6, <2>1, <2>2, <2>3, <2>4, <2>5
<1>. QED
  BY <1>16, <1>17

\* Every step of a steady caller keeps what build made.
LEMMA BuildStep ==
  Typed /\ Typed' /\ MemoryInv /\ KeyInv /\ BuildInv /\ [Next]_vars => BuildInv'
<1> SUFFICES ASSUME Typed, Typed', MemoryInv, KeyInv, BuildInv, [Next]_vars
             PROVE  BuildInv'
  OBVIOUS
<1>1. /\ source \in Seq(Documents) /\ Len(source) \in Nat
      /\ b \in Builder /\ out \in Output /\ b.numDocs \in Nat
      /\ out.data \in Writer(Chunk) /\ out.blocks \in Writer(Record)
      /\ keyOut \in [KeyNames -> Writer(Line)] /\ turn \in Nat
      /\ keyNames \in Seq(KeyNames) /\ Len(keyNames) \in Nat
      /\ phase \notin Closed => turn = 0
  BY TypesNow, TypeParts DEF WritersTyped
<1>2. phase' \notin Closed => turn' = 0
  BY DEF Typed, Timely
<1>3. /\ phase \in {"build_flush", "build_offsets"} \cup Closed =>
           b.numDocs = Len(source) /\ b.block = <<>>
      /\ phase \in {"build_offsets"} \cup Closed => out.data.held = <<>> /\ out.blocks.held = <<>>
      /\ phase \in Closed =>
           /\ offsets = b.index \o b.intra
           /\ \A k \in KeyNames : keyOut[k].held = <<>>
           /\ turn >= 1
      /\ \A i \in 1 .. Len(keyNames) : i < turn => Mapped(keyNames[i])
      /\ phase \in {"build_clean", "built"} =>
           /\ turn > Len(keyNames)
           /\ meta = [state |-> "complete", numDocs |-> b.numDocs, names |-> keyNames]
      /\ RefusedOnlyDuplicates
  BY DEF BuildInv
<1>4. \A s : s \in Seq(Chunk) \/ s \in Seq(Record) \/ s \in Seq(Line) =>
        (s = <<>> => 1 .. Len(s) = {})
  OBVIOUS
<1>5. \A S : \A w \in Writer(S) : Emptied(w).held = <<>>
  <2> TAKE S
  <2> TAKE w \in Writer(S)
  <2>1. w.held \in Seq(S) /\ Len(w.held) \in Nat
    BY DEF Writer
  <2>2. /\ SubSeq(w.held, Len(w.held) + 1, Len(w.held)) \in Seq(S)
        /\ Len(SubSeq(w.held, Len(w.held) + 1, Len(w.held))) = 0
    BY <2>1, SplitSequence
  <2>. QED
    BY <2>2 DEF Emptied, HandedOver
<1>6. ASSUME phase' \notin Closed,
             phase' \in {"build_flush", "build_offsets"} =>
                 b'.numDocs = Len(source') /\ b'.block = <<>>,
             phase' = "build_offsets" => out'.data.held = <<>> /\ out'.blocks.held = <<>>
      PROVE  BuildInv'
  <2>1. turn' = 0
    BY <1>2, <1>6
  <2>2. phase' \notin {"build_clean", "built", "failed"}
    BY <1>6 DEF Closed
  <2>3. \A i \in 1 .. Len(keyNames') : ~(i < turn')
    BY <2>1
  <2>4. RefusedOnlyDuplicates'
    BY <2>2 DEF RefusedOnlyDuplicates
  <2>5. \A i \in 1 .. Len(keyNames') : i < turn' => Mapped(keyNames[i])'
    BY <2>3, Zenon
  <2>. QED
    BY <1>6, <2>2, <2>4, <2>5, Zenon DEF BuildInv
<1>7. ASSUME phase' \in Closed, phase \in Closed,
             UNCHANGED <<source, b, out, offsets, keyNames, keyOut>>,
             turn' >= 1,
             \A i \in 1 .. Len(keyNames) : i < turn' => Mapped(keyNames[i])',
             phase' \in {"build_clean", "built"} =>
               /\ turn' > Len(keyNames)
               /\ meta' = [state |-> "complete", numDocs |-> b.numDocs, names |-> keyNames],
             RefusedOnlyDuplicates'
      PROVE  BuildInv'
  BY <1>3, <1>7, Zenon DEF BuildInv
<1>8. \A i : source' = source /\ b' = b /\ keyNames' = keyNames /\ fst' = fst =>
        (Mapped(keyNames[i])' <=> Mapped(keyNames[i]))
  BY DEF Mapped
<1>9. ASSUME NEW f \in client.frequencies, StartResume(f) \/ StartFresh(f) \/ Reopen(f)
       PROVE  BuildInv'
  <2>1. phase' \in {"idle", "fresh"}
    BY <1>9 DEF StartResume, StartFresh, Reopen
  <2>. QED
    BY <1>6, <2>1 DEF Closed
<1>10. ASSUME FreshClean \/ CallCheckpoint \/ CheckpointFlush \/ CheckpointRename \/ EndAdd \/ Crash
       PROVE  BuildInv'
  <2>1. phase' \in {"idle", "ckpt", "ckpt_rename", "down"}
    BY <1>10 DEF FreshClean, CallCheckpoint, CheckpointFlush, CheckpointRename, EndAdd, Crash
  <2>. QED
    BY <1>6, <2>1 DEF Closed
<1>11. ASSUME NEW d \in Documents, BeginAdd(d)
       PROVE  BuildInv'
  <2>1. phase' = "adding"
    BY <1>11 DEF BeginAdd
  <2>. QED
    BY <1>6, <2>1 DEF Closed
<1>12. ASSUME NEW k \in KeyNames, AddKey(k)
       PROVE  BuildInv'
  <2>1. phase' = "adding"
    BY <1>12 DEF AddKey
  <2>. QED
    BY <1>6, <2>1 DEF Closed
<1>13. ASSUME NEW n \in 1 .. Len(out.data.held), SpillContent(n)
       PROVE  BuildInv'
  <2>1. out.data.held # <<>>
    BY <1>13
  <2>2. phase \notin {"build_offsets"} \cup Closed
    BY <1>3, <2>1
  <2>3. UNCHANGED <<source, b, phase>>
    BY <1>13 DEF SpillContent, caller
  <2>. QED
    BY <1>3, <1>6, <2>2, <2>3
<1>14. ASSUME NEW n \in 1 .. Len(out.blocks.held), SpillBlocks(n)
       PROVE  BuildInv'
  <2>1. out.blocks.held # <<>>
    BY <1>14
  <2>2. phase \notin {"build_offsets"} \cup Closed
    BY <1>3, <2>1
  <2>3. UNCHANGED <<source, b, phase>>
    BY <1>14 DEF SpillBlocks, caller
  <2>. QED
    BY <1>3, <1>6, <2>2, <2>3
<1>15. ASSUME NEW k \in KeyNames, NEW n \in 1 .. Len(keyOut[k].held), SpillKey(k, n)
       PROVE  BuildInv'
  <2>1. keyOut[k].held # <<>>
    BY <1>15
  <2>2. phase \notin Closed
    BY <1>3, <2>1
  <2>3. UNCHANGED <<source, b, phase, out>>
    BY <1>15 DEF SpillKey, caller
  <2>. QED
    BY <1>3, <1>6, <2>2, <2>3
<1>16. ASSUME BeginBuild
       PROVE  BuildInv'
  <2>1. FlushBlock(b, out) /\ phase' = "build_flush" /\ source' = source /\ b.numDocs = Len(source)
    BY <1>16 DEF BeginBuild, caller
  <2>2. b'.numDocs = b.numDocs
    BY <1>1, <2>1, FlushBlockTyped
  <2>3. b'.block = <<>>
    BY <2>1 DEF FlushBlock
  <2>. QED
    BY <1>6, <2>1, <2>2, <2>3 DEF Closed
<1>17. ASSUME BuildFlush
       PROVE  BuildInv'
  <2>1. /\ phase = "build_flush" /\ phase' = "build_offsets" /\ UNCHANGED <<source, b>>
        /\ out'.data = Emptied(out.data) /\ out'.blocks = Emptied(out.blocks)
    BY <1>17 DEF BuildFlush, caller
  <2>2. out'.data.held = <<>> /\ out'.blocks.held = <<>>
    BY <1>1, <1>5, <2>1
  <2>3. b'.numDocs = Len(source') /\ b'.block = <<>>
    BY <1>3, <2>1
  <2>. QED
    BY <1>6, <2>1, <2>2, <2>3 DEF Closed
<1>18. ASSUME BuildOffsets
       PROVE  BuildInv'
  <2>1. /\ phase = "build_offsets" /\ phase' = "build_keys" /\ UNCHANGED <<source, b, out>>
        /\ offsets' = b.index \o b.intra /\ turn' = 1
        /\ keyOut' = [k \in KeyNames |-> Emptied(keyOut[k])]
    BY <1>18 DEF BuildOffsets, caller
  <2>2. /\ b.numDocs = Len(source) /\ b.block = <<>>
        /\ out.data.held = <<>> /\ out.blocks.held = <<>>
    BY <1>3, <2>1
  <2>3. \A k \in KeyNames : keyOut'[k].held = <<>>
    BY <1>1, <1>5, <2>1
  <2>4. \A i \in 1 .. Len(keyNames') : ~(i < turn')
    BY <2>1
  <2>5. RefusedOnlyDuplicates'
    BY <2>1 DEF RefusedOnlyDuplicates
  <2>6. \A i \in 1 .. Len(keyNames') : i < turn' => Mapped(keyNames[i])'
    BY <2>4, Zenon
  <2>7. phase' \notin {"build_clean", "built"} /\ turn' >= 1
    BY <2>1
  <2>. QED
    BY <2>1, <2>2, <2>3, <2>5, <2>6, <2>7, Zenon DEF BuildInv
<1>19. ASSUME BuildKey
       PROVE  BuildInv'
  <2>1. /\ phase = "build_keys" /\ phase' \in {"build_keys", "failed"}
        /\ UNCHANGED <<source, b, out, offsets, keyNames, keyOut>>
    BY <1>19 DEF BuildKey, caller
  <2>2. /\ keyNames[turn] \in KeyNames /\ turn \in 1 .. Len(keyNames)
        /\ \A i \in 1 .. Len(keyNames) : i < turn => fst'[keyNames[i]] = fst[keyNames[i]]
    BY <1>19, KeyBuilt
  <2>3. ASSUME NEW i \in 1 .. Len(keyNames), i < turn
        PROVE  Mapped(keyNames[i])'
    <3>1. Mapped(keyNames[i]) /\ fst'[keyNames[i]] = fst[keyNames[i]]
      BY <1>3, <2>2, <2>3
    <3>. QED
      BY <2>1, <3>1 DEF Mapped
  <2>4. phase' \in Closed /\ phase \in Closed /\ phase' \notin {"build_clean", "built"}
    BY <2>1 DEF Closed
  <2>5. CASE /\ phase' = "failed" /\ UNCHANGED turn
             /\ \E v \in KeyValues : Cardinality(Having(keyNames[turn], v, Len(source))) > 1
    <3>1. RefusedOnlyDuplicates'
      <4>1. PICK k \in KeyNames, v \in KeyValues : Cardinality(Having(k, v, Len(source))) > 1
        BY <2>2, <2>5
      <4>2. Having(k, v, Len(source))' = Having(k, v, Len(source))
        BY <2>1 DEF Having
      <4>. QED
        BY <4>1, <4>2 DEF RefusedOnlyDuplicates
    <3>2. turn' >= 1
      BY <2>2, <2>5
    <3>3. \A i \in 1 .. Len(keyNames) : i < turn' => Mapped(keyNames[i])'
      BY <2>3, <2>5
    <3>. QED
      BY <1>7, <2>1, <2>4, <3>1, <3>2, <3>3, Zenon
  <2>6. CASE /\ phase' = "build_keys" /\ turn' = turn + 1
             /\ fst'[keyNames[turn]] =
                  {[zeros |-> 0, value |-> l.value, doc |-> l.doc] :
                     l \in Lines(source, keyNames[turn], b.numDocs)}
             /\ \A l, m \in Lines(source, keyNames[turn], b.numDocs) : l.value = m.value => l = m
    <3>1. Mapped(keyNames[turn])
            <=> /\ fst[keyNames[turn]] =
                     {[zeros |-> 0, value |-> l.value, doc |-> l.doc] :
                        l \in Lines(source, keyNames[turn], b.numDocs)}
                /\ \A l, m \in Lines(source, keyNames[turn], b.numDocs) : l.value = m.value => l = m
      BY DEF Mapped
    <3>2. ASSUME NEW i \in 1 .. Len(keyNames), i < turn'
          PROVE  Mapped(keyNames[i])'
      <4>1. CASE i < turn
        BY <2>3, <4>1
      <4>2. CASE ~(i < turn)
        <5>1. i = turn
          BY <2>2, <2>6, <3>2, <4>2
        <5>2. PICK k : k = keyNames[i]
          OBVIOUS
        <5>3. /\ fst'[k] = {[zeros |-> 0, value |-> l.value, doc |-> l.doc] :
                              l \in Lines(source, k, b.numDocs)}
              /\ \A l, m \in Lines(source, k, b.numDocs) : l.value = m.value => l = m
          BY <2>6, <5>1, <5>2
        <5>. QED
          BY <2>1, <5>2, <5>3 DEF Mapped
      <4>. QED
        BY <4>1, <4>2
    <3>3. RefusedOnlyDuplicates'
      BY <2>6 DEF RefusedOnlyDuplicates
    <3>4. turn' >= 1
      BY <2>2, <2>6
    <3>. QED
      BY <1>7, <2>1, <2>4, <3>2, <3>3, <3>4, Zenon
  <2>. QED
    BY <1>19, <2>5, <2>6, KeyBuilt, Zenon
<1>20. ASSUME BuildMeta
       PROVE  BuildInv'
  <2>1. /\ phase = "build_keys" /\ phase' = "build_clean" /\ turn > Len(keyNames)
        /\ UNCHANGED <<source, b, out, offsets, keyNames, keyOut, turn, fst>>
        /\ meta' = [state |-> "complete", numDocs |-> b.numDocs, names |-> keyNames]
    BY <1>20 DEF BuildMeta, caller, memory
  <2>2. phase' \in Closed /\ phase \in Closed /\ RefusedOnlyDuplicates'
    BY <2>1 DEF Closed, RefusedOnlyDuplicates
  <2>3. \A i \in 1 .. Len(keyNames) : i < turn' => Mapped(keyNames[i])'
    BY <1>3, <1>8, <2>1
  <2>. QED
    BY <1>3, <1>7, <2>1, <2>2, <2>3, Zenon
<1>21. ASSUME BuildClean
       PROVE  BuildInv'
  <2>1. /\ phase = "build_clean" /\ phase' = "built"
        /\ UNCHANGED <<source, b, out, offsets, keyNames, keyOut, turn, fst, meta>>
    BY <1>21 DEF BuildClean, caller, memory, built
  <2>2. phase' \in Closed /\ phase \in Closed /\ RefusedOnlyDuplicates'
    BY <2>1 DEF Closed, RefusedOnlyDuplicates
  <2>3. \A i \in 1 .. Len(keyNames) : i < turn' => Mapped(keyNames[i])'
    BY <1>3, <1>8, <2>1
  <2>4. phase \in {"build_clean", "built"}
    BY <2>1
  <2>. QED
    BY <1>3, <1>7, <2>1, <2>2, <2>3, <2>4, Zenon
<1>22. CASE UNCHANGED vars
  <2>1. UNCHANGED <<source, offsets, fst, meta, phase, b, keyNames, out, keyOut, turn>>
    BY <1>22 DEF vars
  <2>2. RefusedOnlyDuplicates' <=> RefusedOnlyDuplicates
    BY <2>1, Zenon DEF RefusedOnlyDuplicates, Having
  <2>3. \A i \in 1 .. Len(keyNames) : i < turn' => Mapped(keyNames[i])'
    BY <1>3, <1>8, <2>1
  <2>. QED
    BY <1>3, <2>1, <2>2, <2>3, Zenon DEF BuildInv
<1>. QED
  BY <1>9, <1>10, <1>11, <1>12, <1>13, <1>14, <1>15, <1>16, <1>17, <1>18, <1>19, <1>20, <1>21,
     <1>22 DEF Next, Finished

-----------------------------------------------------------------------------
(***************************************************************************)
(* What a reader finds                                                     *)
(***************************************************************************)

\* A document is where its builder says: in the block it fills, or in the files.
LEMMA InPlaceIs ==
  ASSUME NEW c, NEW bs, NEW cs, NEW docs, NEW i, docs[i] \in Documents,
         c.index[i] \in Nat, c.numBlocks \in Nat, InPlace(c, bs, cs, docs, i)
  PROVE  /\ c.index[i] = c.numBlocks => DecodeAt(c.block, c.intra[i]) = docs[i]
         /\ c.index[i] # c.numBlocks =>
              DecodeAt(ReadBlock(bs, cs, c.index[i]), c.intra[i]) = docs[i]
         /\ c.block = <<>> => c.index[i] # c.numBlocks
<1>1. ASSUME c.index[i] = c.numBlocks
      PROVE  DecodeAt(c.block, c.intra[i]) = docs[i] /\ c.block # <<>>
  <2>1. HoldsAt(c.block, c.intra[i], docs[i])
    BY <1>1 DEF InPlace
  <2>2. DecodeAt(c.block, c.intra[i]) = docs[i]
    BY <2>1, DecodeIs
  <2>3. c.intra[i] \in Nat /\ docs[i].size \in Nat /\ docs[i].size > 0
        /\ c.intra[i] + docs[i].size <= Len(c.block)
    BY <2>1, DocumentIs DEF HoldsAt
  <2>4. Len(<<>>) = 0
    OBVIOUS
  <2>5. c.block # <<>>
    BY <2>3, <2>4
  <2>. QED
    BY <2>2, <2>5
<1>2. ASSUME c.index[i] # c.numBlocks
      PROVE  DecodeAt(ReadBlock(bs, cs, c.index[i]), c.intra[i]) = docs[i]
  <2>1. HoldsAt(ReadBlock(bs, cs, c.index[i]), c.intra[i], docs[i])
    BY <1>2 DEF InPlace
  <2>. QED
    BY <2>1, DecodeIs
<1>. QED
  BY <1>1, <1>2

\* The offsets of a builder, one after the other, as GetByNumber reads them.
LEMMA OffsetsAre ==
  ASSUME NEW n \in Nat, NEW index \in Seq(Nat), NEW intra \in Seq(Nat),
         Len(index) = n, Len(intra) = n, NEW d \in 0 .. n - 1
  PROVE  /\ {d + 1, n + d + 1} \subseteq DOMAIN (index \o intra)
         /\ (index \o intra)[d + 1] = index[d + 1] /\ (index \o intra)[n + d + 1] = intra[d + 1]
         /\ index[d + 1] \in Nat /\ intra[d + 1] \in Nat
<1>1. DOMAIN (index \o intra) = 1 .. n + n
  OBVIOUS
<1>2. d + 1 \in 1 .. n /\ d + 1 \in 1 .. n + n /\ n + d + 1 \in 1 .. n + n
      /\ n + (d + 1) = n + d + 1
  OBVIOUS
<1>3. \A i \in 1 .. n : (index \o intra)[i] = index[i]
  OBVIOUS
<1>4. \A i \in 1 .. n : (index \o intra)[n + i] = intra[i]
  OBVIOUS
<1>5. index[d + 1] \in Nat /\ intra[d + 1] \in Nat
  BY <1>2, ElementOf
<1>. QED
  BY <1>1, <1>2, <1>3, <1>4, <1>5

\* build has the offsets, the blocks and the number of all documents in its files.
Placed ==
  /\ meta = [state |-> "complete", numDocs |-> Len(source), names |-> keyNames]
  /\ \A d \in 0 .. Len(source) - 1 :
       /\ {d + 1, Len(source) + d + 1} \subseteq DOMAIN offsets
       /\ DecodeAt(ReadBlock(blocks, content, offsets[d + 1]),
                   offsets[Len(source) + d + 1]) = source[d + 1]

\* It does when it is about to remove the checkpoint, and when it has returned.
LEMMA BuiltPlaced ==
  ASSUME Typed, MemoryInv, BuildInv, phase \in {"build_clean", "built"}
  PROVE  Placed
<1>1. /\ source \in Seq(Documents) /\ content \in Seq(Chunk) /\ blocks \in Seq(Record)
      /\ out.data \in Writer(Chunk) /\ out.blocks \in Writer(Record)
      /\ b.index \in Seq(Nat) /\ b.intra \in Seq(Nat) /\ b.numBlocks \in Nat
  BY TypesNow, BuilderIs
<1>2. /\ b.numDocs = Len(source) /\ b.block = <<>> /\ offsets = b.index \o b.intra
      /\ out.data.held = <<>> /\ out.blocks.held = <<>>
      /\ meta = [state |-> "complete", numDocs |-> b.numDocs, names |-> keyNames]
  BY DEF BuildInv, Closed
<1>3. FullContent = content /\ FullBlocks = blocks
  BY <1>1, <1>2, FlushedNothing DEF FullContent, FullBlocks
<1>4. Len(b.index) = Len(source) /\ Blocked(b, blocks, content, source)
  BY <1>2, <1>3 DEF MemoryInv
<1>5. Len(b.intra) = Len(source)
  BY <1>4 DEF Blocked
<1>6. ASSUME NEW d \in 0 .. Len(source) - 1
      PROVE  /\ {d + 1, Len(source) + d + 1} \subseteq DOMAIN offsets
             /\ DecodeAt(ReadBlock(blocks, content, offsets[d + 1]),
                         offsets[Len(source) + d + 1]) = source[d + 1]
  <2>1. PICK n \in Nat : n = Len(source)
    BY <1>1
  <2>2. d \in 0 .. n - 1 /\ d + 1 \in 1 .. n
    BY <2>1
  <2>3. /\ {d + 1, n + d + 1} \subseteq DOMAIN offsets
        /\ offsets[d + 1] = b.index[d + 1] /\ offsets[n + d + 1] = b.intra[d + 1]
        /\ b.index[d + 1] \in Nat
    <3>1. \A s, t \in Seq(Nat) : Len(s) = n /\ Len(t) = n =>
            /\ {d + 1, n + d + 1} \subseteq DOMAIN (s \o t)
            /\ (s \o t)[d + 1] = s[d + 1] /\ (s \o t)[n + d + 1] = t[d + 1]
            /\ s[d + 1] \in Nat
      BY <2>2, OffsetsAre
    <3>. QED
      BY <1>1, <1>2, <1>4, <1>5, <2>1, <3>1
  <2>4. source[d + 1] \in Documents
    BY <1>1, <2>1, <2>2, ElementOf
  <2>5. InPlace(b, blocks, content, source, d + 1)
    BY <1>4, <2>1, <2>2 DEF Blocked
  <2>6. DecodeAt(ReadBlock(blocks, content, b.index[d + 1]), b.intra[d + 1]) = source[d + 1]
    <3>1. PICK c, i : c = b /\ i = d + 1
      OBVIOUS
    <3>2. /\ source[i] \in Documents /\ c.index[i] \in Nat /\ c.numBlocks \in Nat
          /\ InPlace(c, blocks, content, source, i) /\ c.block = <<>>
      BY <1>1, <1>2, <2>3, <2>4, <2>5, <3>1
    <3>3. DecodeAt(ReadBlock(blocks, content, c.index[i]), c.intra[i]) = source[i]
      BY <3>2, InPlaceIs
    <3>. QED
      BY <3>1, <3>3
  <2>. QED
    BY <2>1, <2>3, <2>6
<1>. QED
  BY <1>2, <1>6 DEF Placed

\* Each document is found under its number.
LEMMA NumberReads ==
  ASSUME Placed, NEW d \in 0 .. Len(source) - 1
  PROVE  GetByNumber(meta.numDocs, offsets, blocks, content, d) = source[d + 1]
BY DEF Placed, GetByNumber

\* Several are found under theirs.
LEMMA NumbersRead ==
  ASSUME Placed, source \in Seq(Documents), NEW m \in Nat, NEW nums \in [1 .. m -> Nat]
  PROVE  /\ (\E i \in 1 .. m : nums[i] >= Len(source)) => GetByNumbers(nums) = <<NoDocument>>
         /\ (\A i \in 1 .. m : nums[i] < Len(source)) =>
              GetByNumbers(nums) = [i \in 1 .. m |-> source[nums[i] + 1]]
<1>1. PICK n \in Nat : n = Len(source)
  OBVIOUS
<1>2. meta.numDocs = n /\ DOMAIN nums = 1 .. m
  BY <1>1 DEF Placed
<1>3. ASSUME NEW i \in 1 .. m, nums[i] >= n
      PROVE  GetByNumbers(nums) = <<NoDocument>>
  BY <1>2, <1>3 DEF GetByNumbers
<1>4. ASSUME \A i \in 1 .. m : nums[i] < n
      PROVE  GetByNumbers(nums) = [i \in 1 .. m |-> source[nums[i] + 1]]
  <2> DEFINE at(i) == offsets[nums[i] + 1]
             groups == {[read |-> ReadBlock(blocks, content, x),
                         wanted |-> {i \in 1 .. m : at(i) = x}] : x \in {at(i) : i \in 1 .. m}}
             group(i) == CHOOSE g \in groups : i \in g.wanted
             found(i) == DecodeAt(group(i).read, offsets[n + nums[i] + 1])
  <2>1. \A i \in 1 .. m : ~(nums[i] >= n)
    BY <1>4
  <2>2. GetByNumbers(nums) = [i \in 1 .. m |-> found(i)]
    BY <1>2, <2>1 DEF GetByNumbers
  <2>3. ASSUME NEW i \in 1 .. m
        PROVE  found(i) = source[nums[i] + 1]
    <3>1. \E g \in groups : i \in g.wanted
      <4>1. at(i) \in {at(j) : j \in 1 .. m} /\ i \in {j \in 1 .. m : at(j) = at(i)}
        OBVIOUS
      <4> DEFINE x == at(i)
                 g == [read |-> ReadBlock(blocks, content, x),
                       wanted |-> {j \in 1 .. m : at(j) = x}]
      <4>2. g \in groups
        BY <4>1
      <4>3. i \in g.wanted
        BY <4>1
      <4>. QED
        BY <4>2, <4>3
    <3>2. group(i) \in groups /\ i \in group(i).wanted
      BY <3>1
    <3>3. \A g \in groups : i \in g.wanted => g.read = ReadBlock(blocks, content, at(i))
      OBVIOUS
    <3>4. group(i).read = ReadBlock(blocks, content, at(i))
      BY <3>2, <3>3
    <3>5. nums[i] \in 0 .. n - 1
      BY <1>4
    <3>. QED
      BY <1>1, <3>4, <3>5 DEF Placed
  <2> HIDE DEF found
  <2>. QED
    BY <2>2, <2>3
<1>. QED
  BY <1>1, <1>3, <1>4

\* The documents that have a value are those whose line has it.
LEMMA HavingIs ==
  ASSUME NEW k, NEW v, NEW n \in Nat
  PROVE  Having(k, v, n) = {l.doc : l \in {m \in Lines(source, k, n) : m.value = v}}
<1> DEFINE line(d) == [value |-> source[d + 1].keys[k], doc |-> d]
<1>1. ASSUME NEW d \in Having(k, v, n)
      PROVE  \E l \in Lines(source, k, n) : l.value = v /\ l.doc = d
  <2>1. d \in 0 .. n - 1 /\ k \in DOMAIN source[d + 1].keys /\ source[d + 1].keys[k] = v
    BY <1>1 DEF Having
  <2>2. line(d) \in Lines(source, k, n) /\ line(d).value = v /\ line(d).doc = d
    BY <2>1 DEF Lines
  <2>. QED
    BY <2>2
<1>2. ASSUME NEW l \in Lines(source, k, n), l.value = v
      PROVE  l.doc \in Having(k, v, n)
  <2>1. /\ l.doc \in 0 .. n - 1 /\ k \in DOMAIN source[l.doc + 1].keys
        /\ l = [value |-> source[l.doc + 1].keys[k], doc |-> l.doc]
    BY LineIs
  <2>. QED
    BY <1>2, <2>1 DEF Having
<1>. QED
  BY <1>1, <1>2

\* Once build is done with the keys, the map of each leads where its values are, and
\* no value of a key is that of two documents.
KeysPlaced ==
  /\ \A k \in Range(keyNames), v \in KeyValues : GetByKey(k, v) = Having(k, v, Len(source))
  /\ \A k \in KeyNames, v \in KeyValues :
       \A d, e \in Having(k, v, Len(source)) : d = e
  /\ Range(keyNames) = UNION {DOMAIN source[d].keys : d \in 1 .. Len(source)}

\* A key that is mapped.
LEMMA MappedReads ==
  ASSUME b.numDocs = Len(source), Len(source) \in Nat, NEW k, Mapped(k), NEW v
  PROVE  /\ GetByKey(k, v) = Having(k, v, Len(source))
         /\ \A d, e \in Having(k, v, Len(source)) : d = e
<1> DEFINE L == Lines(source, k, Len(source))
           entry(l) == [zeros |-> 0, value |-> l.value, doc |-> l.doc]
<1>1. /\ fst[k] = {entry(l) : l \in L}
      /\ \A l, m \in L : l.value = m.value => l = m
  BY DEF Mapped
<1>2. Having(k, v, Len(source)) = {l.doc : l \in {m \in L : m.value = v}}
  BY HavingIs
<1>3. \A l : entry(l).zeros = 0 /\ entry(l).value = l.value /\ entry(l).doc = l.doc
  OBVIOUS
<1> HIDE DEF entry, L
<1>4. {g \in fst[k] : g.zeros = 0 /\ g.value = v} = {entry(l) : l \in {m \in L : m.value = v}}
  BY <1>1, <1>3
<1>5. GetByKey(k, v) = {e.doc : e \in {entry(l) : l \in {m \in L : m.value = v}}}
  BY <1>4 DEF GetByKey
<1>6. GetByKey(k, v) = {l.doc : l \in {m \in L : m.value = v}}
  BY <1>3, <1>5
<1>. QED
  BY <1>1, <1>2, <1>6

\* build has them when it is about to remove the checkpoint, and when it has returned.
LEMMA BuiltKeys ==
  ASSUME Typed, KeyInv, BuildInv, phase \in {"build_clean", "built"}
  PROVE  KeysPlaced
<1>1. /\ source \in Seq(Documents) /\ Len(source) \in Nat
      /\ keyNames \in Seq(KeyNames) /\ Len(keyNames) \in Nat /\ turn \in Nat
  BY TypesNow
<1>2. /\ b.numDocs = Len(source) /\ turn > Len(keyNames)
      /\ \A i \in 1 .. Len(keyNames) : i < turn => Mapped(keyNames[i])
  BY DEF BuildInv, Closed
<1>3. \A k \in Range(keyNames) : k \in KeyNames /\ Mapped(k)
  BY <1>1, <1>2 DEF Range
<1>4. \A k \in KeyNames : k \in Range(keyNames) <=> Lines(source, k, Len(source)) # {}
  BY <1>2 DEF KeyInv, Done
<1>5. \A k \in Range(keyNames), v \in KeyValues : GetByKey(k, v) = Having(k, v, Len(source))
  BY <1>1, <1>2, <1>3, MappedReads
<1>6. ASSUME NEW k \in KeyNames, NEW v \in KeyValues,
             NEW d \in Having(k, v, Len(source)), NEW e \in Having(k, v, Len(source))
      PROVE  d = e
  <2>1. Lines(source, k, Len(source)) # {}
    BY <1>1, HavingIs
  <2>2. Mapped(k)
    BY <1>3, <1>4, <2>1
  <2>. QED
    BY <1>1, <1>2, <2>2, MappedReads
<1>7. ASSUME NEW k \in Range(keyNames)
      PROVE  \E d \in 1 .. Len(source) : k \in DOMAIN source[d].keys
  <2>1. PICK l : l \in Lines(source, k, Len(source))
    BY <1>3, <1>4
  <2>2. l.doc \in 0 .. Len(source) - 1 /\ k \in DOMAIN source[l.doc + 1].keys
    BY <1>1, <2>1, LineIs
  <2>3. l.doc + 1 \in 1 .. Len(source)
    BY <1>1, <2>2
  <2>. QED
    BY <2>2, <2>3
<1>8. ASSUME NEW d \in 1 .. Len(source), NEW k \in DOMAIN source[d].keys
      PROVE  k \in Range(keyNames)
  <2>1. source[d] \in Documents
    BY <1>1, ElementOf
  <2>2. k \in KeyNames
    BY <2>1, DocumentIs
  <2>3. PICK e : e = d - 1
    OBVIOUS
  <2>4. e \in 0 .. Len(source) - 1 /\ e + 1 = d
    BY <1>1, <2>3
  <2>5. [value |-> source[e + 1].keys[k], doc |-> e] \in Lines(source, k, Len(source))
    BY <2>4 DEF Lines
  <2>. QED
    BY <1>4, <2>2, <2>5
<1>. QED
  BY <1>5, <1>6, <1>7, <1>8 DEF KeysPlaced

\* A set of places among two, in their order.
LEMMA PlacesInOrder ==
  ASSUME NEW S \in SUBSET (1 .. 2)
  PROVE  /\ Cardinality(S) \in Nat
         /\ \E s \in [1 .. Cardinality(S) -> S] : \A i, j \in DOMAIN s : i < j => s[i] < s[j]
         /\ \A s \in [1 .. Cardinality(S) -> S] :
              (\A i, j \in DOMAIN s : i < j => s[i] < s[j]) =>
                \A x \in S : \E i \in 1 .. Cardinality(S) : s[i] = x
<1> DEFINE InOrder(s) == \A i, j \in DOMAIN s : i < j => s[i] < s[j]
           Goal(n) == /\ \E s \in [1 .. n -> S] : InOrder(s)
                      /\ \A s \in [1 .. n -> S] :
                           InOrder(s) => \A x \in S : \E i \in 1 .. n : s[i] = x
<1>1. S = {} \/ (\E x \in 1 .. 2 : S = {x}) \/ S = 1 .. 2
  <2>1. \A x : x \in 1 .. 2 <=> x = 1 \/ x = 2
    OBVIOUS
  <2>2. CASE 1 \in S /\ 2 \in S
    <3>. S = 1 .. 2
      BY <2>1, <2>2
    <3>. QED
      OBVIOUS
  <2>3. CASE 1 \in S /\ 2 \notin S
    <3>. S = {1}
      BY <2>1, <2>3
    <3>. QED
      BY <2>1
  <2>4. CASE 1 \notin S /\ 2 \in S
    <3>. S = {2}
      BY <2>1, <2>4
    <3>. QED
      BY <2>1
  <2>5. CASE 1 \notin S /\ 2 \notin S
    <3>. S = {}
      BY <2>1, <2>5
    <3>. QED
      OBVIOUS
  <2>. QED
    BY <2>2, <2>3, <2>4, <2>5
<1>2. ASSUME S = {}
      PROVE  Cardinality(S) = 0 /\ Goal(0)
  <2>1. Cardinality(S) = 0
    BY <1>2, FS_EmptySet
  <2> DEFINE s == [i \in 1 .. 0 |-> i]
  <2>2. s \in [1 .. 0 -> S] /\ InOrder(s)
    OBVIOUS
  <2>. QED
    BY <1>2, <2>1, <2>2
<1>3. ASSUME NEW x \in 1 .. 2, S = {x}
      PROVE  Cardinality(S) = 1 /\ Goal(1)
  <2>1. Cardinality(S) = 1
    BY <1>3, FS_Singleton
  <2> DEFINE s == [i \in 1 .. 1 |-> x]
  <2>2. s \in [1 .. 1 -> S] /\ InOrder(s)
    BY <1>3
  <2> HIDE DEF s, InOrder
  <2>3. \A t \in [1 .. 1 -> S] : t[1] = x
    BY <1>3
  <2>. QED
    BY <1>3, <2>1, <2>2, <2>3
<1>4. ASSUME S = 1 .. 2
      PROVE  Cardinality(S) = 2 /\ Goal(2)
  <2>1. Cardinality(S) = 2
    <3>1. 1 \in Int /\ 2 \in Int
      OBVIOUS
    <3>2. Cardinality(1 .. 2) = IF 1 > 2 THEN 0 ELSE 2 - 1 + 1
      BY <3>1, FS_Interval
    <3>. QED
      BY <1>4, <3>2
  <2> DEFINE s == [i \in 1 .. 2 |-> i]
  <2>2. s \in [1 .. 2 -> S] /\ InOrder(s)
    BY <1>4
  <2>3. ASSUME NEW t \in [1 .. 2 -> S], InOrder(t)
        PROVE  t[1] = 1 /\ t[2] = 2
    <3>1. t[1] \in 1 .. 2 /\ t[2] \in 1 .. 2 /\ t[1] < t[2]
      BY <1>4, <2>3
    <3>. QED
      BY <3>1
  <2> HIDE DEF s, InOrder
  <2>4. \A x \in S : x = 1 \/ x = 2
    BY <1>4
  <2>. QED
    BY <2>1, <2>2, <2>3, <2>4
<1> HIDE DEF Goal
<1>5. \E n \in Nat : Cardinality(S) = n /\ Goal(n)
  BY <1>1, <1>2, <1>3, <1>4
<1>. QED
  BY <1>5 DEF Goal

\* Two values are looked up together, and each document goes where it was asked from.
LEMMA KeysRead ==
  ASSUME Placed, KeysPlaced, source \in Seq(Documents),
         NEW k \in Range(keyNames), NEW vals \in [1 .. 2 -> KeyValues]
  PROVE  GetByKeys(k, vals) =
           [i \in 1 .. 2 |->
              IF Having(k, vals[i], Len(source)) = {} THEN NoDocument
              ELSE source[(CHOOSE d \in Having(k, vals[i], Len(source)) : TRUE) + 1]]
<1>1. PICK n \in Nat : n = Len(source)
  OBVIOUS
<1> DEFINE has(i) == Having(k, vals[i], n)
           found == {i \in DOMAIN vals : GetByKey(k, vals[i]) # {}}
           InOrder(s) == \A i, j \in DOMAIN s : i < j => s[i] < s[j]
           asked == CHOOSE s \in [1 .. Cardinality(found) -> found] : InOrder(s)
           first(i) == CHOOSE d \in has(i) : TRUE
           nums == [j \in DOMAIN asked |-> CHOOSE d \in GetByKey(k, vals[asked[j]]) : TRUE]
           docs == GetByNumbers(nums)
           place(i) == CHOOSE j \in DOMAIN asked : asked[j] = i
<1>2. DOMAIN vals = 1 .. 2
      /\ \A i \in 1 .. 2 : vals[i] \in KeyValues /\ GetByKey(k, vals[i]) = has(i)
  BY <1>1 DEF KeysPlaced
<1>3. found \in SUBSET (1 .. 2) /\ \A i \in 1 .. 2 : i \in found <=> has(i) # {}
  BY <1>2
<1>4. GetByKeys(k, vals) =
        [i \in DOMAIN vals |-> IF i \in found THEN docs[place(i)] ELSE NoDocument]
  BY Zenon DEF GetByKeys
<1> HIDE DEF found
<1>5. PICK m \in Nat : m = Cardinality(found)
  BY <1>3, PlacesInOrder
<1>6. asked \in [1 .. m -> found] /\ \A x \in found : \E j \in 1 .. m : asked[j] = x
  <2>1. /\ \E s \in [1 .. m -> found] : InOrder(s)
        /\ \A s \in [1 .. m -> found] : InOrder(s) => \A x \in found : \E i \in 1 .. m : s[i] = x
    BY <1>3, <1>5, PlacesInOrder
  <2> HIDE DEF InOrder
  <2>2. asked \in [1 .. m -> found] /\ InOrder(asked)
    BY <1>5, <2>1
  <2>. QED
    BY <2>1, <2>2
<1>7. \A i \in found : i \in 1 .. 2 /\ first(i) \in has(i) /\ first(i) \in 0 .. n - 1
  BY <1>3 DEF Having
<1> HIDE DEF asked, first, has
<1>8. nums \in [1 .. m -> Nat] /\ \A j \in 1 .. m : nums[j] < n /\ nums[j] = first(asked[j])
  <2>1. DOMAIN asked = 1 .. m /\ \A j \in 1 .. m : asked[j] \in found
    BY <1>6
  <2>2. \A j \in 1 .. m : first(asked[j]) \in 0 .. n - 1
    BY <1>7, <2>1
  <2>3. \A j \in 1 .. m : GetByKey(k, vals[asked[j]]) = has(asked[j])
    BY <1>2, <1>7, <2>1
  <2>4. \A j \in 1 .. m : nums[j] = first(asked[j])
    BY <2>1, <2>3 DEF first
  <2>5. nums = [j \in 1 .. m |-> nums[j]]
    BY <2>1
  <2> HIDE DEF nums
  <2>. QED
    BY <2>2, <2>4, <2>5
<1> HIDE DEF nums
<1>9. docs = [j \in 1 .. m |-> source[nums[j] + 1]]
  BY <1>1, <1>8, NumbersRead
<1> HIDE DEF docs
<1>10. ASSUME NEW i \in found
       PROVE  docs[place(i)] = source[first(i) + 1]
  <2>1. \E j \in DOMAIN asked : asked[j] = i
    BY <1>6
  <2>2. place(i) \in DOMAIN asked /\ asked[place(i)] = i
    BY <2>1
  <2> HIDE DEF place
  <2>3. place(i) \in 1 .. m /\ nums[place(i)] = first(i)
    BY <1>6, <1>8, <2>2
  <2>. QED
    BY <1>9, <2>3
<1> HIDE DEF place
<1>11. GetByKeys(k, vals) = [i \in 1 .. 2 |->
            IF has(i) = {} THEN NoDocument ELSE source[first(i) + 1]]
  BY <1>2, <1>3, <1>4, <1>10
<1>. QED
  BY <1>1, <1>11 DEF first, has

\* A set whose members are one has at most one.
LEMMA AtMostOne ==
  ASSUME NEW S, \A d, e \in S : d = e
  PROVE  Cardinality(S) <= 1
<1>1. S = {} \/ \E x : S = {x}
  OBVIOUS
<1>2. ASSUME S = {}
      PROVE  Cardinality(S) <= 1
  <2>1. Cardinality(S) = 0
    BY <1>2, FS_EmptySet
  <2>. QED
    BY <2>1
<1>3. ASSUME NEW x, S = {x}
      PROVE  Cardinality(S) <= 1
  <2>1. Cardinality(S) = 1
    BY <1>3, FS_Singleton
  <2>. QED
    BY <2>1
<1>. QED
  BY <1>1, <1>2, <1>3

\* A store that is built reads back the collection.
LEMMA BuiltReadable ==
  Typed /\ MemoryInv /\ KeyInv /\ BuildInv => (phase \in {"build_clean", "built"} => Readable)
<1> SUFFICES ASSUME Typed, MemoryInv, KeyInv, BuildInv, phase \in {"build_clean", "built"}
             PROVE  Readable
  OBVIOUS
<1>1. Placed /\ KeysPlaced
  BY BuiltPlaced, BuiltKeys
<1>2. source \in Seq(Documents) /\ Len(source) \in Nat
  BY TypesNow
<1>3. meta.state = "complete" /\ meta.numDocs = Len(source) /\ meta.names = keyNames
  BY <1>1 DEF Placed
<1>4. \A d \in 0 .. Len(source) - 1 :
        GetByNumber(meta.numDocs, offsets, blocks, content, d) = source[d + 1]
  BY <1>1, NumberReads
<1>5. Range(meta.names) = UNION {DOMAIN source[d].keys : d \in 1 .. Len(source)}
  BY <1>1, <1>3 DEF KeysPlaced
<1>6. \A k \in Range(meta.names), v \in KeyValues : GetByKey(k, v) = Having(k, v, Len(source))
  BY <1>1, <1>3 DEF KeysPlaced
<1>7. ASSUME NEW nums \in [1 .. 2 -> 0 .. Len(source)]
      PROVE  GetByNumbers(nums) = IF Len(source) \in Range(nums) THEN <<NoDocument>>
                                  ELSE [i \in 1 .. 2 |-> source[nums[i] + 1]]
  <2>1. PICK n \in Nat : n = Len(source)
    BY <1>2
  <2>2. nums \in [1 .. 2 -> Nat] /\ \A i \in 1 .. 2 : nums[i] \in 0 .. n
    BY <2>1
  <2>3. /\ (\E i \in 1 .. 2 : nums[i] >= n) => GetByNumbers(nums) = <<NoDocument>>
        /\ (\A i \in 1 .. 2 : nums[i] < n) =>
             GetByNumbers(nums) = [i \in 1 .. 2 |-> source[nums[i] + 1]]
    <3>1. 2 \in Nat
      OBVIOUS
    <3>. QED
      BY <1>1, <1>2, <2>1, <2>2, <3>1, NumbersRead
  <2>4. n \in Range(nums) <=> \E i \in 1 .. 2 : nums[i] = n
    BY DEF Range
  <2>5. \A i \in 1 .. 2 : (nums[i] = n => nums[i] >= n) /\ (nums[i] # n => nums[i] < n)
    BY <2>2
  <2>. QED
    BY <2>1, <2>3, <2>4, <2>5
<1>8. \A k \in KeyNames, v \in KeyValues : Cardinality(Having(k, v, Len(source))) <= 1
  BY <1>1, AtMostOne DEF KeysPlaced
<1>9. \A k \in Range(meta.names), vals \in [1 .. 2 -> KeyValues] :
        GetByKeys(k, vals) = [i \in 1 .. 2 |->
                                IF Having(k, vals[i], Len(source)) = {} THEN NoDocument
                                ELSE source[(CHOOSE d \in Having(k, vals[i],
                                                                 Len(source)) : TRUE) + 1]]
  BY <1>1, <1>2, <1>3, KeysRead
<1>. QED
  BY <1>3, <1>4, <1>5, <1>6, <1>7, <1>8, <1>9, Zenon DEF Readable

\* What the checkpoint counts is found by the process that resumes from it: the
\* documents in the files cut back, or in its block, and the lines of keys, once.
LEMMA CheckpointReads ==
  CheckpointInv /\ Typed /\ Resumes(client) => CheckpointConsistent
<1> SUFFICES ASSUME CheckpointInv, Typed, Resumes(client), ckpt.state = "complete", ~Publishing
             PROVE  /\ ckpt.b.numDocs <= Len(source)
                    /\ \A d \in 0 .. ckpt.b.numDocs - 1 :
                         source[d + 1] = IF ckpt.b.index[d + 1] = ckpt.b.numBlocks
                                         THEN DecodeAt(ckpt.b.block, ckpt.b.intra[d + 1])
                                         ELSE GetByNumber(ckpt.b.numDocs,
                                                          ckpt.b.index \o ckpt.b.intra,
                                                          Rewound.blocks, Rewound.content, d)
                    /\ \A k \in KeyNames :
                         /\ LinesOf(k, ckpt.b.numDocs) # {} <=> k \in Range(ckpt.names)
                         /\ k \in Range(ckpt.names) =>
                              /\ Range(Rewound.keyFile[k]) = LinesOf(k, ckpt.b.numDocs)
                              /\ IsInjective(Rewound.keyFile[k])
  BY Zenon DEF CheckpointConsistent
<1>1. Recoverable
  BY DEF CheckpointInv
<1>2. PICK c, n, bs, cs : c = ckpt.b /\ n = c.numDocs /\ bs = Rewound.blocks /\ cs = Rewound.content
  OBVIOUS
<1>3. /\ c \in Builder /\ n \in Nat /\ c.numBlocks \in Nat /\ c.contentOffset \in Nat
      /\ n <= Len(source) /\ c.index \in Seq(Nat) /\ c.intra \in Seq(Nat)
  BY <1>2, CheckpointIs, BuilderIs
<1>4. /\ source \in Seq(Documents) /\ content \in Seq(Chunk) /\ blocks \in Seq(Record)
      /\ Len(source) \in Nat
  BY TypesNow
<1>5. Blocked(c, blocks, content, source) /\ Len(c.index) = n
  BY <1>1, <1>2 DEF Recoverable
<1>6. Len(c.intra) = n /\ c.contentOffset <= Len(content) /\ c.numBlocks <= Len(blocks)
  BY <1>5 DEF Blocked
<1>7. bs = SetLen(blocks, c.numBlocks, NoBlock) /\ cs = SetLen(content, c.contentOffset, NoChunk)
  BY <1>2 DEF Rewound
<1>8. bs \in Seq(Record) /\ Agree(blocks, bs, c.numBlocks)
  BY <1>3, <1>4, <1>6, <1>7, SetLenIs, ZerosTyped
<1>9. cs \in Seq(Chunk) /\ Agree(content, cs, c.contentOffset)
  BY <1>3, <1>4, <1>6, <1>7, SetLenIs, ZerosTyped
<1>10. Agree(source, source, Len(source))
  BY <1>4 DEF Agree
<1>11. Blocked(c, bs, cs, source)
  BY <1>3, <1>4, <1>5, <1>8, <1>9, <1>10, BlockedKept
<1>12. ASSUME NEW d \in 0 .. n - 1
       PROVE  source[d + 1] = IF c.index[d + 1] = c.numBlocks
                              THEN DecodeAt(c.block, c.intra[d + 1])
                              ELSE GetByNumber(n, c.index \o c.intra, bs, cs, d)
  <2>1. d + 1 \in 1 .. n /\ d + 1 \in 1 .. Len(source)
    BY <1>3, <1>4
  <2>2. /\ {d + 1, n + d + 1} \subseteq DOMAIN (c.index \o c.intra)
        /\ (c.index \o c.intra)[d + 1] = c.index[d + 1]
        /\ (c.index \o c.intra)[n + d + 1] = c.intra[d + 1]
        /\ c.index[d + 1] \in Nat
    <3>1. \A s, t \in Seq(Nat) : Len(s) = n /\ Len(t) = n =>
            /\ {d + 1, n + d + 1} \subseteq DOMAIN (s \o t)
            /\ (s \o t)[d + 1] = s[d + 1] /\ (s \o t)[n + d + 1] = t[d + 1]
            /\ s[d + 1] \in Nat
      <4>1. n \in Nat
        BY <1>3
      <4>. QED
        BY <4>1, OffsetsAre
    <3>. QED
      BY <1>3, <1>5, <1>6, <3>1
  <2>3. source[d + 1] \in Documents /\ InPlace(c, bs, cs, source, d + 1)
    BY <1>4, <1>5, <1>11, <2>1, ElementOf DEF Blocked
  <2>4. PICK i : i = d + 1
    OBVIOUS
  <2>5. /\ c.index[i] = c.numBlocks => DecodeAt(c.block, c.intra[i]) = source[i]
        /\ c.index[i] # c.numBlocks =>
             DecodeAt(ReadBlock(bs, cs, c.index[i]), c.intra[i]) = source[i]
    BY <1>3, <2>2, <2>3, <2>4, InPlaceIs
  <2>6. GetByNumber(n, c.index \o c.intra, bs, cs, d) =
          DecodeAt(ReadBlock(bs, cs, c.index[d + 1]), c.intra[d + 1])
    BY <2>2 DEF GetByNumber
  <2>. QED
    BY <2>4, <2>5, <2>6
<1>13. ASSUME NEW k \in KeyNames
       PROVE  /\ LinesOf(k, n) # {} <=> k \in Range(ckpt.names)
              /\ k \in Range(ckpt.names) =>
                   /\ Range(Rewound.keyFile[k]) = LinesOf(k, n)
                   /\ IsInjective(Rewound.keyFile[k])
  <2>1. LinesOf(k, n) = Lines(source, k, n)
    BY DEF LinesOf, Lines
  <2>2. k \in Range(ckpt.names) <=> Lines(source, k, n) # {}
    BY <1>1, <1>2 DEF Recoverable
  <2>3. ASSUME k \in Range(ckpt.names)
        PROVE  Keyed(Rewound.keyFile[k], source, k, n)
    <3>1. /\ ckpt.names \in Seq(KeyNames) /\ ckpt.lengths \in Seq(Nat)
          /\ Len(ckpt.lengths) = Len(ckpt.names)
          /\ \A i \in 1 .. Len(ckpt.names) : SavedLength(ckpt.names[i]) = ckpt.lengths[i]
      BY <1>1, SavedLengthIs DEF Checkpoint, Recoverable
    <3>2. PICK i \in 1 .. Len(ckpt.names) : ckpt.names[i] = k
      BY <2>3, <3>1 DEF Range
    <3>3. PICK m \in Nat : m = ckpt.lengths[i]
      BY <3>1, <3>2, ElementOf
    <3>4. PICK f \in Seq(Line) : f = keyFile[k]
      BY TypesNow
    <3>5. m <= Len(f) /\ Keyed(SubSeq(f, 1, m), source, k, n)
      BY <1>1, <1>2, <3>2, <3>3, <3>4 DEF Recoverable
    <3>6. Rewound.keyFile[k] = SetLen(f, m, NoLine)
      BY <2>3, <3>1, <3>2, <3>3, <3>4 DEF Rewound
    <3>7. SetLen(f, m, NoLine) = SubSeq(f, 1, m)
      BY <3>5, SetLenIs, ZerosTyped
    <3>. QED
      BY <3>5, <3>6, <3>7
  <2>. QED
    BY <2>1, <2>2, <2>3 DEF Keyed
<1>. QED
  BY <1>2, <1>3, <1>12, <1>13

-----------------------------------------------------------------------------
(***************************************************************************)
(* Theorems                                                                *)
(***************************************************************************)

\* The caller does not change.
LEMMA SameCaller == [Next]_vars => UNCHANGED client
BY DEF Next, StartResume, StartFresh, Reopen, FreshClean, SpillContent, SpillBlocks, SpillKey,
       BeginAdd, AddKey, EndAdd, CallCheckpoint, CheckpointFlush, CheckpointRename, BeginBuild,
       BuildFlush, BuildOffsets, BuildKey, BuildMeta, BuildClean, Crash, Finished, vars, caller

\* What holds of a steady caller in every state.
Sound == Typed /\ Steady(client) /\ MemoryInv /\ KeyInv /\ CheckpointInv /\ BuildInv

\* Nothing is written at first.
LEMMA SoundInit ==
  ASSUME \A c \in Callers : Steady(c)
  PROVE  Init => Sound
<1> SUFFICES ASSUME Init PROVE Sound
  OBVIOUS
<1>1. Typed
  BY TypedInit
<1>2. Steady(client)
  BY DEF Init
<1>3. /\ content = <<>> /\ blocks = <<>> /\ source = <<>> /\ b = NewBuilder /\ out = NewOut
      /\ ckpt = Absent /\ phase = "down" /\ keyNames = <<>> /\ turn = 0
  BY DEF Init
<1>4. /\ content \in Seq(Chunk) /\ blocks \in Seq(Record) /\ source \in Seq(Documents)
      /\ out.data \in Writer(Chunk) /\ out.blocks \in Writer(Record)
  BY <1>1, TypesNow
<1>5. out.data.at = 0 /\ out.data.held = <<>> /\ out.blocks.at = 0 /\ out.blocks.held = <<>>
  BY <1>3 DEF NewOut, Nothing
<1>6. FullContent = content /\ FullBlocks = blocks
  BY <1>4, <1>5, FlushedNothing DEF FullContent, FullBlocks
<1>7. MemoryInv
  <2>1. Blocked(b, FullBlocks, FullContent, source)
    BY <1>3, <1>4, <1>6, BlockedNew
  <2>2. /\ b.contentOffset = 0 /\ b.numBlocks = 0 /\ b.index = <<>> /\ b.numDocs = 0
        /\ b.block = <<>>
    BY <1>3 DEF NewBuilder
  <2>3. Len(content) = 0 /\ Len(blocks) = 0 /\ Len(out.data.held) = 0 /\ Len(out.blocks.held) = 0
        /\ Len(b.index) = 0
    BY <1>3, <1>5, <2>2
  <2>4. EndsAt(content, out.data, b.contentOffset) /\ EndsAt(blocks, out.blocks, b.numBlocks)
    BY <1>5, <2>2, <2>3 DEF EndsAt
  <2>. QED
    BY <1>3, <2>1, <2>2, <2>3, <2>4 DEF MemoryInv
<1>8. KeyInv
  <2>1. Done(1) = 0 /\ \A k : Done(k) = 0
    BY <1>3 DEF Done, NewBuilder
  <2>2. \A k : Lines(source, k, Done(k)) = {}
    BY <2>1, LinesNone
  <2>3. IsInjective(keyNames) /\ Range(keyNames) = {} /\ 1 .. Len(keyNames) = {}
    BY <1>3 DEF IsInjective, Range
  <2>. QED
    BY <2>2, <2>3 DEF KeyInv
<1>9. CheckpointInv
  BY <1>3 DEF CheckpointInv, Absent
<1>10. BuildInv
  <2>1. phase \notin {"build_flush", "build_offsets"} \cup Closed /\ phase # "ckpt_rename"
    BY <1>3 DEF Closed
  <2>2. 1 .. Len(keyNames) = {}
    BY <1>3
  <2>. QED
    BY <1>3, <2>1, <2>2 DEF BuildInv, Closed, RefusedOnlyDuplicates
<1>. QED
  BY <1>1, <1>2, <1>7, <1>8, <1>9, <1>10 DEF Sound

\* Every step keeps it.
LEMMA SoundStep == Sound /\ [Next]_vars => Sound'
<1> SUFFICES ASSUME Sound, [Next]_vars PROVE Sound'
  OBVIOUS
<1>1. Typed'
  BY TypedStep DEF Sound
<1>2. Steady(client)'
  BY SameCaller DEF Sound
<1>3. MemoryInv'
  BY <1>1, MemoryStep DEF Sound
<1>4. KeyInv'
  BY <1>1, KeyStep DEF Sound
<1>5. CheckpointInv'
  BY <1>1, CheckpointStep DEF Sound
<1>6. BuildInv'
  BY <1>1, BuildStep DEF Sound
<1>. QED
  BY <1>1, <1>2, <1>3, <1>4, <1>5, <1>6 DEF Sound

\* The fields of DocumentStoreBuilder and the files of the store have their types,
\* whatever the caller does, interrupts or replaces.
THEOREM TypesAreCorrect == Spec => []TypeOK
<1>1. Typed => TypeOK
  BY DEF Typed
<1>. QED
  BY TypedInit, TypedStep, <1>1, PTL DEF Spec

\* Sessions of steady callers end with a store that reads back the collection, under
\* each number and each key, or with the refusal of two documents that share a value.
THEOREM StoresAreFaithful ==
  ASSUME \A c \in Callers : Steady(c)
  PROVE  Spec => []SessionsEndFaithfully
<1>1. Sound => SessionsEndFaithfully
  BY BuiltReadable DEF Sound, SessionsEndFaithfully, StoreFaithful, BuildInv
<1>. QED
  BY SoundInit, SoundStep, <1>1, PTL DEF Spec

\* One that resumes finds what its checkpoint counts in the files, at any moment.
THEOREM CheckpointsResume ==
  ASSUME \A c \in Callers : Steady(c)
  PROVE  Spec => []ResumableFromCheckpoint
<1>1. Sound => ResumableFromCheckpoint
  BY CheckpointReads DEF Sound, ResumableFromCheckpoint
<1>. QED
  BY SoundInit, SoundStep, <1>1, PTL DEF Spec

\* Its checkpoint goes away only for a store that reads back the collection.
THEOREM CheckpointsOutlive ==
  ASSUME \A c \in Callers : Steady(c)
  PROVE  Spec => CheckpointOutlivesSessions
<1>1. ASSUME Sound, [Next]_vars, Resumes(client), ckpt.state = "complete", ckpt'.state # "complete"
      PROVE  Readable
  <2>1. ckpt' # ckpt /\ phase # "fresh"
    <3>1. phase = "fresh" => ~Publishing
      BY DEF Publishing
    <3>. QED
      BY <1>1, <3>1 DEF Sound, CheckpointInv
  <2>2. \A f \in client.frequencies : ~Reopen(f)
    BY <1>1, StartsAre DEF Sound
  <2>3. ~CheckpointRename
    BY <1>1 DEF CheckpointRename, Snapshot
  <2>4. BuildClean
    BY <1>1, <2>1, <2>2, <2>3
       DEF Next, StartResume, StartFresh, FreshClean, SpillContent, SpillBlocks, SpillKey, BeginAdd,
           AddKey, EndAdd, CallCheckpoint, CheckpointFlush, BeginBuild, BuildFlush, BuildOffsets,
           BuildKey, BuildMeta, Crash, Finished, vars, disk
  <2>5. phase = "build_clean"
    BY <2>4 DEF BuildClean
  <2>. QED
    BY <1>1, <2>5, BuiltReadable DEF Sound
<1>2. Sound /\ [Next]_vars =>
        [Resumes(client) /\ ckpt.state = "complete" /\ ckpt'.state # "complete" => Readable]_vars
  BY <1>1
<1>. QED
  BY SoundInit, SoundStep, <1>2, PTL DEF Spec, CheckpointOutlivesSessions

=============================================================================
