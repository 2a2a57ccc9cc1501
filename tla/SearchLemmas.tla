---------------------------- MODULE SearchLemmas ----------------------------
(***************************************************************************)
(* Facts about what the searches are built from: finite sets and the       *)
(* recursions over them, sums, posting lists and their blocks, and the     *)
(* heap.                                                                   *)
(***************************************************************************)
EXTENDS TermCursors, FiniteSetTheorems, TLAPS

-----------------------------------------------------------------------------
(***************************************************************************)
(* Induction and recursion over the subsets of a finite set                *)
(***************************************************************************)

\* Of some subsets of a finite set, one has none of the others inside it.
LEMMA SmallestSubset ==
  ASSUME NEW S, IsFiniteSet(S), NEW F, F \subseteq SUBSET S, F # {}
  PROVE  \E U \in F : \A V \in F : V \subseteq U => V = U
<1>1. IsWellFoundedOn(StrictSubsetOrdering(S), FiniteSubsetsOf(S))
  BY FS_StrictSubsetOrderingWellFounded
<1>2. F \subseteq FiniteSubsetsOf(S)
  BY FS_Subset DEF FiniteSubsetsOf
<1>3. PICK U \in F : \A V \in F : ~(<<V, U>> \in StrictSubsetOrdering(S))
  BY <1>1, <1>2, WFMin
<1>. QED
  BY <1>3 DEF StrictSubsetOrdering

\* A family that holds the empty set, and with a set the one that has a member
\* more, holds the whole set.
LEMMA SubsetInduction ==
  ASSUME NEW S, IsFiniteSet(S), NEW Q, {} \in Q,
         \A T \in SUBSET S : \A x \in S \ T : T \in Q => T \cup {x} \in Q
  PROVE  S \in Q
<1> SUFFICES ASSUME S \notin Q PROVE FALSE
  OBVIOUS
<1> DEFINE F == {T \in SUBSET S : T \notin Q}
<1>1. PICK U \in F : \A V \in F : V \subseteq U => V = U
  <2>1. F # {} /\ F \subseteq SUBSET S
    OBVIOUS
  <2> HIDE DEF F
  <2>. QED
    BY <2>1, SmallestSubset
<1>2. PICK x : x \in U
  BY <1>1
<1>3. U \ {x} \in Q
  BY <1>1, <1>2
<1>4. (U \ {x}) \cup {x} \in Q
  BY <1>2, <1>3
<1>5. (U \ {x}) \cup {x} = U
  BY <1>2
<1>. QED
  BY <1>4, <1>5

\* g is what a recursion gives for the subsets of T: base for the empty one, and
\* for another the step from the member picked and the subset without it.
Solves(g, T, base, pick, step) ==
  \A s \in SUBSET T : g[s] = IF s = {} THEN base ELSE step[<<pick[s], g[s \ {pick[s]}]>>]

\* What a recursion gives is determined.
LEMMA SolutionsAgree ==
  ASSUME NEW S, IsFiniteSet(S), NEW base, NEW pick, NEW step,
         \A s \in SUBSET S : s # {} => pick[s] \in s,
         NEW g, NEW h, Solves(g, S, base, pick, step), Solves(h, S, base, pick, step)
  PROVE  \A s \in SUBSET S : g[s] = h[s]
<1> DEFINE F == {s \in SUBSET S : g[s] # h[s]}
<1> SUFFICES ASSUME F # {} PROVE FALSE
  OBVIOUS
<1>1. PICK U \in F : \A W \in F : W \subseteq U => W = U
  <2>1. F \subseteq SUBSET S
    OBVIOUS
  <2> HIDE DEF F
  <2>. QED
    BY <2>1, SmallestSubset
<1>2. CASE U = {}
  BY <1>1, <1>2 DEF Solves
<1>3. CASE U # {}
  <2>1. pick[U] \in U
    BY <1>3
  <2>2. U \ {pick[U]} \notin F
    BY <1>1, <2>1
  <2>3. g[U \ {pick[U]}] = h[U \ {pick[U]}]
    BY <2>2, <1>1
  <2>. QED
    BY <1>1, <1>3, <2>3 DEF Solves
<1>. QED
  BY <1>2, <1>3

\* A recursion over the subsets of a finite set gives something.
LEMMA SubsetRecursion ==
  ASSUME NEW S, IsFiniteSet(S), NEW V, NEW base \in V, NEW pick, NEW step,
         \A s \in SUBSET S : s # {} => pick[s] \in s,
         \A x \in S, v \in V : step[<<x, v>>] \in V
  PROVE  \E g \in [SUBSET S -> V] : Solves(g, S, base, pick, step)
<1> DEFINE Good(s) == \E g \in [SUBSET s -> V] : Solves(g, s, base, pick, step)
           F == {s \in SUBSET S : ~Good(s)}
<1> SUFFICES ASSUME F # {} PROVE FALSE
  OBVIOUS
<1>1. PICK U \in F : \A W \in F : W \subseteq U => W = U
  <2>1. F \subseteq SUBSET S
    OBVIOUS
  <2> HIDE DEF F
  <2>. QED
    BY <2>1, SmallestSubset
<1> DEFINE G(s) == CHOOSE g \in [SUBSET s -> V] : Solves(g, s, base, pick, step)
           rest == U \ {pick[U]}
           last == IF U = {} THEN base ELSE step[<<pick[U], G(rest)[rest]>>]
           H == [s \in SUBSET U |-> IF s # U THEN G(s)[s] ELSE last]
<1>2. \A s \in SUBSET U : s # U =>
        G(s) \in [SUBSET s -> V] /\ Solves(G(s), s, base, pick, step)
  <2> SUFFICES ASSUME NEW s \in SUBSET U, s # U
               PROVE  G(s) \in [SUBSET s -> V] /\ Solves(G(s), s, base, pick, step)
    OBVIOUS
  <2>1. Good(s)
    BY <1>1
  <2>. QED
    BY <2>1
<1> HIDE DEF G
<1>3. \A s \in SUBSET U : s # U => H[s] = G(s)[s] /\ G(s)[s] \in V
  <2> SUFFICES ASSUME NEW s \in SUBSET U, s # U PROVE H[s] = G(s)[s] /\ G(s)[s] \in V
    OBVIOUS
  <2>1. s \in SUBSET s /\ G(s) \in [SUBSET s -> V]
    BY <1>2
  <2>. QED
    BY <2>1
<1>4. H \in [SUBSET U -> V]
  <2>1. U # {} => pick[U] \in U
    BY <1>1
  <2>2. U # {} => H[U] = step[<<pick[U], G(rest)[rest]>>] /\ H[U] \in V
    <3> SUFFICES ASSUME U # {}
                 PROVE  H[U] = step[<<pick[U], G(rest)[rest]>>] /\ H[U] \in V
      OBVIOUS
    <3>1. G(rest)[rest] \in V
      BY <2>1, <1>3
    <3>2. pick[U] \in S
      BY <2>1, <1>1
    <3>. QED
      BY <3>1, <3>2
  <2>. QED
    BY <1>3, <2>2
<1>5. Solves(H, U, base, pick, step)
  <2> SUFFICES ASSUME NEW s \in SUBSET U
               PROVE  H[s] = IF s = {} THEN base ELSE step[<<pick[s], H[s \ {pick[s]}]>>]
    BY DEF Solves
  <2>1. s # {} => pick[s] \in s /\ s \ {pick[s]} \in SUBSET U /\ s \ {pick[s]} # U
    BY <1>1
  <2>2. CASE s = U
    BY <2>1, <2>2, <1>3
  <2>3. CASE s # U /\ s = {}
    BY <2>3, <1>2, <1>3 DEF Solves
  <2>4. CASE s # U /\ s # {}
    <3> DEFINE r == s \ {pick[s]}
    <3>1. H[s] = step[<<pick[s], G(s)[r]>>]
      BY <2>4, <1>2, <1>3 DEF Solves
    <3>2. H[r] = G(r)[r]
      BY <2>1, <2>4, <1>3
    <3>3. Solves(G(s), r, base, pick, step) /\ Solves(G(r), r, base, pick, step)
      BY <2>1, <2>4, <1>2 DEF Solves
    <3>4. IsFiniteSet(r) /\ \A t \in SUBSET r : t # {} => pick[t] \in t
      BY <1>1, <2>1, <2>4, FS_Subset
    <3>5. G(s)[r] = G(r)[r]
      <4>1. r \in SUBSET r
        OBVIOUS
      <4> HIDE DEF r, H
      <4>2. \A t \in SUBSET r : G(s)[t] = G(r)[t]
        BY <3>3, <3>4, SolutionsAgree
      <4>. QED
        BY <4>1, <4>2
    <3>. QED
      BY <2>4, <3>1, <3>2, <3>5
  <2>. QED
    BY <2>2, <2>3, <2>4
<1>. QED
  BY <1>1, <1>4, <1>5

-----------------------------------------------------------------------------
(***************************************************************************)
(* Largest and smallest members                                            *)
(***************************************************************************)

\* A finite set of integers has a largest member.
LEMMA LargestMember ==
  ASSUME NEW S, IsFiniteSet(S), S \subseteq Int, S # {}
  PROVE  Max(S) \in S /\ \A x \in S : x <= Max(S)
<1> DEFINE Q == {T \in SUBSET S : T # {} => \E m \in T : \A x \in T : x <= m}
<1>1. {} \in Q
  OBVIOUS
<1>2. ASSUME NEW T \in SUBSET S, NEW x \in S \ T, T \in Q
      PROVE  T \cup {x} \in Q
  <2>1. CASE T = {}
    BY <2>1
  <2>2. CASE T # {}
    <3>1. PICK m \in T : \A y \in T : y <= m
      BY <1>2, <2>2
    <3>2. \E n \in T \cup {x} : \A y \in T \cup {x} : y <= n
      <4>1. CASE x <= m
        BY <3>1, <4>1
      <4>2. CASE ~(x <= m)
        <5>1. \A y \in T \cup {x} : y <= x
          BY <3>1, <4>2
        <5>. QED
          BY <5>1
      <4>. QED
        BY <4>1, <4>2
    <3>. QED
      BY <3>2
  <2>. QED
    BY <2>1, <2>2
<1>3. S \in Q
  <2> HIDE DEF Q
  <2>. QED
    BY <1>1, <1>2, SubsetInduction
<1>4. \E m \in S : \A x \in S : m >= x
  BY <1>3
<1>. QED
  BY <1>4 DEF Max

\* A finite set of integers has a smallest member.
LEMMA SmallestMember ==
  ASSUME NEW S, IsFiniteSet(S), S \subseteq Int, S # {}
  PROVE  Min(S) \in S /\ \A x \in S : Min(S) <= x
<1> DEFINE Q == {T \in SUBSET S : T # {} => \E m \in T : \A x \in T : m <= x}
<1>1. {} \in Q
  OBVIOUS
<1>2. ASSUME NEW T \in SUBSET S, NEW x \in S \ T, T \in Q
      PROVE  T \cup {x} \in Q
  <2>1. CASE T = {}
    BY <2>1
  <2>2. CASE T # {}
    <3>1. PICK m \in T : \A y \in T : m <= y
      BY <1>2, <2>2
    <3>2. \E n \in T \cup {x} : \A y \in T \cup {x} : n <= y
      <4>1. CASE m <= x
        BY <3>1, <4>1
      <4>2. CASE ~(m <= x)
        <5>1. \A y \in T \cup {x} : x <= y
          BY <3>1, <4>2
        <5>. QED
          BY <5>1
      <4>. QED
        BY <4>1, <4>2
    <3>. QED
      BY <3>2
  <2>. QED
    BY <2>1, <2>2
<1>3. S \in Q
  <2> HIDE DEF Q
  <2>. QED
    BY <1>1, <1>2, SubsetInduction
<1>4. \E m \in S : \A x \in S : m <= x
  BY <1>3
<1>. QED
  BY <1>4 DEF Min

\* The values a function has on a finite set are finitely many.
LEMMA FiniteValues ==
  ASSUME NEW S, IsFiniteSet(S), NEW f
  PROVE  IsFiniteSet({f[x] : x \in S})
<1> DEFINE Q == {T \in SUBSET S : IsFiniteSet({f[x] : x \in T})}
<1>1. {} \in Q
  BY FS_EmptySet, {f[x] : x \in {}} = {}
<1>2. ASSUME NEW T \in SUBSET S, NEW x \in S \ T, T \in Q
      PROVE  T \cup {x} \in Q
  <2>1. {f[y] : y \in T \cup {x}} = {f[y] : y \in T} \cup {f[x]}
    OBVIOUS
  <2>2. IsFiniteSet({f[y] : y \in T} \cup {f[x]})
    BY <1>2, FS_AddElement
  <2>. QED
    BY <2>1, <2>2
<1>3. S \in Q
  <2> HIDE DEF Q
  <2>. QED
    BY <1>1, <1>2, SubsetInduction
<1>. QED
  BY <1>3

-----------------------------------------------------------------------------
(***************************************************************************)
(* Sequences without repetition                                            *)
(***************************************************************************)

\* Members of S, none twice.
AreDistinct(some, S) == some \in Seq(S) /\ \A i, j \in DOMAIN some : some[i] = some[j] => i = j

\* A sequence has finitely many members.
LEMMA FiniteMembers ==
  ASSUME NEW S, NEW some \in Seq(S)
  PROVE  IsFiniteSet(ToSet(some)) /\ ToSet(some) \subseteq S
<1>1. IsFiniteSet(DOMAIN some) /\ DOMAIN some = 1 .. Len(some)
  BY FS_Interval
<1>2. ToSet(some) = {some[i] : i \in DOMAIN some}
  BY DEF ToSet
<1>3. IsFiniteSet(ToSet(some))
  BY <1>1, <1>2, FiniteValues
<1>. QED
  BY <1>1, <1>2, <1>3

\* The smallest of the values of its members is one of them.
LEMMA FirstOf ==
  ASSUME NEW S, NEW some \in Seq(S), some # <<>>, NEW pos, \A c \in S : pos[c] \in Nat
  PROVE  /\ Min({pos[c] : c \in ToSet(some)}) \in {pos[c] : c \in ToSet(some)}
         /\ \A c \in ToSet(some) : Min({pos[b] : b \in ToSet(some)}) <= pos[c]
<1> DEFINE A == ToSet(some)
           docs == {pos[c] : c \in A}
<1>1. IsFiniteSet(A) /\ A \subseteq S
  BY FiniteMembers
<1>2. A # {}
  <2>1. 1 \in DOMAIN some
    OBVIOUS
  <2>. QED
    BY <2>1 DEF ToSet
<1>3. IsFiniteSet(docs)
  BY <1>1, FiniteValues
<1>4. docs \subseteq Int /\ docs # {} /\ \A c \in A : pos[c] \in docs
  BY <1>1, <1>2
<1>. QED
  BY <1>3, <1>4, SmallestMember

\* A sequence of the members of a set holds each of them once.
LEMMA SequenceOfAll ==
  ASSUME NEW S, IsFiniteSet(S), NEW some \in SetToSeqs(S)
  PROVE  AreDistinct(some, S) /\ ToSet(some) = S /\ Len(some) = Cardinality(S)
<1> DEFINE n == Cardinality(S)
<1>1. n \in Nat /\ IsFiniteSet(1 .. n) /\ Cardinality(1 .. n) = n
  BY FS_CardinalityType, FS_Interval
<1>2. some \in [1 .. n -> S] /\ \A i, j \in 1 .. n : i # j => some[i] # some[j]
  BY DEF SetToSeqs
<1>3. some \in Injection(1 .. n, S)
  BY <1>2 DEF Injection, IsInjective
<1> HIDE DEF n
<1>4. some \in Surjection(1 .. n, S)
  BY <1>1, <1>3, FS_Injection DEF n
<1>5. some \in Seq(S) /\ Len(some) = n
  BY <1>1, <1>2
<1>6. ToSet(some) = S
  BY <1>2, <1>4 DEF ToSet, Surjection
<1>. QED
  BY <1>2, <1>5, <1>6 DEF AreDistinct, n

-----------------------------------------------------------------------------
(***************************************************************************)
(* Sums                                                                    *)
(***************************************************************************)

\* What the fold of SumOver picks and adds.
AnyOf(S) == [s \in SUBSET S |-> CHOOSE x \in s : TRUE]
AddedTo(f, S) == [p \in S \X Nat |-> f[p[1]] + p[2]]

\* The recursion of MapThenSumSet.
IsSum(it, f, S) ==
  it = [s \in SUBSET S |-> IF s = {} THEN 0
                           ELSE LET x == CHOOSE x \in s : TRUE IN f[x] + it[s \ {x}]]

\* A sum over a finite set is what that recursion gives.
LEMMA SumIsSolution ==
  ASSUME NEW S, IsFiniteSet(S), NEW f, \A x \in S : f[x] \in Nat
  PROVE  \E it \in [SUBSET S -> Nat] :
           /\ Solves(it, S, 0, AnyOf(S), AddedTo(f, S))
           /\ SumOver(f, S) = it[S]
<1> DEFINE pick == AnyOf(S)
           step == AddedTo(f, S)
<1>1. \A s \in SUBSET S : pick[s] = CHOOSE x \in s : TRUE
  BY DEF AnyOf
<1>2. \A s \in SUBSET S : s # {} => pick[s] \in s
  BY <1>1
<1>3. \A x \in S, v \in Nat : step[<<x, v>>] = f[x] + v /\ step[<<x, v>>] \in Nat
  BY DEF AddedTo
<1> HIDE DEF pick, step
<1>4. PICK g \in [SUBSET S -> Nat] : Solves(g, S, 0, pick, step)
  BY <1>2, <1>3, SubsetRecursion
<1>5. ASSUME NEW it
      PROVE  IsSum(it, f, S) =>
               \A s \in SUBSET S : s # {} => it[s] = f[pick[s]] + it[s \ {pick[s]}]
  BY <1>1 DEF IsSum
<1>6. \A s \in SUBSET S : s # {} => g[s] = f[pick[s]] + g[s \ {pick[s]}]
  <2> SUFFICES ASSUME NEW s \in SUBSET S, s # {}
               PROVE  g[s] = f[pick[s]] + g[s \ {pick[s]}]
    OBVIOUS
  <2>1. pick[s] \in S /\ g[s \ {pick[s]}] \in Nat
    BY <1>2
  <2>. QED
    BY <1>3, <1>4, <2>1 DEF Solves
<1>7. g[{}] = 0
  BY <1>4 DEF Solves
<1>8. IsSum(g, f, S)
  <2>1. g = [s \in SUBSET S |-> g[s]]
    OBVIOUS
  <2>2. \A s \in SUBSET S : g[s] = IF s = {} THEN 0
                           ELSE LET x == CHOOSE x \in s : TRUE IN f[x] + g[s \ {x}]
    BY <1>1, <1>6, <1>7
  <2>. QED
    BY <2>1, <2>2 DEF IsSum
<1> DEFINE it == CHOOSE it : IsSum(it, f, S)
<1>9. IsSum(it, f, S)
  BY <1>8
<1>10. SumOver(f, S) = it[S]
  BY DEF SumOver, MapThenSumSet, MapThenFoldSet, IsSum
<1> HIDE DEF it
<1>11. it[{}] = 0 /\ \A s \in SUBSET S : s # {} => it[s] = f[pick[s]] + it[s \ {pick[s]}]
  BY <1>5, <1>9 DEF IsSum
<1> DEFINE F == {s \in SUBSET S : it[s] # g[s]}
<1>12. F = {}
  <2> SUFFICES ASSUME F # {} PROVE FALSE
    OBVIOUS
  <2>1. F \subseteq SUBSET S
    OBVIOUS
  <2>2. PICK U \in F : \A W \in F : W \subseteq U => W = U
    <3> HIDE DEF F
    <3>. QED
      BY <2>1, SmallestSubset
  <2>3. U # {}
    BY <2>2, <1>7, <1>11
  <2>4. pick[U] \in U /\ U \ {pick[U]} \notin F
    BY <2>2, <2>3, <1>2
  <2>5. it[U \ {pick[U]}] = g[U \ {pick[U]}]
    BY <2>2, <2>4
  <2>. QED
    BY <2>2, <2>3, <2>5, <1>6, <1>11
<1>13. SumOver(f, S) = g[S]
  BY <1>10, <1>12
<1>. QED
  BY <1>4, <1>13 DEF pick, step

\* Nothing adds up to nothing.
LEMMA SumEmpty ==
  ASSUME NEW f
  PROVE  SumOver(f, {}) = 0
<1>1. IsFiniteSet({})
  BY FS_EmptySet
<1>2. PICK it \in [SUBSET {} -> Nat] :
        Solves(it, {}, 0, AnyOf({}), AddedTo(f, {})) /\ SumOver(f, {}) = it[{}]
  BY <1>1, SumIsSolution
<1>. QED
  BY <1>2 DEF Solves

\* A sum of natural numbers is one.
LEMMA SumType ==
  ASSUME NEW S, IsFiniteSet(S), NEW f, \A x \in S : f[x] \in Nat
  PROVE  SumOver(f, S) \in Nat
<1>1. PICK it \in [SUBSET S -> Nat] : SumOver(f, S) = it[S]
  BY SumIsSolution
<1>. QED
  BY <1>1

\* The member the recursion picks first can be taken out.
LEMMA SumPicked ==
  ASSUME NEW S, IsFiniteSet(S), NEW f, \A x \in S : f[x] \in Nat, S # {}
  PROVE  \E x \in S : SumOver(f, S) = f[x] + SumOver(f, S \ {x})
<1>1. PICK it \in [SUBSET S -> Nat] :
           /\ Solves(it, S, 0, AnyOf(S), AddedTo(f, S))
           /\ SumOver(f, S) = it[S]
  BY SumIsSolution
<1> DEFINE x == AnyOf(S)[S]
           T == S \ {x}
<1>2. x \in S
  BY DEF AnyOf
<1>3. IsFiniteSet(T)
  BY FS_Subset
<1>4. PICK jt \in [SUBSET T -> Nat] :
           /\ Solves(jt, T, 0, AnyOf(T), AddedTo(f, T))
           /\ SumOver(f, T) = jt[T]
  BY <1>3, SumIsSolution
<1>5. Solves(it, T, 0, AnyOf(T), AddedTo(f, T))
  <2> SUFFICES ASSUME NEW s \in SUBSET T
               PROVE  it[s] = IF s = {} THEN 0
                              ELSE AddedTo(f, T)[<<AnyOf(T)[s], it[s \ {AnyOf(T)[s]}]>>]
    BY DEF Solves
  <2>1. s \in SUBSET S
    OBVIOUS
  <2>2. AnyOf(T)[s] = AnyOf(S)[s]
    BY <2>1 DEF AnyOf
  <2>3. s # {} => AnyOf(S)[s] \in s
    BY <2>1 DEF AnyOf
  <2> DEFINE y == AnyOf(S)[s]
             z == AnyOf(T)[s]
  <2>4. s # {} => it[s \ {y}] \in Nat /\ y \in T
    BY <2>3, <2>1
  <2>5. s # {} => AddedTo(f, T)[<<z, it[s \ {z}]>>] = AddedTo(f, S)[<<y, it[s \ {y}]>>]
    BY <2>2, <2>4 DEF AddedTo
  <2>. QED
    BY <2>1, <2>2, <2>5, <1>1 DEF Solves
<1>6. it[T] = jt[T]
  <2>1. \A s \in SUBSET T : s # {} => AnyOf(T)[s] \in s
    BY DEF AnyOf
  <2>2. T \in SUBSET T
    OBVIOUS
  <2> HIDE DEF T
  <2>3. \A s \in SUBSET T : it[s] = jt[s]
    BY <1>3, <1>4, <1>5, <2>1, SolutionsAgree
  <2>. QED
    BY <2>2, <2>3
<1>7. it[S] = f[x] + it[T]
  <2>1. it[T] \in Nat
    OBVIOUS
  <2>2. it[S] = AddedTo(f, S)[<<x, it[T]>>]
    BY <1>1 DEF Solves
  <2>. QED
    BY <1>2, <2>1, <2>2 DEF AddedTo
<1>. QED
  BY <1>1, <1>2, <1>4, <1>6, <1>7

\* So can any other.
LEMMA SumRemove ==
  ASSUME NEW S, IsFiniteSet(S), NEW f, \A x \in S : f[x] \in Nat, NEW x \in S
  PROVE  SumOver(f, S) = f[x] + SumOver(f, S \ {x})
<1> DEFINE F == {T \in SUBSET S : \E y \in T : SumOver(f, T) # f[y] + SumOver(f, T \ {y})}
<1> SUFFICES ASSUME F # {} PROVE FALSE
  OBVIOUS
<1>1. PICK U \in F : \A W \in F : W \subseteq U => W = U
  <2>1. F \subseteq SUBSET S
    OBVIOUS
  <2> HIDE DEF F
  <2>. QED
    BY <2>1, SmallestSubset
<1>2. PICK y \in U : SumOver(f, U) # f[y] + SumOver(f, U \ {y})
  BY <1>1
<1>3. IsFiniteSet(U) /\ U # {} /\ \A z \in U : f[z] \in Nat
  BY <1>1, <1>2, FS_Subset
<1>4. PICK c \in U : SumOver(f, U) = f[c] + SumOver(f, U \ {c})
  BY <1>3, SumPicked
<1>5. c # y
  BY <1>2, <1>4
<1>6. U \ {c} \notin F /\ U \ {y} \notin F
  BY <1>1, <1>2, <1>4
<1>7. SumOver(f, U \ {c}) = f[y] + SumOver(f, (U \ {c}) \ {y})
  BY <1>1, <1>2, <1>5, <1>6
<1>8. SumOver(f, U \ {y}) = f[c] + SumOver(f, (U \ {y}) \ {c})
  BY <1>1, <1>4, <1>5, <1>6
<1>9. (U \ {y}) \ {c} = (U \ {c}) \ {y} /\ SumOver(f, (U \ {c}) \ {y}) \in Nat
  <2>1. IsFiniteSet((U \ {c}) \ {y})
    BY <1>3, FS_Subset
  <2>2. \A z \in (U \ {c}) \ {y} : f[z] \in Nat
    BY <1>3
  <2>3. SumOver(f, (U \ {c}) \ {y}) \in Nat
    BY <2>1, <2>2, SumType
  <2>. QED
    BY <2>3
<1>10. f[y] \in Nat /\ f[c] \in Nat
  BY <1>3, <1>2, <1>4
<1>. QED
  BY <1>2, <1>4, <1>7, <1>8, <1>9, <1>10

\* Another member adds its value.
LEMMA SumAdd ==
  ASSUME NEW S, IsFiniteSet(S), NEW x, x \notin S,
         NEW f, \A y \in S \cup {x} : f[y] \in Nat
  PROVE  SumOver(f, S \cup {x}) = f[x] + SumOver(f, S)
<1>1. IsFiniteSet(S \cup {x})
  BY FS_AddElement
<1>2. SumOver(f, S \cup {x}) = f[x] + SumOver(f, (S \cup {x}) \ {x})
  BY <1>1, SumRemove
<1>3. (S \cup {x}) \ {x} = S
  OBVIOUS
<1>. QED
  BY <1>2, <1>3

\* Larger values add up to more.
LEMMA SumMonotone ==
  ASSUME NEW S, IsFiniteSet(S), NEW f, NEW g,
         \A x \in S : f[x] \in Nat /\ g[x] \in Nat /\ f[x] <= g[x]
  PROVE  SumOver(f, S) <= SumOver(g, S)
<1> DEFINE Q == {T \in SUBSET S : SumOver(f, T) <= SumOver(g, T)}
<1>1. {} \in Q
  BY SumEmpty
<1>2. ASSUME NEW T \in SUBSET S, NEW x \in S \ T, T \in Q
      PROVE  T \cup {x} \in Q
  <2>1. IsFiniteSet(T)
    BY FS_Subset
  <2>2. SumOver(f, T \cup {x}) = f[x] + SumOver(f, T)
    BY <2>1, SumAdd
  <2>3. SumOver(g, T \cup {x}) = g[x] + SumOver(g, T)
    BY <2>1, SumAdd
  <2>4. SumOver(f, T) \in Nat /\ SumOver(g, T) \in Nat
    BY <2>1, SumType
  <2>. QED
    BY <1>2, <2>2, <2>3, <2>4
<1>3. S \in Q
  <2> HIDE DEF Q
  <2>. QED
    BY <1>1, <1>2, SubsetInduction
<1>. QED
  BY <1>3

\* The same values add up to the same.
LEMMA SumSame ==
  ASSUME NEW S, IsFiniteSet(S), NEW f, NEW g,
         \A x \in S : f[x] \in Nat /\ f[x] = g[x]
  PROVE  SumOver(f, S) = SumOver(g, S)
<1>1. SumOver(f, S) <= SumOver(g, S) /\ SumOver(g, S) <= SumOver(f, S)
  BY SumMonotone
<1>2. SumOver(f, S) \in Nat /\ SumOver(g, S) \in Nat
  BY SumType
<1>. QED
  BY <1>1, <1>2

\* The sums over two parts that have no member in common add up to that of both.
LEMMA SumUnion ==
  ASSUME NEW S, IsFiniteSet(S), NEW T, IsFiniteSet(T), S \cap T = {},
         NEW f, \A x \in S \cup T : f[x] \in Nat
  PROVE  SumOver(f, S \cup T) = SumOver(f, S) + SumOver(f, T)
<1> DEFINE Q == {U \in SUBSET S : SumOver(f, U \cup T) = SumOver(f, U) + SumOver(f, T)}
<1>1. SumOver(f, T) \in Nat
  BY SumType
<1>2. {} \in Q
  <2>1. {} \cup T = T
    OBVIOUS
  <2>. QED
    BY <1>1, <2>1, SumEmpty
<1>3. ASSUME NEW U \in SUBSET S, NEW x \in S \ U, U \in Q
      PROVE  U \cup {x} \in Q
  <2>1. IsFiniteSet(U) /\ IsFiniteSet(U \cup T)
    BY FS_Subset, FS_Union
  <2>2. SumOver(f, U \cup {x}) = f[x] + SumOver(f, U)
    BY <2>1, SumAdd
  <2>3. x \notin U \cup T /\ \A y \in (U \cup T) \cup {x} : f[y] \in Nat
    OBVIOUS
  <2>4. SumOver(f, (U \cup T) \cup {x}) = f[x] + SumOver(f, U \cup T)
    BY <2>1, <2>3, SumAdd
  <2>5. SumOver(f, (U \cup {x}) \cup T) = SumOver(f, (U \cup T) \cup {x})
    BY (U \cup {x}) \cup T = (U \cup T) \cup {x}
  <2>6. SumOver(f, U) \in Nat /\ f[x] \in Nat
    BY <2>1, SumType
  <2>. QED
    BY <1>1, <1>3, <2>2, <2>4, <2>5, <2>6
<1>4. S \in Q
  <2> HIDE DEF Q
  <2>. QED
    BY <1>2, <1>3, SubsetInduction
<1>. QED
  BY <1>4

\* A part adds up to no more than the whole.
LEMMA SumPart ==
  ASSUME NEW S, IsFiniteSet(S), NEW T \in SUBSET S, NEW f, \A x \in S : f[x] \in Nat
  PROVE  SumOver(f, T) <= SumOver(f, S)
<1>1. IsFiniteSet(T) /\ IsFiniteSet(S \ T)
  BY FS_Subset
<1>2. T \cup (S \ T) = S /\ T \cap (S \ T) = {}
  OBVIOUS
<1>3. SumOver(f, T \cup (S \ T)) = SumOver(f, T) + SumOver(f, S \ T)
  BY <1>1, <1>2, SumUnion
<1>4. SumOver(f, T) \in Nat /\ SumOver(f, S \ T) \in Nat
  BY <1>1, SumType
<1>5. SumOver(f, S) = SumOver(f, T \cup (S \ T))
  BY <1>2
<1>. QED
  BY <1>3, <1>4, <1>5

\* What is zero does not count.
LEMMA SumSupport ==
  ASSUME NEW S, IsFiniteSet(S), NEW T \in SUBSET S, NEW f,
         \A x \in T : f[x] \in Nat, \A x \in S \ T : f[x] = 0
  PROVE  SumOver(f, S) = SumOver(f, T)
<1> DEFINE Q == {U \in SUBSET (S \ T) : SumOver(f, T \cup U) = SumOver(f, T)}
<1>1. IsFiniteSet(T) /\ IsFiniteSet(S \ T)
  BY FS_Subset
<1>2. {} \in Q
  <2>1. T \cup {} = T
    OBVIOUS
  <2>. QED
    BY <2>1
<1>3. ASSUME NEW U \in SUBSET (S \ T), NEW x \in (S \ T) \ U, U \in Q
      PROVE  U \cup {x} \in Q
  <2>1. IsFiniteSet(T \cup U)
    BY FS_Subset
  <2>2. \A y \in (T \cup U) \cup {x} : f[y] \in Nat
    OBVIOUS
  <2>3. SumOver(f, (T \cup U) \cup {x}) = f[x] + SumOver(f, T \cup U)
    BY <2>1, <2>2, SumAdd
  <2>4. SumOver(f, T \cup U) \in Nat
    BY <2>1, <2>2, SumType
  <2>5. SumOver(f, T \cup (U \cup {x})) = SumOver(f, (T \cup U) \cup {x})
    BY T \cup (U \cup {x}) = (T \cup U) \cup {x}
  <2>. QED
    BY <1>3, <2>3, <2>4, <2>5
<1>4. S \ T \in Q
  <2> HIDE DEF Q
  <2>. QED
    BY <1>1, <1>2, <1>3, SubsetInduction
<1>5. SumOver(f, T \cup (S \ T)) = SumOver(f, S)
  BY T \cup (S \ T) = S
<1>. QED
  BY <1>4, <1>5

-----------------------------------------------------------------------------
(***************************************************************************)
(* Posting lists                                                           *)
(***************************************************************************)

\* Division by a fixed number keeps the order.
LEMMA DivMonotone ==
  ASSUME NEW a \in Nat, NEW b \in Nat, NEW n \in Nat, n > 0, a <= b
  PROVE  a \div n <= b \div n
OBVIOUS

\* The bound of a list is on all its values.
LEMMA ListBound ==
  ASSUME NEW list, IsList(list)
  PROVE  MaxValue(list) \in Nat /\ \A d \in DOMAIN list : list[d] <= MaxValue(list)
<1> DEFINE values == Values(list, DOMAIN list)
<1>1. IsFiniteSet(values)
  BY FiniteValues DEF Values, IsList
<1>2. values \subseteq Nat /\ values \subseteq Int /\ values # {}
  BY DEF Values, IsList
<1>3. Max(values) \in values /\ \A v \in values : v <= Max(values)
  BY <1>1, <1>2, LargestMember
<1>4. \A d \in DOMAIN list : list[d] \in values
  BY DEF Values
<1>. QED
  BY <1>2, <1>3, <1>4, CursorAssumption DEF MaxValue

\* The documents of a list are numbered in their order, and so are its blocks.
LEMMA BlocksInOrder ==
  ASSUME NEW list, IsList(list), NEW d \in DOMAIN list, NEW e \in DOMAIN list, d <= e
  PROVE  /\ Cardinality({f \in DOMAIN list : f < d}) \div BlockSize \in Nat
         /\ Cardinality({f \in DOMAIN list : f < d}) \div BlockSize
              <= Cardinality({f \in DOMAIN list : f < e}) \div BlockSize
<1> DEFINE below(x) == {f \in DOMAIN list : f < x}
<1>1. IsFiniteSet(below(d)) /\ IsFiniteSet(below(e))
  BY FS_Subset DEF IsList
<1>2. below(d) \subseteq below(e)
  BY DEF IsList
<1>3. Cardinality(below(d)) \in Nat /\ Cardinality(below(e)) \in Nat
  BY <1>1, FS_CardinalityType
<1>4. Cardinality(below(d)) <= Cardinality(below(e))
  BY <1>1, <1>2, FS_Subset
<1>5. BlockSize \in Nat /\ BlockSize > 0
  BY CursorAssumption
<1>. HIDE DEF below
<1>6. Cardinality(below(d)) \div BlockSize <= Cardinality(below(e)) \div BlockSize
  BY <1>3, <1>4, <1>5, DivMonotone
<1>7. Cardinality(below(d)) \div BlockSize \in Nat
  BY <1>3, <1>5
<1>. QED
  BY <1>6, <1>7 DEF below

\* A document a block spans is bounded by the block: max_block_value bounds the
\* values from where the cursor is to max_block_doc_id.
LEMMA BlockFacts ==
  ASSUME NEW list, IsList(list), NEW d \in DOMAIN list
  PROVE  /\ MaxBlockDocId(list, d) \in DOMAIN list /\ d <= MaxBlockDocId(list, d)
         /\ MaxBlockValue(list, d) \in Nat
         /\ \A e \in DOMAIN list :
              d <= e /\ e <= MaxBlockDocId(list, d) => list[e] <= MaxBlockValue(list, d)
<1> DEFINE block == Block(list, d)
           number(x) == Cardinality({f \in DOMAIN list : f < x}) \div BlockSize
           last == MaxBlockDocId(list, d)
           values == Values(list, block)
<1>1. block = {x \in DOMAIN list : number(x) = number(d)}
  BY DEF Block
<1>2. block \subseteq DOMAIN list /\ d \in block
  BY <1>1
<1>3. IsFiniteSet(block) /\ block \subseteq Int
  BY <1>2, FS_Subset DEF IsList
<1>4. last \in block /\ \A x \in block : x <= last
  BY <1>2, <1>3, LargestMember DEF MaxBlockDocId
<1>5. IsFiniteSet(values) /\ values \subseteq Nat /\ values \subseteq Int /\ values # {}
  <2>1. IsFiniteSet(values)
    BY <1>3, FiniteValues DEF Values
  <2>2. values \subseteq Nat
    BY <1>2 DEF Values, IsList
  <2>3. values # {}
    BY <1>2 DEF Values
  <2>. QED
    BY <2>1, <2>2, <2>3
<1>6. Max(values) \in values /\ \A v \in values : v <= Max(values)
  BY <1>5, LargestMember
<1>7. ASSUME NEW e \in DOMAIN list, d <= e, e <= last
      PROVE  e \in block
  <2>1. last \in DOMAIN list
    BY <1>2, <1>4
  <2>2. number(d) \in Nat /\ number(d) <= number(e)
    BY <1>7, BlocksInOrder
  <2>3. number(e) \in Nat /\ number(e) <= number(last)
    BY <1>7, <2>1, BlocksInOrder
  <2>4. number(last) = number(d)
    BY <1>1, <1>4
  <2>5. number(e) = number(d)
    <3> HIDE DEF number
    <3>. QED
      BY <2>2, <2>3, <2>4
  <2>. QED
    BY <1>1, <2>5
<1>8. \A e \in block : list[e] \in values
  BY DEF Values
<1>9. MaxBlockValue(list, d) = Max(values) + Slack /\ Slack \in Nat
  BY CursorAssumption DEF MaxBlockValue
<1>10. MaxBlockValue(list, d) \in Nat /\ \A v \in values : v <= MaxBlockValue(list, d)
  BY <1>5, <1>6, <1>9
<1>11. \A e \in DOMAIN list : d <= e /\ e <= last => list[e] <= MaxBlockValue(list, d)
  BY <1>7, <1>8, <1>10
<1>. QED
  BY <1>2, <1>4, <1>10, <1>11

\* A cursor moves to the first of the documents that are left.
LEMMA OnwardFacts ==
  ASSUME NEW list, IsList(list), NEW d \in Int, NEW least \in Int, Onward(list, d, least) # {}
  PROVE  LET next == Min(Onward(list, d, least)) IN
         /\ next \in DOMAIN list /\ next > d /\ next >= least
         /\ \A e \in DOMAIN list : e > d /\ e >= least => next <= e
<1>1. IsFiniteSet(Onward(list, d, least)) /\ Onward(list, d, least) \subseteq Int
  BY FS_Subset DEF Onward, IsList
<1>2. /\ Min(Onward(list, d, least)) \in Onward(list, d, least)
      /\ \A e \in Onward(list, d, least) : Min(Onward(list, d, least)) <= e
  BY <1>1, SmallestMember
<1>. QED
  BY <1>2 DEF Onward

\* The score of a document adds up finitely many natural numbers.
LEMMA ScoreType ==
  ASSUME NEW lists, AreLists(lists), NEW d
  PROVE  /\ IsFiniteSet(Holders(lists, d)) /\ Holders(lists, d) \subseteq DOMAIN lists
         /\ \A c \in Holders(lists, d) : ValuesAt(lists, d)[c] = lists[c][d] /\ lists[c][d] \in Nat
         /\ Score(lists, d) \in Nat
<1>1. IsFiniteSet(Holders(lists, d)) /\ Holders(lists, d) \subseteq DOMAIN lists
  BY FS_Subset DEF Holders, AreLists
<1>2. \A c \in Holders(lists, d) : ValuesAt(lists, d)[c] = lists[c][d] /\ lists[c][d] \in Nat
  BY DEF ValuesAt, Holders, AreLists, IsList
<1>3. Score(lists, d) \in Nat
  BY <1>1, <1>2, SumType DEF Score
<1>. QED
  BY <1>1, <1>2, <1>3

\* What some of the terms add to a score is at most what bounds of them add up to.
LEMMA ScoreBelow ==
  ASSUME NEW lists, AreLists(lists), NEW d, NEW K \in SUBSET Holders(lists, d), NEW bound,
         \A c \in K : bound[c] \in Nat /\ lists[c][d] <= bound[c]
  PROVE  SumOver(ValuesAt(lists, d), K) <= SumOver(bound, K)
<1>1. IsFiniteSet(K)
  BY ScoreType, FS_Subset
<1>2. \A c \in K : ValuesAt(lists, d)[c] \in Nat /\ ValuesAt(lists, d)[c] <= bound[c]
  BY ScoreType
<1>. QED
  BY <1>1, <1>2, SumMonotone

\* A cursor has at least the posting it is at to read, at most the whole list, and
\* less the farther it is.
LEMMA ToReadFacts ==
  ASSUME NEW lists, AreLists(lists), NEW c \in DOMAIN lists,
         NEW at, at[c] \in DOMAIN lists[c]
  PROVE  /\ ToRead(lists, at)[c] \in Nat /\ 1 <= ToRead(lists, at)[c]
         /\ Lengths(lists)[c] \in Nat /\ ToRead(lists, at)[c] <= Lengths(lists)[c]
         /\ \A bt : bt[c] \in DOMAIN lists[c] /\ bt[c] >= at[c] =>
              /\ ToRead(lists, bt)[c] \in Nat /\ ToRead(lists, bt)[c] <= ToRead(lists, at)[c]
              /\ bt[c] > at[c] => ToRead(lists, bt)[c] < ToRead(lists, at)[c]
<1> DEFINE docs == DOMAIN lists[c]
           from(d) == {e \in docs : e >= d}
<1>1. IsFiniteSet(docs) /\ docs \subseteq Nat
  BY DEF AreLists, IsList
<1>2. \A pos : pos[c] \in docs => ToRead(lists, pos)[c] = Cardinality(from(pos[c]))
  <2> SUFFICES ASSUME NEW pos, pos[c] \in docs
               PROVE  ToRead(lists, pos)[c] = Cardinality(from(pos[c]))
    OBVIOUS
  <2>1. Onward(lists[c], pos[c] - 1, 0) = from(pos[c])
    BY <1>1 DEF Onward
  <2>. QED
    BY <2>1 DEF ToRead
<1>3. \A d \in docs : /\ IsFiniteSet(from(d)) /\ from(d) \subseteq docs /\ d \in from(d)
                     /\ Cardinality(from(d)) \in Nat /\ Cardinality(from(d)) <= Cardinality(docs)
  <2> SUFFICES ASSUME NEW d \in docs
               PROVE  /\ IsFiniteSet(from(d)) /\ from(d) \subseteq docs /\ d \in from(d)
                      /\ Cardinality(from(d)) \in Nat /\ Cardinality(from(d)) <= Cardinality(docs)
    OBVIOUS
  <2>1. from(d) \subseteq docs /\ d \in from(d)
    BY <1>1
  <2> HIDE DEF docs, from
  <2>. QED
    BY <1>1, <2>1, FS_Subset, FS_CardinalityType
<1>4. \A d \in docs : Cardinality(from(d)) # 0
  BY <1>3, FS_EmptySet
<1>5. \A d, e \in docs : e >= d => Cardinality(from(e)) <= Cardinality(from(d))
  <2> SUFFICES ASSUME NEW d \in docs, NEW e \in docs, e >= d
               PROVE  Cardinality(from(e)) <= Cardinality(from(d))
    OBVIOUS
  <2>1. from(e) \subseteq from(d) /\ IsFiniteSet(from(d))
    BY <1>1, <1>3
  <2> HIDE DEF from
  <2>. QED
    BY <2>1, FS_Subset
<1>6. \A d, e \in docs : e > d => Cardinality(from(e)) < Cardinality(from(d))
  <2> SUFFICES ASSUME NEW d \in docs, NEW e \in docs, e > d
               PROVE  Cardinality(from(e)) < Cardinality(from(d))
    OBVIOUS
  <2>1. from(e) \subseteq from(d) /\ from(e) # from(d) /\ IsFiniteSet(from(d))
    <3>1. d \in from(d) /\ d \notin from(e)
      BY <1>1
    <3>2. from(e) \subseteq from(d)
      BY <1>1
    <3>. QED
      BY <1>3, <3>1, <3>2
  <2>2. Cardinality(from(e)) \in Nat /\ Cardinality(from(d)) \in Nat
    BY <1>3
  <2> HIDE DEF from
  <2>. QED
    BY <2>1, <2>2, FS_Subset
<1>7. Lengths(lists)[c] = Cardinality(docs) /\ Cardinality(docs) \in Nat
  BY <1>1, FS_CardinalityType DEF Lengths
<1> HIDE DEF docs, from
<1>. QED
  BY <1>2, <1>3, <1>4, <1>5, <1>6, <1>7 DEF docs

\* Cursors that have moved, fewer of them or one of them farther, have less to read.
LEMMA LessToRead ==
  ASSUME NEW lists, AreLists(lists),
         NEW S \in SUBSET DOMAIN lists, NEW T \in SUBSET S, NEW at, NEW bt,
         \A c \in S : at[c] \in DOMAIN lists[c],
         \A c \in T : bt[c] \in DOMAIN lists[c] /\ bt[c] >= at[c],
         NEW a \in S, a \in T => bt[a] > at[a]
  PROVE  /\ SumOver(ToRead(lists, at), S) \in Nat /\ SumOver(ToRead(lists, bt), T) \in Nat
         /\ SumOver(ToRead(lists, bt), T) < SumOver(ToRead(lists, at), S)
<1> DEFINE f == ToRead(lists, at)
           g == ToRead(lists, bt)
<1>1. IsFiniteSet(S) /\ IsFiniteSet(T) /\ IsFiniteSet(S \ {a}) /\ IsFiniteSet(T \ {a})
  BY FS_Subset DEF AreLists
<1>2. \A c \in S : f[c] \in Nat /\ 1 <= f[c]
  BY ToReadFacts
<1>3. \A c \in T : g[c] \in Nat /\ g[c] <= f[c]
  BY ToReadFacts
<1>4. a \in T => g[a] < f[a]
  BY ToReadFacts
<1> HIDE DEF f, g
<1>5. SumOver(f, S) = f[a] + SumOver(f, S \ {a})
  BY <1>1, <1>2, SumRemove
<1>6. SumOver(f, T \ {a}) <= SumOver(f, S \ {a})
  <2>1. T \ {a} \in SUBSET (S \ {a})
    OBVIOUS
  <2>. QED
    BY <1>1, <1>2, <2>1, SumPart
<1>7. SumOver(g, T \ {a}) <= SumOver(f, T \ {a})
  BY <1>1, <1>2, <1>3, SumMonotone
<1>8. /\ SumOver(f, S) \in Nat /\ SumOver(f, S \ {a}) \in Nat /\ SumOver(f, T \ {a}) \in Nat
      /\ SumOver(g, T) \in Nat /\ SumOver(g, T \ {a}) \in Nat
  <2>1. \A c \in T \ {a} : f[c] \in Nat /\ g[c] \in Nat
    BY <1>2, <1>3
  <2>. QED
    BY <1>1, <1>2, <1>3, <2>1, SumType
<1>9. CASE a \in T
  <2>1. SumOver(g, T) = g[a] + SumOver(g, T \ {a})
    BY <1>1, <1>3, <1>9, SumRemove
  <2>. QED
    BY <1>2, <1>3, <1>4, <1>5, <1>6, <1>7, <1>8, <1>9, <2>1 DEF f, g
<1>10. CASE a \notin T
  <2>1. SumOver(g, T) = SumOver(g, T \ {a})
    BY <1>10, T = T \ {a}
  <2>. QED
    BY <1>2, <1>5, <1>6, <1>7, <1>8, <2>1 DEF f, g
<1>. QED
  BY <1>9, <1>10

-----------------------------------------------------------------------------
(***************************************************************************)
(* The heap of the best documents                                          *)
(***************************************************************************)

\* At most k scored documents, none twice.
IsHeap(heap, docs, k) ==
  /\ IsFiniteSet(heap) /\ heap \subseteq [docid : docs, score : Nat]
  /\ Cardinality(heap) <= k
  /\ \A g, h \in heap : g.docid = h.docid => g = h

\* A heap that holds something has a lowest hit.
LEMMA LowestHit ==
  ASSUME NEW heap, NEW docs, NEW k, IsHeap(heap, docs, k), heap # {}
  PROVE  /\ Lowest(heap) \in Nat
         /\ \E l \in heap : l.score = Lowest(heap)
         /\ \A h \in heap : Lowest(heap) <= h.score
<1> DEFINE score == [h \in heap |-> h.score]
           values == {h.score : h \in heap}
<1>1. IsFiniteSet({score[h] : h \in heap})
  <2>1. IsFiniteSet(heap)
    BY DEF IsHeap
  <2> HIDE DEF score
  <2>. QED
    BY <2>1, FiniteValues
<1>2. values = {score[h] : h \in heap}
  OBVIOUS
<1>3. IsFiniteSet(values) /\ values \subseteq Int /\ values # {} /\ values \subseteq Nat
  <2>1. values \subseteq Nat
    <3>1. \A h \in heap : h \in [docid : docs, score : Nat]
      BY DEF IsHeap
    <3>2. \A h \in heap : h.score \in Nat
      BY <3>1
    <3>. QED
      BY <3>2
  <2>2. values # {}
    OBVIOUS
  <2>3. IsFiniteSet(values)
    BY <1>1, <1>2
  <2>4. values \subseteq Int
    BY <2>1
  <2>. QED
    BY <2>1, <2>2, <2>3, <2>4
<1>4. Min(values) \in values /\ \A v \in values : Min(values) <= v
  BY <1>3, SmallestMember
<1>. QED
  BY <1>3, <1>4 DEF Lowest

\* What add returns: no less than the initial threshold, and more only once the
\* heap is full of hits that reach it.
LEMMA ThresholdFacts ==
  ASSUME NEW heap, NEW docs, NEW k \in Nat \ {0}, IsHeap(heap, docs, k), NEW least \in Nat
  PROVE  /\ Threshold(heap, k, least) \in Nat /\ least <= Threshold(heap, k, least)
         /\ Threshold(heap, k, least) > least =>
              /\ Cardinality(heap) = k
              /\ \A h \in heap : h.score >= Threshold(heap, k, least)
         /\ Cardinality(heap) = k =>
              \E l \in heap : l.score = Lowest(heap) /\ Lowest(heap) <= Threshold(heap, k, least)
<1>1. Cardinality(heap) \in Nat
  BY FS_CardinalityType DEF IsHeap
<1>2. CASE Cardinality(heap) < k
  BY <1>1, <1>2 DEF Threshold
<1>3. CASE ~(Cardinality(heap) < k)
  <2>1. Cardinality(heap) = k /\ heap # {}
    BY <1>1, <1>3, FS_EmptySet DEF IsHeap
  <2>2. /\ Lowest(heap) \in Nat /\ \E l \in heap : l.score = Lowest(heap)
        /\ \A h \in heap : Lowest(heap) <= h.score
    BY <2>1, LowestHit
  <2>3. IsFiniteSet({least, Lowest(heap)}) /\ {least, Lowest(heap)} \subseteq Int
    <3>1. IsFiniteSet({least}) /\ {least} \cup {Lowest(heap)} = {least, Lowest(heap)}
      BY FS_Singleton
    <3>2. IsFiniteSet({least} \cup {Lowest(heap)})
      BY <3>1, FS_AddElement
    <3>. QED
      BY <2>2, <3>1, <3>2
  <2>4. /\ Max({least, Lowest(heap)}) \in {least, Lowest(heap)}
        /\ least <= Max({least, Lowest(heap)}) /\ Lowest(heap) <= Max({least, Lowest(heap)})
    BY <2>3, LargestMember
  <2>5. Threshold(heap, k, least) = Max({least, Lowest(heap)})
    BY <1>3 DEF Threshold
  <2>6. \A h \in heap : h.score \in Nat
    BY DEF IsHeap
  <2> DEFINE theta == Threshold(heap, k, least)
             low == Lowest(heap)
  <2>7. theta \in {least, low} /\ least <= theta /\ low <= theta
    BY <2>4, <2>5
  <2> HIDE DEF theta, low
  <2>8. theta \in Nat /\ (theta > least => theta = low)
    BY <2>2, <2>7 DEF low
  <2>. QED
    BY <2>1, <2>2, <2>6, <2>7, <2>8 DEF theta, low
<1>. QED
  BY <1>2, <1>3

\* TopScoredDocuments::add of a document that is not in the heap: it stays a heap,
\* the threshold does not fall, and what is left out does not beat it.
LEMMA AddedFacts ==
  ASSUME NEW heap, NEW docs, NEW k \in Nat \ {0}, IsHeap(heap, docs, k), NEW least \in Nat,
         NEW h \in [docid : docs, score : Nat], h.docid \notin Docids(heap),
         NEW kept \in Added(heap, k, h)
  PROVE  /\ IsHeap(kept, docs, k) /\ kept \subseteq heap \cup {h}
         /\ Threshold(heap, k, least) <= Threshold(kept, k, least)
         /\ \A x \in (heap \cup {h}) \ kept :
              /\ x.score <= Threshold(kept, k, least) /\ x.score <= Lowest(kept)
              /\ Cardinality(kept) = k
<1>1. Cardinality(heap) \in Nat /\ IsFiniteSet(heap) /\ Cardinality(heap) <= k
  BY FS_CardinalityType DEF IsHeap
<1>2. h \notin heap /\ \A g \in heap : g.docid # h.docid
  BY DEF Docids
<1>3. Threshold(heap, k, least) \in Nat /\ least <= Threshold(heap, k, least)
  BY ThresholdFacts
<1>4. CASE Cardinality(heap) < k
  <2>1. kept = heap \cup {h}
    BY <1>4 DEF Added
  <2>2. IsFiniteSet(kept) /\ Cardinality(kept) = Cardinality(heap) + 1
    BY <1>1, <1>2, <2>1, FS_AddElement
  <2>3. IsHeap(kept, docs, k)
    BY <1>1, <1>2, <1>4, <2>1, <2>2 DEF IsHeap
  <2>4. Threshold(heap, k, least) = least
    BY <1>4 DEF Threshold
  <2>5. least <= Threshold(kept, k, least)
    BY <2>3, ThresholdFacts
  <2>. QED
    BY <2>1, <2>3, <2>4, <2>5
<1>5. CASE ~(Cardinality(heap) < k)
  <2>1. Cardinality(heap) = k /\ heap # {}
    BY <1>1, <1>5, FS_EmptySet
  <2>2. /\ Lowest(heap) \in Nat /\ \A g \in heap : Lowest(heap) <= g.score
    BY <2>1, LowestHit
  <2>3. Threshold(heap, k, least) = Max({least, Lowest(heap)})
    BY <1>5 DEF Threshold
  <2>4. CASE ~(Lowest(heap) < h.score)
    <3>1. kept = heap
      BY <1>5, <2>4 DEF Added
    <3>2. h.score <= Lowest(heap) /\ h.score \in Nat
      BY <2>2, <2>4
    <3>3. Lowest(heap) <= Threshold(heap, k, least)
      BY <2>1, ThresholdFacts
    <3>. QED
      BY <1>3, <2>1, <2>2, <3>1, <3>2, <3>3
  <2>5. CASE Lowest(heap) < h.score
    <3>1. PICK l \in heap : l.score = Lowest(heap) /\ kept = (heap \ {l}) \cup {h}
      BY <1>5, <2>5 DEF Added
    <3>2. IsFiniteSet(heap \ {l}) /\ Cardinality(heap \ {l}) = k - 1
      BY <1>1, <2>1, FS_RemoveElement
    <3>3. IsFiniteSet(kept) /\ Cardinality(kept) = k
      <4>1. h \notin heap \ {l}
        BY <1>2
      <4>2. /\ IsFiniteSet((heap \ {l}) \cup {h})
            /\ Cardinality((heap \ {l}) \cup {h}) = Cardinality(heap \ {l}) + 1
        BY <3>2, <4>1, FS_AddElement
      <4>. QED
        BY <3>1, <3>2, <4>2
    <3>4. IsHeap(kept, docs, k)
      BY <1>2, <3>1, <3>3 DEF IsHeap
    <3>5. h \in kept
      BY <3>1
    <3>6. /\ Lowest(kept) \in Nat /\ \E m \in kept : m.score = Lowest(kept)
      BY <3>4, <3>5, LowestHit
    <3>7. Lowest(heap) <= Lowest(kept)
      BY <2>2, <2>5, <3>1, <3>6
    <3>8. Lowest(kept) <= Threshold(kept, k, least) /\ least <= Threshold(kept, k, least)
          /\ Threshold(kept, k, least) \in Nat
      BY <3>3, <3>4, ThresholdFacts
    <3>9. Threshold(heap, k, least) > least => Threshold(heap, k, least) <= Lowest(heap)
      BY <3>1, <1>3, <2>2, ThresholdFacts
    <3>10. Threshold(heap, k, least) <= Threshold(kept, k, least)
      BY <1>3, <2>2, <3>6, <3>7, <3>8, <3>9
    <3>11. kept \subseteq heap \cup {h} /\ \A x \in (heap \cup {h}) \ kept : x = l
      BY <3>1
    <3>12. l.score <= Lowest(kept) /\ l.score <= Threshold(kept, k, least)
      BY <2>2, <3>1, <3>6, <3>7, <3>8
    <3>13. \A x \in (heap \cup {h}) \ kept :
             /\ x.score <= Threshold(kept, k, least) /\ x.score <= Lowest(kept)
             /\ Cardinality(kept) = k
      BY <3>3, <3>11, <3>12
    <3>. QED
      BY <3>4, <3>10, <3>11, <3>13
  <2>. QED
    BY <2>4, <2>5
<1>. QED
  BY <1>4, <1>5

\* into_sorted_vec gives each hit of the heap once.
LEMMA DecreasingFacts ==
  ASSUME NEW heap, IsFiniteSet(heap), NEW hits \in Decreasing(heap)
  PROVE  /\ hits \in Seq(heap) /\ Len(hits) = Cardinality(heap) /\ ToSet(hits) = heap
         /\ \A i, j \in DOMAIN hits : hits[i] = hits[j] => i = j
         /\ \A i \in 2 .. Len(hits) : hits[i - 1].score >= hits[i].score
<1> DEFINE n == Cardinality(heap)
<1>1. n \in Nat
  BY FS_CardinalityType
<1>2. hits \in [1 .. n -> heap] /\ ToSet(hits) = heap
  BY DEF Decreasing
<1>3. hits \in Seq(heap) /\ Len(hits) = n /\ DOMAIN hits = 1 .. n
  BY <1>1, <1>2
<1>4. IsFiniteSet(1 .. n) /\ Cardinality(1 .. n) = n
  BY <1>1, FS_Interval
<1>5. hits \in Surjection(1 .. n, heap)
  BY <1>2, <1>3 DEF Surjection, ToSet
<1>6. hits \in Injection(1 .. n, heap)
  BY <1>4, <1>5, FS_SurjSameCardinalityImpliesInj
<1>7. \A i, j \in DOMAIN hits : hits[i] = hits[j] => i = j
  BY <1>3, <1>6 DEF Injection, IsInjective
<1>. QED
  BY <1>2, <1>3, <1>7 DEF Decreasing

\* A heap of hits that have their scores, if they matter, and that leaves out only
\* documents below its threshold, is an answer once sorted.
LEMMA HeapAnswers ==
  ASSUME NEW scores, \A d \in DOMAIN scores : scores[d] \in Nat,
         NEW k \in Nat \ {0}, NEW least \in Nat,
         NEW heap, IsHeap(heap, DOMAIN scores, k),
         \A h \in heap : /\ h.score <= scores[h.docid]
                         /\ scores[h.docid] > least => h.score = scores[h.docid],
         \A d \in DOMAIN scores \ Docids(heap) : scores[d] <= Threshold(heap, k, least),
         NEW hits \in Decreasing(heap)
  PROVE  IsAnswer(hits, scores, k, least)
<1>1. IsFiniteSet(heap) /\ Cardinality(heap) <= k
  BY DEF IsHeap
<1>2. /\ Len(hits) = Cardinality(heap) /\ ToSet(hits) = heap /\ DOMAIN hits = 1 .. Len(hits)
      /\ \A i, j \in DOMAIN hits : hits[i] = hits[j] => i = j
      /\ \A i \in 2 .. Len(hits) : hits[i - 1].score >= hits[i].score
  BY <1>1, DecreasingFacts
<1>3. \A i \in DOMAIN hits : hits[i] \in heap
  BY <1>2 DEF ToSet
<1>4. IsInjective([i \in DOMAIN hits |-> hits[i].docid])
  <2>1. \A i, j \in DOMAIN hits : hits[i].docid = hits[j].docid => i = j
    BY <1>2, <1>3 DEF IsHeap
  <2>. QED
    BY <2>1 DEF IsInjective
<1>5. \A h \in heap : h.docid \in DOMAIN scores /\ h.score \in Nat
  BY DEF IsHeap
<1>6. ASSUME NEW d \in DOMAIN scores \ Docids(heap), scores[d] > least
      PROVE  Len(hits) = k /\ \A h \in heap : h.score >= scores[d]
  <2> DEFINE theta == Threshold(heap, k, least)
  <2>1. /\ theta \in Nat
        /\ theta > least => Cardinality(heap) = k /\ \A h \in heap : h.score >= theta
    BY ThresholdFacts
  <2>2. scores[d] <= theta /\ scores[d] \in Nat
    BY <1>6
  <2> HIDE DEF theta
  <2>3. theta > least
    BY <1>6, <2>1, <2>2
  <2>. QED
    BY <1>2, <1>5, <2>1, <2>2, <2>3
<1>. QED
  BY <1>1, <1>2, <1>4, <1>5, <1>6 DEF IsAnswer

\* An answer over the documents of the index is one over those the caller knows.
LEMMA RemappedAnswers ==
  ASSUME NEW lists, NEW filter, NEW accepted, IsFilter(filter, accepted, Matching(lists)),
         NEW k \in Nat \ {0}, NEW least \in Nat, NEW hits,
         hits \in Seq([docid : Eligible(lists, filter, accepted), score : Nat]),
         IsAnswer(hits, [d \in Eligible(lists, filter, accepted) |-> Score(lists, d)], k, least)
  PROVE  /\ IsAnswer(Remapped(filter, hits), ScoresOf(lists, filter, accepted), k, least)
         /\ \A i \in DOMAIN Remapped(filter, hits) : Remapped(filter, hits)[i].docid \in accepted
<1> DEFINE docs == Eligible(lists, filter, accepted)
           scores == [d \in docs |-> Score(lists, d)]
           id(d) == Original(filter, d)
           known == ScoresOf(lists, filter, accepted)
           named == Remapped(filter, hits)
<1>1. \A d \in docs : id(d) \in accepted
  BY DEF Eligible
<1>2. \A d, e \in docs : id(d) = id(e) => d = e
  BY DEF Eligible, IsFilter
<1>3. DOMAIN known = {id(d) : d \in docs} /\ \A d \in docs : known[id(d)] = Score(lists, d)
  <2>1. DOMAIN known = {id(d) : d \in docs}
    BY DEF ScoresOf
  <2>2. ASSUME NEW d \in docs
        PROVE  known[id(d)] = Score(lists, d)
    <3>1. known[id(d)] = Score(lists, CHOOSE e \in docs : id(e) = id(d))
      BY DEF ScoresOf
    <3>2. (CHOOSE e \in docs : id(e) = id(d)) = d
      BY <1>2
    <3>. QED
      BY <3>1, <3>2
  <2>. QED
    BY <2>1, <2>2
<1>4. /\ DOMAIN named = DOMAIN hits /\ DOMAIN hits = 1 .. Len(hits) /\ Len(hits) \in Nat
      /\ \A i \in DOMAIN hits : hits[i] \in [docid : docs, score : Nat]
  <2> DEFINE Hits == [docid : docs, score : Nat]
  <2>1. hits \in Seq(Hits)
    OBVIOUS
  <2>2. DOMAIN named = DOMAIN hits
    BY DEF Remapped
  <2> HIDE DEF Hits, named
  <2>3. /\ DOMAIN hits = 1 .. Len(hits) /\ Len(hits) \in Nat
        /\ \A i \in DOMAIN hits : hits[i] \in Hits
    BY <2>1
  <2>. QED
    BY <2>2, <2>3 DEF Hits
<1>5. \A i \in DOMAIN hits : named[i].docid = id(hits[i].docid) /\ named[i].score = hits[i].score
  BY <1>4 DEF Remapped
<1>6. named \in Seq([docid : {id(d) : d \in docs}, score : Nat]) /\ Len(named) = Len(hits)
  BY <1>4 DEF Remapped
<1> HIDE DEF docs, id, known, named
<1>7. IsInjective([i \in DOMAIN named |-> named[i].docid])
  <2>1. \A i, j \in DOMAIN hits : hits[i].docid = hits[j].docid => i = j
    BY DEF IsAnswer, IsInjective
  <2>2. \A i, j \in DOMAIN named : named[i].docid = named[j].docid => i = j
    BY <1>2, <1>4, <1>5, <2>1
  <2>. QED
    BY <2>2 DEF IsInjective
<1>8. \A i \in 2 .. Len(named) : named[i - 1].score >= named[i].score
  <2>1. \A i \in 2 .. Len(hits) : hits[i - 1].score >= hits[i].score
    BY DEF IsAnswer
  <2>2. \A i \in 2 .. Len(hits) : i \in DOMAIN hits /\ i - 1 \in DOMAIN hits
    <3>1. PICK n \in Nat : n = Len(hits) /\ DOMAIN hits = 1 .. n
      BY <1>4, Zenon
    <3>2. \A i \in 2 .. n : i \in 1 .. n /\ i - 1 \in 1 .. n
      OBVIOUS
    <3>. QED
      BY <3>1, <3>2
  <2>3. DOMAIN named = DOMAIN hits /\ 2 .. Len(named) = 2 .. Len(hits)
    BY <1>4, <1>6
  <2>. QED
    BY <1>5, <2>1, <2>2, <2>3, Zenon
<1>9. ASSUME NEW g \in ToSet(named)
      PROVE  /\ g.docid \in DOMAIN known
             /\ g.score <= known[g.docid]
             /\ known[g.docid] > least => g.score = known[g.docid]
  <2>1. PICK i \in DOMAIN hits : g = named[i]
    BY <1>4 DEF ToSet
  <2>2. hits[i].docid \in docs /\ hits[i] \in ToSet(hits)
    BY <1>4 DEF ToSet
  <2>3. /\ hits[i].score <= scores[hits[i].docid]
        /\ scores[hits[i].docid] > least => hits[i].score = scores[hits[i].docid]
    BY <2>2 DEF IsAnswer, docs
  <2>. QED
    BY <1>3, <1>5, <2>1, <2>2, <2>3 DEF docs
<1>10. ASSUME NEW x \in DOMAIN known \ Docids(ToSet(named)), known[x] > least
       PROVE  Len(named) = k /\ \A g \in ToSet(named) : g.score >= known[x]
  <2>1. PICK d \in docs : x = id(d)
    BY <1>3
  <2>2. d \notin Docids(ToSet(hits))
    <3> SUFFICES ASSUME NEW i \in DOMAIN hits, d = hits[i].docid PROVE FALSE
      BY DEF Docids, ToSet
    <3>1. named[i].docid = x /\ named[i] \in ToSet(named)
      BY <1>4, <1>5, <2>1 DEF ToSet
    <3>. QED
      BY <3>1 DEF Docids
  <2>3. scores[d] = known[x] /\ d \in DOMAIN scores
    BY <1>3, <2>1 DEF docs
  <2>4. Len(hits) = k /\ \A h \in ToSet(hits) : h.score >= scores[d]
    <3> DEFINE all == [e \in Eligible(lists, filter, accepted) |-> Score(lists, e)]
    <3>1. all = scores
      BY DEF docs
    <3>2. IsAnswer(hits, all, k, least)
      OBVIOUS
    <3> HIDE DEF all
    <3>. QED
      BY <1>10, <2>2, <2>3, <3>1, <3>2 DEF IsAnswer
  <2>5. \A g \in ToSet(named) : \E h \in ToSet(hits) : g.score = h.score
    BY <1>4, <1>5 DEF ToSet
  <2>. QED
    BY <1>6, <2>3, <2>4, <2>5
<1>11. Len(named) <= k
  BY <1>6 DEF IsAnswer
<1>12. IsAnswer(named, known, k, least)
  BY <1>7, <1>8, <1>9, <1>10, <1>11 DEF IsAnswer
<1>13. \A i \in DOMAIN named : named[i].docid \in accepted
  BY <1>1, <1>4, <1>5
<1>. QED
  BY <1>12, <1>13 DEF known, named

-----------------------------------------------------------------------------
(***************************************************************************)
(* Sequences and heaps                                                     *)
(***************************************************************************)

\* A sequence without its first member.
LEMMA TailFacts ==
  ASSUME NEW S, NEW some, AreDistinct(some, S), some # <<>>
  PROVE  /\ Head(some) \in S /\ Head(some) \in ToSet(some)
         /\ AreDistinct(Tail(some), S) /\ ToSet(Tail(some)) = ToSet(some) \ {Head(some)}
<1> DEFINE n == Len(some)
           rest == Tail(some)
<1>1. /\ n \in Nat /\ n # 0 /\ DOMAIN some = 1 .. n /\ some \in Seq(S)
      /\ \A i, j \in 1 .. n : some[i] = some[j] => i = j
  BY DEF AreDistinct
<1>2. Head(some) = some[1] /\ 1 \in 1 .. n /\ some[1] \in S
  BY <1>1
<1>3. /\ rest \in Seq(S) /\ DOMAIN rest = 1 .. (n - 1)
      /\ \A i \in 1 .. (n - 1) : rest[i] = some[i + 1]
  BY <1>1
<1> HIDE DEF rest
<1>4. \A i \in 1 .. (n - 1) : i + 1 \in 1 .. n /\ i + 1 # 1
  BY <1>1
<1>5. AreDistinct(rest, S)
  <2>1. ASSUME NEW i \in 1 .. (n - 1), NEW j \in 1 .. (n - 1), rest[i] = rest[j]
        PROVE  i = j
    <3>1. i + 1 = j + 1
      BY <1>1, <1>3, <1>4, <2>1
    <3>. QED
      BY <3>1
  <2>. QED
    BY <1>3, <2>1 DEF AreDistinct
<1>6. ToSet(rest) = ToSet(some) \ {some[1]}
  <2>1. ASSUME NEW x \in ToSet(rest) PROVE x \in ToSet(some) /\ x # some[1]
    <3>1. PICK i \in 1 .. (n - 1) : x = some[i + 1]
      BY <1>3, <2>1 DEF ToSet
    <3>. QED
      BY <1>1, <1>2, <1>4, <3>1 DEF ToSet
  <2>2. ASSUME NEW x \in ToSet(some), x # some[1] PROVE x \in ToSet(rest)
    <3>1. PICK i \in 1 .. n : x = some[i] /\ i # 1
      BY <1>1, <2>2 DEF ToSet
    <3>2. i - 1 \in 1 .. (n - 1) /\ (i - 1) + 1 = i
      BY <1>1, <3>1
    <3>3. rest[i - 1] = x
      BY <1>3, <3>1, <3>2
    <3>. QED
      BY <1>3, <3>2, <3>3 DEF ToSet
  <2>. QED
    BY <2>1, <2>2
<1>. QED
  BY <1>1, <1>2, <1>5, <1>6 DEF rest, ToSet

\* Of hits by decreasing score, none has a higher score than an earlier one.
LEMMA DecreasingFar ==
  ASSUME NEW S, NEW hits \in Seq(S), \A h \in S : h.score \in Nat,
         \A i \in 2 .. Len(hits) : hits[i - 1].score >= hits[i].score,
         NEW i \in DOMAIN hits, NEW j \in DOMAIN hits, i <= j
  PROVE  hits[i].score >= hits[j].score
<1> DEFINE B == {k \in DOMAIN hits : i <= k /\ ~(hits[i].score >= hits[k].score)}
<1>1. DOMAIN hits = 1 .. Len(hits) /\ Len(hits) \in Nat /\ i \in Int
      /\ \A k \in DOMAIN hits : hits[k].score \in Nat
  OBVIOUS
<1>2. IsFiniteSet(B) /\ B \subseteq Int
  <2>1. Len(hits) \in Int /\ 1 \in Int
    BY <1>1
  <2>2. IsFiniteSet(1 .. Len(hits))
    BY <2>1, FS_Interval, Zenon
  <2>3. IsFiniteSet(DOMAIN hits)
    BY <1>1, <2>2, Zenon
  <2>. QED
    BY <1>1, <2>3, FS_Subset
<1>3. SUFFICES ASSUME B # {} PROVE FALSE
  OBVIOUS
<1>4. PICK m \in B : \A k \in B : m <= k
  <2> HIDE DEF B
  <2>. QED
    BY <1>2, <1>3, SmallestMember
<1>5. m \in 1 .. Len(hits) /\ i <= m /\ ~(hits[i].score >= hits[m].score)
  BY <1>1, <1>4
<1>6. i # m
  BY <1>1, <1>5
<1>7. m - 1 \in DOMAIN hits /\ i <= m - 1 /\ m - 1 \notin B /\ m \in 2 .. Len(hits)
  BY <1>1, <1>4, <1>5, <1>6
<1>8. hits[i].score >= hits[m - 1].score /\ hits[m - 1].score >= hits[m].score
  BY <1>7
<1>. QED
  BY <1>1, <1>5, <1>7, <1>8

\* A finite heap can be sorted.
LEMMA SortedExists ==
  ASSUME NEW hits, NEW docs, NEW k, IsHeap(hits, docs, k)
  PROVE  Decreasing(hits) # {}
<1> DEFINE F == {T \in SUBSET hits : Decreasing(T) = {}}
<1>1. IsFiniteSet(hits) /\ \A h \in hits : h.score \in Nat
  BY DEF IsHeap
<1>2. SUFFICES ASSUME F # {} PROVE FALSE
  OBVIOUS
<1>3. PICK U \in F : \A V \in F : V \subseteq U => V = U
  <2>1. F \subseteq SUBSET hits
    OBVIOUS
  <2> HIDE DEF F
  <2>. QED
    BY <1>1, <1>2, <2>1, SmallestSubset
<1>4. U \subseteq hits /\ Decreasing(U) = {} /\ IsFiniteSet(U)
  BY <1>1, <1>3, FS_Subset
<1>5. U # {}
  <2> SUFFICES ASSUME U = {} PROVE FALSE
    OBVIOUS
  <2>1. Cardinality({}) = 0
    BY FS_EmptySet
  <2>2. <<>> \in [1 .. 0 -> {}] /\ ToSet(<<>>) = {} /\ Len(<<>>) = 0
    BY DEF ToSet
  <2>3. <<>> \in Decreasing({})
    BY <2>1, <2>2 DEF Decreasing
  <2>. QED
    BY <1>4, <2>3
<1>6. PICK l \in U : \A h \in U : l.score <= h.score
  <2> DEFINE f == [h \in U |-> h.score]
             all == {f[h] : h \in U}
  <2>1. IsFiniteSet(all)
    <3> HIDE DEF f
    <3>. QED
      BY <1>4, FiniteValues
  <2>2. all \subseteq Int /\ all # {}
    BY <1>1, <1>4, <1>5
  <2>3. \A h \in U : f[h] = h.score
    OBVIOUS
  <2>4. Min(all) \in all /\ \A x \in all : Min(all) <= x
    <3> HIDE DEF all
    <3>. QED
      BY <2>1, <2>2, SmallestMember
  <2> HIDE DEF f
  <2>. QED
    BY <2>3, <2>4
<1> DEFINE V == U \ {l}
<1>7. V \notin F /\ V \in SUBSET hits
  BY <1>3, <1>4
<1>8. PICK s \in Decreasing(V) : TRUE
  BY <1>7
<1>9. /\ s \in Seq(V) /\ Len(s) = Cardinality(V) /\ ToSet(s) = V
      /\ \A i \in 2 .. Len(s) : s[i - 1].score >= s[i].score
  <2>1. IsFiniteSet(V)
    BY <1>4, FS_Subset
  <2> HIDE DEF V
  <2>. QED
    BY <1>8, <2>1, DecreasingFacts
<1> DEFINE n == Len(s)
           t == Append(s, l)
<1>10. Cardinality(U) = n + 1 /\ n \in Nat
  <2>1. Cardinality(V) = Cardinality(U) - 1 /\ Cardinality(U) \in Nat
    BY <1>4, FS_RemoveElement, FS_CardinalityType
  <2>. QED
    BY <1>9, <2>1
<1>11. /\ t \in [1 .. (n + 1) -> U] /\ Len(t) = n + 1 /\ t[n + 1] = l
       /\ \A i \in 1 .. n : t[i] = s[i] /\ s[i] \in V
  <2>1. V \subseteq U
    OBVIOUS
  <2> HIDE DEF V
  <2>2. s \in Seq(U)
    BY <1>9, <2>1
  <2>3. t \in Seq(U) /\ Len(t) = n + 1 /\ t[n + 1] = l
    BY <1>6, <2>2
  <2>4. \A i \in 1 .. n : t[i] = s[i] /\ s[i] \in V
    BY <1>6, <1>9, <2>2
  <2> HIDE DEF t
  <2>5. t \in [1 .. (n + 1) -> U]
    BY <2>3
  <2>. QED
    BY <2>3, <2>4, <2>5
<1>12. ToSet(t) = U
  <2>1. \A i \in 1 .. (n + 1) : t[i] \in U
    BY <1>11
  <2>2. ASSUME NEW x \in U PROVE \E i \in 1 .. (n + 1) : t[i] = x
    <3>1. CASE x = l
      BY <1>10, <1>11, <3>1
    <3>2. CASE x # l
      <4>1. PICK i \in DOMAIN s : s[i] = x
        BY <1>9, <3>2 DEF ToSet
      <4>2. i \in 1 .. n
        BY <1>9, <4>1
      <4>3. i \in 1 .. (n + 1)
        BY <1>10, <4>2
      <4>. QED
        BY <1>11, <4>1, <4>2, <4>3
    <3>. QED
      BY <3>1, <3>2
  <2>3. DOMAIN t = 1 .. (n + 1)
    BY <1>11
  <2> HIDE DEF t, n
  <2>. QED
    BY <2>1, <2>2, <2>3 DEF ToSet
<1>13. \A i \in 2 .. (n + 1) : t[i - 1].score >= t[i].score
  <2> SUFFICES ASSUME NEW i \in 2 .. (n + 1) PROVE t[i - 1].score >= t[i].score
    OBVIOUS
  <2>1. CASE i \in 2 .. n
    <3>1. i - 1 \in 1 .. n /\ i \in 1 .. n
      BY <1>10, <2>1
    <3>. QED
      BY <1>9, <1>11, <2>1, <3>1
  <2>2. CASE i = n + 1
    <3>1. i - 1 \in 1 .. n /\ i - 1 = n
      BY <1>10, <2>2
    <3>2. t[i - 1] \in U /\ t[i] = l
      BY <1>11, <2>2, <3>1
    <3>3. l.score <= t[i - 1].score /\ l.score \in Nat /\ t[i - 1].score \in Nat
      BY <1>1, <1>4, <1>6, <3>2
    <3> HIDE DEF t
    <3>. QED
      BY <3>2, <3>3
  <2>. QED
    BY <1>10, <2>1, <2>2
<1>14. t \in Decreasing(U)
  <2> HIDE DEF t, n
  <2>. QED
    BY <1>10, <1>11, <1>12, <1>13 DEF Decreasing
<1>. QED
  BY <1>4, <1>14

\* Hits of a heap that score at least that much.
Above(hits, s) == {h \in hits : h.score >= s}

\* A heap whose size many hits score at least that much is full, and its threshold
\* is not lower.
LEMMA AllAbove ==
  ASSUME NEW hits, NEW docs, NEW k \in Nat \ {0}, IsHeap(hits, docs, k), NEW s \in Nat,
         Cardinality(Above(hits, s)) >= k
  PROVE  s <= Threshold(hits, k, 0)
<1> DEFINE A == Above(hits, s)
<1>1. IsFiniteSet(hits) /\ Cardinality(hits) <= k /\ Cardinality(hits) \in Nat
  BY FS_CardinalityType DEF IsHeap
<1>2. A \subseteq hits
  BY DEF Above
<1>3. IsFiniteSet(A) /\ Cardinality(A) \in Nat /\ Cardinality(A) <= Cardinality(hits)
      /\ (Cardinality(A) = Cardinality(hits) => A = hits)
  <2> HIDE DEF A
  <2>. QED
    BY <1>1, <1>2, FS_Subset, FS_CardinalityType
<1>4. A = hits /\ Cardinality(hits) = k
  <2>1. Cardinality(A) >= k
    OBVIOUS
  <2> HIDE DEF A
  <2>. QED
    BY <1>1, <1>3, <2>1
<1>5. hits # {}
  BY <1>1, <1>4, FS_EmptySet
<1>6. Lowest(hits) \in Nat /\ \E l \in hits : l.score = Lowest(hits)
  BY <1>5, LowestHit
<1>7. s <= Lowest(hits)
  BY <1>4, <1>6 DEF Above
<1>8. Threshold(hits, k, 0) = Max({0, Lowest(hits)})
  BY <1>1, <1>4 DEF Threshold
<1>9. Lowest(hits) <= Threshold(hits, k, 0)
  BY <1>1, <1>4, <1>6, ThresholdFacts
<1>10. Threshold(hits, k, 0) \in Nat
  BY ThresholdFacts
<1>. QED
  BY <1>6, <1>7, <1>9, <1>10

\* A hit that enters the heap leaves one more that scores at least that much, when
\* it does, unless the threshold is that high already.
LEMMA AboveGrows ==
  ASSUME NEW hits, NEW docs, NEW k \in Nat \ {0}, IsHeap(hits, docs, k), NEW s \in Nat,
         NEW h \in [docid : docs, score : Nat], h.docid \notin Docids(hits), s <= h.score,
         Cardinality(hits) < k \/ Lowest(hits) < h.score,
         NEW kept \in Added(hits, k, h)
  PROVE  \/ s <= Threshold(kept, k, 0)
         \/ Cardinality(Above(kept, s)) = Cardinality(Above(hits, s)) + 1
<1>1. IsFiniteSet(hits) /\ Cardinality(hits) <= k /\ Cardinality(hits) \in Nat
      /\ \A g \in hits : g.score \in Nat
  BY FS_CardinalityType DEF IsHeap
<1>2. h \notin hits
  BY DEF Docids
<1>3. Cardinality(Above(hits, s) \cup {h}) = Cardinality(Above(hits, s)) + 1
  <2>1. IsFiniteSet(Above(hits, s)) /\ h \notin Above(hits, s)
    BY <1>1, <1>2, FS_Subset DEF Above
  <2>. QED
    BY <2>1, FS_AddElement
<1>4. CASE Cardinality(hits) < k
  <2>1. kept = hits \cup {h}
    BY <1>4 DEF Added
  <2>2. Above(kept, s) = Above(hits, s) \cup {h}
    BY <2>1 DEF Above
  <2>. QED
    BY <1>3, <2>2
<1>5. CASE ~(Cardinality(hits) < k)
  <2>1. PICK l \in hits : l.score = Lowest(hits) /\ kept = (hits \ {l}) \cup {h}
    BY <1>5 DEF Added
  <2>2. CASE l.score < s
    <3>1. Above(kept, s) = Above(hits, s) \cup {h}
      BY <1>1, <2>1, <2>2 DEF Above
    <3>. QED
      BY <1>3, <3>1
  <2>3. CASE ~(l.score < s)
    <3>1. Cardinality(hits) = k
      BY <1>1, <1>5
    <3>2. Lowest(hits) <= Threshold(hits, k, 0)
      BY <3>1, ThresholdFacts
    <3>3. Threshold(hits, k, 0) <= Threshold(kept, k, 0) /\ IsHeap(kept, docs, k)
      BY AddedFacts
    <3>4. Threshold(hits, k, 0) \in Nat /\ Threshold(kept, k, 0) \in Nat
      BY <3>3, ThresholdFacts
    <3>. QED
      BY <1>1, <2>1, <2>3, <3>2, <3>3, <3>4
  <2>. QED
    BY <2>2, <2>3
<1>. QED
  BY <1>4, <1>5
=============================================================================
