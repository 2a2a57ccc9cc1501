----------------------------- MODULE QueryPlan -----------------------------
(***************************************************************************)
(* evaluate: a query tree becomes a list of weighted posting lists, one    *)
(* for each distinct virtual term, and the search adds them up.  A virtual *)
(* term has the frequencies its operator counts and a number of documents  *)
(* of its own; an index is raw or has a model that scores.                 *)
(***************************************************************************)
EXTENDS QueryTrees, VirtualLists

CONSTANTS
  QueryIndexes,   \* lists, number of documents, positions, model, original ids
  DocShare,       \* what part of the documents a positional term is said to have
  K3, Unit        \* of the saturation of query weights

VARIABLES query, index, clauses, plan, results, outcome

Scored == index.model # "raw"

-----------------------------------------------------------------------------

\* Every operator has a child and a window is one: the first that has not decides.
RECURSIVE Invalid(_)
Invalid(node) ==
  LET wrong == {i \in DOMAIN ChildrenOf(node) : Invalid(ChildrenOf(node)[i]) # "none"}
  IN IF Childless(node) THEN "empty"
     ELSE IF node.is = "window" /\ node.width < 2 THEN "error"
     ELSE IF wrong = {} THEN "none"
     ELSE Invalid(ChildrenOf(node)[Min(wrong)])

\* Every node that is not a sum, with the product of the weights above it.
RECURSIVE Flatten(_, _)
Flatten(node, weight) ==
  CASE node.is = "combine" ->
         FlattenSeq([i \in DOMAIN node.children |->
                       Flatten(node.children[i].node, weight * node.children[i].weight)])
    [] node.is = "term" -> <<Weighted(weight * node.weight, node)>>
    [] OTHER -> <<Weighted(weight, node)>>

\* Mutant of same_clause: the weight a term has of its own tells it apart.
SameNode(a, b) == a = b

same_clause(a, b) ==
  IF a.is = "term" /\ b.is = "term" THEN a.term = b.term ELSE a = b

\* The weights of equal clauses add up.
Merged(leaves) ==
  FoldLeft(LAMBDA merged, leaf :
             LET same == {i \in DOMAIN merged : same_clause(merged[i].node, leaf.node)}
             IN IF same = {} THEN Append(merged, leaf)
                ELSE [merged EXCEPT ![Min(same)].weight = @ + leaf.weight],
           <<>>, leaves)

\* BM25's k3: weights relative to the largest, saturated.
query_weights(weights) ==
  LET most == Max({0} \cup Range(weights))
  IN IF index.model # "k3" \/ most = 0 THEN weights
     ELSE [i \in DOMAIN weights |-> ((K3 + 1) * weights[i] * Unit) \div (K3 * most + weights[i])]

-----------------------------------------------------------------------------

ListOf(term) == index.lists[term]
ListsOf(terms) == [i \in DOMAIN terms |-> ListOf(terms[i])]

Evaluated(df, list) == [is |-> "list", df |-> df, list |-> list]
Error == [is |-> "error"]

SumOf(numbers) == FoldLeft(LAMBDA sum, n : sum + n, 0, numbers)
Lengths(of) == [i \in DOMAIN of |-> Len(of[i])]

\* The list of a node before it is scored; the first child that fails, fails it.
RECURSIVE eval_raw(_)
eval_raw(node) ==
  CASE node.is = "term" -> Evaluated(Len(ListOf(node.term)), ListOf(node.term))
    [] node.is = "combine" -> Error
    [] node.is = "syn" ->
         LET lists == ListsOf(node.terms)
         IN Evaluated(SumOf(Lengths(lists)),
                      StandsFor([kind |-> "sum", lists |-> lists,
                                 weights |-> [i \in DOMAIN lists |-> 1]]))
    [] node.is = "band" ->
         LET children == [i \in DOMAIN node.children |-> eval_raw(node.children[i])]
         IN IF \E i \in DOMAIN children : children[i].is = "error" THEN Error
            ELSE Evaluated(SumOf([i \in DOMAIN children |-> children[i].df]),
                           StandsFor([kind |-> IF Scored THEN "one" ELSE "and",
                                      lists |-> [i \in DOMAIN children |-> children[i].list]]))
    [] Positional(node) /\ ~index.positions -> Error
    [] OTHER ->
         Evaluated((IF Scored THEN index.numDocs ELSE 0) \div DocShare,
                   StandsFor(IF node.is = "phrase"
                             THEN [kind |-> "phrase", lists |-> ListsOf(node.terms)]
                             ELSE [kind |-> "window", lists |-> ListsOf(node.terms),
                                   width |-> node.width]))

\* What a frequency is worth: less in a term of more documents, nothing below 0 as
\* long as there are no more than in the collection.
ScoreOf(df, tf) == (index.numDocs + 1 - df) * tf

\* Mutant of term_scorer: the number of documents as it is.
UncappedScorer(df, tf) == ScoreOf(df, tf)

\* Summed over terms, documents may be counted twice.
term_scorer(df, tf) == ScoreOf(Min({df, index.numDocs}), tf)

ScoredList(evaluated) ==
  [i \in DOMAIN evaluated.list |->
     [evaluated.list[i] EXCEPT !.value = IF Scored THEN term_scorer(evaluated.df, @) ELSE @]]

-----------------------------------------------------------------------------

PlanInit == index = <<>> /\ clauses = <<>> /\ plan = <<>> /\ results = {}

Planning == outcome = "planning"

\* The call, for some index: validate, flatten, merge.
Validate ==
  /\ outcome = "parsed" /\ index' \in QueryIndexes
  /\ outcome' = IF Invalid(query) = "none" THEN "planning" ELSE Invalid(query)
  /\ clauses' = IF Invalid(query) = "none" THEN Merged(Flatten(query, 1)) ELSE <<>>
  /\ UNCHANGED <<query, plan, results>>

\* Mutant of EvalClause: a clause that fails is left out.
EvalOrDrop ==
  /\ Planning /\ clauses # <<>>
  /\ LET evaluated == eval_raw(Head(clauses).node)
     IN /\ plan' = IF evaluated.is = "error" THEN plan
                   ELSE Append(plan, [weight |-> Head(clauses).weight, list |-> ScoredList(evaluated)])
        /\ clauses' = Tail(clauses)
        /\ UNCHANGED <<query, index, results, outcome>>

\* One clause after the other; an error ends the call.
EvalClause ==
  /\ Planning /\ clauses # <<>>
  /\ LET evaluated == eval_raw(Head(clauses).node)
     IN IF evaluated.is = "error"
        THEN outcome' = "error" /\ UNCHANGED <<clauses, plan>>
        ELSE /\ plan' = Append(plan, [weight |-> Head(clauses).weight, list |-> ScoredList(evaluated)])
             /\ clauses' = Tail(clauses)
             /\ UNCHANGED outcome
  /\ UNCHANGED <<query, index, results>>

\* The search adds up what the lists say of a document, weighted, and answers with
\* the ids the caller knows.
Search ==
  /\ Planning /\ clauses = <<>>
  /\ LET weights == query_weights([i \in DOMAIN plan |-> plan[i].weight])
         holders(d) == {i \in DOMAIN plan : d \in DocsOf(plan[i].list)}
         score(d) == AddUp(holders(d), LAMBDA i : weights[i] * PostingAt(plan[i].list, d).value)
     IN results' = {[doc |-> index.original[d], score |-> score(d)] :
                      d \in UNION {DocsOf(plan[i].list) : i \in DOMAIN plan}}
  /\ outcome' = IF plan = <<>> THEN "empty" ELSE "answered"
  /\ UNCHANGED <<query, index, clauses, plan>>

PlanNext == Validate \/ EvalClause \/ Search

-----------------------------------------------------------------------------
(***************************************************************************)
(* What a query means.                                                     *)
(***************************************************************************)
\* Every way down to a node that is not a sum, and its weight.
RECURSIVE Leaves(_)
Leaves(node) ==
  IF node.is # "combine" THEN {[path |-> <<>>, leaf |-> node, weight |-> 1]}
  ELSE UNION {{[path |-> <<i>> \o below.path, leaf |-> below.leaf,
                weight |-> node.children[i].weight * below.weight] :
                 below \in Leaves(node.children[i].node)} : i \in DOMAIN node.children}

VirtualTerm(leaf) == IF leaf.is = "term" THEN Term(leaf.term, 1) ELSE leaf

VirtualTerms == {VirtualTerm(l.leaf) : l \in Leaves(query)}

WeightOf(term) ==
  AddUp({l \in Leaves(query) : VirtualTerm(l.leaf) = term},
        LAMBDA l : l.weight * (IF l.leaf.is = "term" THEN l.leaf.weight ELSE 1))

\* The frequency of a term in a document, and its positions.
Frequency(term, d) == IF d \in DocsOf(ListOf(term)) THEN PostingAt(ListOf(term), d).value ELSE 0
PositionsIn(term, d) ==
  IF d \in DocsOf(ListOf(term)) THEN Range(PostingAt(ListOf(term), d).run) ELSE {}

\* How often a virtual term occurs in a document, by the tree.
RECURSIVE Count(_, _)
Count(node, d) ==
  CASE node.is = "term" -> Frequency(node.term, d)
    [] node.is = "syn" -> AddUp(DOMAIN node.terms, LAMBDA i : Frequency(node.terms[i], d))
    [] node.is = "band" ->
         IF \E child \in Below(node) : Count(child, d) = 0 THEN 0
         ELSE IF Scored THEN 1
         ELSE AddUp(DOMAIN node.children, LAMBDA i : Count(node.children[i], d))
    [] node.is = "phrase" ->
         Cardinality({p \in PositionsIn(node.terms[1], d) :
           \A i \in DOMAIN node.terms : p + i - 1 \in PositionsIn(node.terms[i], d)})
    [] OTHER -> WindowCount([i \in DOMAIN node.terms |->
                               InOrder(PositionsIn(node.terms[i], d))], node.width)

RECURSIVE DocumentsOf(_)
DocumentsOf(node) ==
  CASE node.is = "term" -> Len(ListOf(node.term))
    [] node.is = "syn" -> AddUp(DOMAIN node.terms, LAMBDA i : Len(ListOf(node.terms[i])))
    [] node.is = "band" -> AddUp(DOMAIN node.children, LAMBDA i : DocumentsOf(node.children[i]))
    [] OTHER -> index.numDocs \div DocShare

\* The weight of a virtual term after saturation, among those of the query.
Saturated(term) ==
  LET most == Max({WeightOf(t) : t \in VirtualTerms})
  IN IF index.model = "k3" /\ most > 0
     THEN ((K3 + 1) * WeightOf(term) * Unit) \div (K3 * most + WeightOf(term))
     ELSE WeightOf(term)

Worth(term, d) ==
  LET df == DocumentsOf(term)
  IN IF Scored THEN ScoreOf(IF df > index.numDocs THEN index.numDocs ELSE df, Count(term, d))
     ELSE Count(term, d)

Matching == {d \in DOMAIN index.original : \E t \in VirtualTerms : Count(t, d) > 0}

\* The results are those of the tree: every document some virtual term occurs in,
\* with its original id, by the sum over the distinct terms of what each is worth,
\* whatever the number of sums and weights above it and of its repetitions.
AnswersMeaning ==
  outcome = "answered" =>
    results = {[doc |-> index.original[d],
                score |-> AddUp(VirtualTerms, LAMBDA t : Saturated(t) * Worth(t, d))] : d \in Matching}

\* A query none of whose operators is empty is answered or fails, and fails exactly
\* if a sum is below another operator, positions are asked of an index without them,
\* or a window is too narrow, whatever its other clauses are and in whatever order.
FailsForAReason ==
  outcome \in {"answered", "error", "empty"} /\ ~(\E n \in Nodes(query) : Childless(n)) =>
    LET inBand == \E n \in Nodes(query) : n.is = "band" /\ \E c \in Below(n) : c.is = "combine"
        positions == \E n \in Nodes(query) : Positional(n) /\ ~index.positions
        narrow == \E n \in Nodes(query) : n.is = "window" /\ n.width < 2
    IN /\ outcome # "empty"
       /\ outcome = "error" <=> inBand \/ positions \/ narrow

\* "A clause that cannot match anything (e.g. an empty sub-tree) is dropped;
\* `EmptyQuery` ... is returned only when no clause is left" (src/src/query.rs:176):
\* a query is empty only if no clause of it could match.
EmptyOnlyWithoutClauses ==
  outcome = "empty" => \A l \in Leaves(query) : \E n \in Nodes(l.leaf) : Childless(n)

\* MaxScore and WAND prune as if nothing scored below 0: no list they are given
\* does, also of operators that count a document once for each of their terms.
NothingBelowZero ==
  \A i \in DOMAIN plan : \A j \in DOMAIN plan[i].list : plan[i].list[j].value >= 0
=============================================================================
