----------------------------- MODULE QueryTrees -----------------------------
(***************************************************************************)
(* Query trees (QueryNode): terms, weighted sums, and the operators that   *)
(* make one virtual term of several.                                       *)
(***************************************************************************)
EXTENDS Naturals, Sequences

Term(term, weight) == [is |-> "term", term |-> term, weight |-> weight]
Combine(children) == [is |-> "combine", children |-> children]   \* pairs of a weight and a node
Syn(terms) == [is |-> "syn", terms |-> terms]
Band(children) == [is |-> "band", children |-> children]
Phrase(terms) == [is |-> "phrase", terms |-> terms]
Window(terms, width) == [is |-> "window", terms |-> terms, width |-> width]

Weighted(weight, node) == [weight |-> weight, node |-> node]

Positional(node) == node.is \in {"phrase", "window"}

\* The nodes right below a node, in their order.
ChildrenOf(node) ==
  CASE node.is = "combine" -> [i \in DOMAIN node.children |-> node.children[i].node]
    [] node.is = "band" -> node.children
    [] OTHER -> <<>>

Below(node) == {ChildrenOf(node)[i] : i \in DOMAIN ChildrenOf(node)}

\* A node and all below it.
RECURSIVE Nodes(_)
Nodes(node) == {node} \cup UNION {Nodes(child) : child \in Below(node)}

Childless(node) ==
  CASE node.is = "term" -> FALSE
    [] node.is \in {"combine", "band"} -> node.children = <<>>
    [] OTHER -> node.terms = <<>>

-----------------------------------------------------------------------------
(***************************************************************************)
(* The tokens of a query text.                                             *)
(***************************************************************************)
Word(word) == [is |-> "word", word |-> word]
Open == [is |-> "(", word |-> "("]
Close == [is |-> ")"]

\* #combine has the weights of some of its places, as far as they are well-formed,
\* and #uwN a width; "#" is any other operator.
Operators == {"combine", "syn", "band", "phrase", "window", "#"}

CombineOf(weights) == [is |-> "combine", weights |-> weights, wellFormed |-> TRUE]
MalformedCombine == [is |-> "combine", weights |-> <<>>, wellFormed |-> FALSE]
Plain(name) == [is |-> name]
WindowOf(width) == [is |-> "window", width |-> width]
=============================================================================
