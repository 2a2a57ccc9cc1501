------------------------------ MODULE Matchop ------------------------------
(***************************************************************************)
(* parse_matchop: the tokens of a query are read one by one; the operators *)
(* not closed yet are on a stack.  A word is a term of the index, a stop   *)
(* word, which is skipped, or unknown.                                     *)
(***************************************************************************)
EXTENDS QueryTrees, SequencesExt, FiniteSetsExt

CONSTANTS
  Texts,     \* what is parsed, in tokens
  Resolve    \* what a word is to the index

VARIABLES tokens, pos, stack, query, outcome

vars == <<tokens, pos, stack, query, outcome>>

-----------------------------------------------------------------------------

ListsTerms(token) == token.is \in {"syn", "phrase", "window"}

WellFormed(token) ==
  CASE token.is = "combine" -> token.wellFormed
    [] token.is = "window" -> token.width >= 2
    [] OTHER -> token.is # "#"

Peek == IF pos <= Len(tokens) THEN tokens[pos] ELSE [is |-> "end"]
Ahead == IF pos < Len(tokens) THEN tokens[pos + 1] ELSE [is |-> "end"]

\* A parenthesis that opens nothing is a word like another.
IsWord == Peek.is \in {"word", "("}

-----------------------------------------------------------------------------

\* What parsing a node comes to.
Node(node) == [is |-> "node", node |-> node]
Skip == [is |-> "skip"]
Fail == [is |-> "fail"]

\* The query as a whole is a sum without weights.
TopLevel == CombineOf(<<>>)

Frame(token) == [token |-> token, children |-> <<>>, ix |-> 0, terms |-> <<>>, whole |-> TRUE]

\* The last weight given for a place counts.
WeightAt(frame) ==
  LET given == {i \in DOMAIN frame.token.weights : frame.token.weights[i].index = frame.ix}
  IN IF frame.token.is # "combine" \/ given = {} THEN 1 ELSE frame.token.weights[Max(given)].weight

\* Mutant of Delivered: places are counted among the children that are kept.
DeliveredInPlaceKept(frame, parsed) ==
  [frame EXCEPT
    !.children = IF parsed.is = "node" THEN Append(@, Weighted(WeightAt(frame), parsed.node)) ELSE @,
    !.ix = IF parsed.is = "node" THEN @ + 1 ELSE @,
    !.whole = @ /\ ~(frame.token.is = "band" /\ parsed.is = "fail")]

\* A child takes its place, also when it is dropped; #band needs all it names.
Delivered(frame, parsed) ==
  [frame EXCEPT
    !.children = IF parsed.is = "node" THEN Append(@, Weighted(WeightAt(frame), parsed.node)) ELSE @,
    !.ix = @ + 1,
    !.whole = @ /\ ~(frame.token.is = "band" /\ parsed.is = "fail")]

\* #syn drops the words it does not know, the positional operators need all.
Listed(frame, resolved) ==
  [frame EXCEPT
    !.terms = IF resolved.is = "term" THEN Append(@, resolved.term) ELSE @,
    !.whole = @ /\ (frame.token.is # "syn" => resolved.is # "unknown")]

\* What an operator is once closed: nothing if nothing is left in it.
Closed(frame) ==
  LET op == frame.token.is
      nodes == [i \in DOMAIN frame.children |-> frame.children[i].node]
  IN IF ~frame.whole \/ (frame.children = <<>> /\ frame.terms = <<>>) THEN Fail
     ELSE Node(CASE op = "combine" -> Combine(frame.children)
                 [] op = "band" -> Band(nodes)
                 [] op = "syn" -> Syn(frame.terms)
                 [] op = "phrase" -> Phrase(frame.terms)
                 [] op = "window" -> Window(frame.terms, frame.token.width))

Top == Last(stack)
Outer == Front(stack)

-----------------------------------------------------------------------------

Init ==
  /\ tokens \in Texts /\ pos = 1
  /\ stack = <<Frame(TopLevel)>> /\ query = Combine(<<>>)
  /\ outcome = "parsing"

Parsing == outcome = "parsing"

Malformed == outcome' = "malformed" /\ UNCHANGED <<tokens, pos, stack, query>>

\* parse_node on a word.
ReadTerm ==
  /\ Parsing /\ IsWord /\ ~ListsTerms(Top.token)
  /\ LET resolved == Resolve[Peek.word]
         parsed == CASE resolved.is = "term" -> Node(Term(resolved.term, 1))
                     [] resolved.is = "stopword" -> Skip
                     [] OTHER -> Fail
     IN stack' = Append(Outer, Delivered(Top, parsed))
  /\ pos' = pos + 1
  /\ UNCHANGED <<tokens, query, outcome>>

\* parse_term_list_drop_unresolved and parse_term_list_all_or_none.
ReadListed ==
  /\ Parsing /\ IsWord /\ ListsTerms(Top.token)
  /\ stack' = Append(Outer, Listed(Top, Resolve[Peek.word]))
  /\ pos' = pos + 1
  /\ UNCHANGED <<tokens, query, outcome>>

\* parse_op: what the operator says is looked at before the parenthesis is.
OpenOperator ==
  /\ Parsing /\ Peek.is \in Operators /\ ~ListsTerms(Top.token)
  /\ IF WellFormed(Peek) /\ Ahead = Open
     THEN /\ stack' = Append(stack, Frame(Peek)) /\ pos' = pos + 2
          /\ UNCHANGED <<tokens, query, outcome>>
     ELSE Malformed

OperatorInList == Parsing /\ Peek.is \in Operators /\ ListsTerms(Top.token) /\ Malformed

CloseOperator ==
  /\ Parsing /\ Peek = Close /\ Len(stack) > 1
  /\ stack' = Append(Front(Outer), Delivered(Last(Outer), Closed(Top)))
  /\ pos' = pos + 1
  /\ UNCHANGED <<tokens, query, outcome>>

\* The text ends within an operator, or goes on after the query.
Unbalanced ==
  /\ Parsing
  /\ (Peek.is = "end" /\ Len(stack) > 1) \/ (Peek = Close /\ Len(stack) = 1)
  /\ Malformed

\* A single node is the query itself.
Finish ==
  /\ Parsing /\ Peek.is = "end" /\ Len(stack) = 1
  /\ query' = IF Len(Top.children) = 1 THEN Top.children[1].node ELSE Combine(Top.children)
  /\ outcome' = "parsed"
  /\ UNCHANGED <<tokens, pos, stack>>

Next ==
  ReadTerm \/ ReadListed \/ OpenOperator \/ OperatorInList \/ CloseOperator \/ Unbalanced \/ Finish

Spec == Init /\ [][Next]_vars

-----------------------------------------------------------------------------
(***************************************************************************)
(* What the text says, by its parentheses alone.                           *)
(***************************************************************************)
OperatorsAt == {i \in DOMAIN tokens : tokens[i].is \in Operators}
ClosedAt == {i \in DOMAIN tokens : tokens[i] = Close}

\* The operators open before place i, the innermost last.
OpenAt(i) ==
  {o \in OperatorsAt : /\ o < i
                       /\ \A j \in o .. i - 1 :
                            Cardinality(OperatorsAt \cap o .. j) > Cardinality(ClosedAt \cap o .. j)}

Opens(i) == i > 1 /\ tokens[i] = Open /\ i - 1 \in OperatorsAt

Grammatical ==
  /\ Cardinality(OperatorsAt) = Cardinality(ClosedAt)
  /\ \A i \in DOMAIN tokens :
       Cardinality(OperatorsAt \cap 1 .. i) >= Cardinality(ClosedAt \cap 1 .. i)
  /\ \A o \in OperatorsAt :
       /\ WellFormed(tokens[o]) /\ o < Len(tokens) /\ tokens[o + 1] = Open
       /\ OpenAt(o) # {} => ~ListsTerms(tokens[Max(OpenAt(o))])

\* The places of what is right within the operator at o, or of the query itself.
Parts(o) ==
  LET within(i) == IF o = 0 THEN OpenAt(i) = {} ELSE OpenAt(i) # {} /\ Max(OpenAt(i)) = o
  IN SelectSeq([i \in DOMAIN tokens |-> i],
               LAMBDA i : within(i) /\ tokens[i] # Close /\ ~Opens(i))

RECURSIVE Says(_)
Says(i) ==
  LET token == IF i = 0 THEN TopLevel ELSE tokens[i]
      parts == Parts(i)
      weights(p) == {w \in DOMAIN token.weights : token.weights[w].index = p - 1}
      kept == SelectSeq([p \in DOMAIN parts |-> p], LAMBDA p : Says(parts[p]).is = "node")
      nodes == [k \in DOMAIN kept |-> Says(parts[kept[k]]).node]
      terms == [k \in DOMAIN nodes |-> nodes[k].term]
      unknown == \E p \in DOMAIN parts : Says(parts[p]).is = "fail"
  IN CASE token.is \in {"word", "("} ->
            (CASE Resolve[token.word].is = "term" -> Node(Term(Resolve[token.word].term, 1))
               [] Resolve[token.word].is = "stopword" -> Skip
               [] OTHER -> Fail)
       [] nodes = <<>> -> Fail
       [] token.is = "combine" ->
            Node(Combine([k \in DOMAIN kept |->
                   Weighted(IF weights(kept[k]) = {} THEN 1 ELSE token.weights[Max(weights(kept[k]))].weight,
                            nodes[k])]))
       [] token.is = "syn" -> Node(Syn(terms))
       [] unknown -> Fail
       [] token.is = "band" -> Node(Band(nodes))
       [] token.is = "phrase" -> Node(Phrase(terms))
       [] token.is = "window" -> Node(Window(terms, token.width))

\* What is not grammatical is refused, and nothing else: parentheses that do not
\* match, an operator where words are listed, one that is unknown or malformed.
\* The tree is the one the text stands for: weights are those of the places in the
\* text, stop words are skipped, an unknown word takes with it the operators that
\* need it, up to the sums that do not.
ParsedAsWritten ==
  /\ outcome = "malformed" => ~Grammatical
  /\ outcome = "parsed" =>
       /\ Grammatical
       /\ LET whole == Says(0)
          IN CASE whole.is # "node" -> query = Combine(<<>>)
               [] Len(whole.node.children) = 1 -> query = whole.node.children[1].node
               [] OTHER -> query = whole.node
=============================================================================
