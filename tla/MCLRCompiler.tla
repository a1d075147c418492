---------------------------- MODULE MCLRCompiler ----------------------------
(***************************************************************************)
(* Small grammars in the shape of those in dwd/test and internal/test,     *)
(* every list of terminals up to a length, and short texts.                *)
(***************************************************************************)
EXTENDS LRCompiler

E == "epsilon"
R(left, right, handler) == RuleOf(left, right, handler)

\* example_5: a list without empty rules.
Orders ==
    <<R("S", <<"O">>, "none"),
      R("O", <<"F", "and", "O">>, "none"), R("O", <<"F">>, "none"),
      R("F", <<"N", "P">>, "consume"),
      R("N", <<"#ID">>, "echo"), R("P", <<"=", "#ID">>, "echo")>>

\* example_6: statements that end in a semicolon, or nothing.
Statements ==
    <<R("S", <<"Q">>, "none"),
      R("Q", <<"T", ";", "Q">>, "none"), R("Q", <<E>>, "none"),
      R("T", <<"#ID">>, "echo")>>

\* test_grammarInit_1 under a start rule: an optional symbol before another.
Optional ==
    <<R("S'", <<"S">>, "none"), R("S", <<"A", "B">>, "echo"),
      R("A", <<"a">>, "none"), R("A", <<E>>, "none"), R("B", <<"b">>, "none")>>

\* Two nonterminals for the same text.
Homonyms ==
    <<R("S'", <<"S">>, "none"),
      R("S", <<"T", "=", "V">>, "echo"), R("S", <<"V">>, "echo"),
      R("T", <<"#ID">>, "none"), R("V", <<"#ID">>, "none")>>

\* An ambiguous grammar.
Sums ==
    <<R("S", <<"X">>, "none"), R("X", <<"X", "+", "X">>, "echo"),
      R("X", <<"#ID">>, "echo")>>

\* FIRST(Y) is found late, and the empty rule at the end stops the loop before.
Late ==
    <<R("S'", <<"S">>, "none"), R("S", <<"X", "Y", "Z">>, "echo"),
      R("X", <<"#ID">>, "echo"), R("Y", <<"V">>, "none"), R("V", <<"W">>, "none"),
      R("W", <<"=">>, "none"), R("Z", <<E>>, "none")>>

\* Two symbols that can be empty and nothing to tell them apart (example_3),
\* and a symbol that could be continued by what may follow it.
Conflicts ==
    <<R("S'", <<"S">>, "none"),
      R("S", <<"P", ";">>, "none"), R("S", <<"Q", ";">>, "none"),
      R("P", <<E>>, "none"), R("Q", <<E>>, "none"),
      R("Q", <<"#ID">>, "echo"), R("Q", <<"#ID", ";">>, "echo")>>

\* A kernel of two items whose closure outgrows Capacity.
Branching ==
    <<R("S'", <<"S">>, "none"),
      R("S", <<"a", "B">>, "none"), R("S", <<"a", "C", ";">>, "echo"),
      R("B", <<"a">>, "none"), R("B", <<"#ID">>, "echo"),
      R("C", <<";">>, "none"), R("C", <<"#ID", "a">>, "echo")>>

\* Rules listed from the last to the first: FOLLOW(C) is not complete.
BottomUp ==
    <<R("S'", <<"S">>, "none"), R("C", <<"#ID">>, "echo"), R("B", <<"C">>, "echo"),
      R("A", <<"B">>, "echo"), R("S", <<"A", "a">>, "echo")>>

\* The last symbol that a pass appends to FOLLOW is not new, and what X gained
\* does not reach C, whose rule comes before that of X.
Repeats ==
    <<R("S'", <<"S">>, "none"),
      R("S", <<"A", "a">>, "none"), R("S", <<"X">>, "none"),
      R("S", <<"W">>, "none"), R("A", <<"C">>, "none"),
      R("X", <<"A", "b">>, "none"), R("C", <<"#ID">>, "echo"),
      R("W", <<"+", "A", "a">>, "none")>>

\* An axiom with two rules, the second of which no kernel has.
Alternatives ==
    <<R("S", <<"A">>, "none"), R("S", <<";">>, "none"), R("A", <<"#ID">>, "echo")>>

\* An axiom on a right side: "a a #ID ;" is accepted.
Nested == <<R("S", <<"a", "S", ";">>, "none"), R("S", <<"#ID">>, "echo")>>

\* The same at the front: "#ID a" is rejected, as the first rule's item is only
\* complete before the end marker.
LeftNested ==
    <<R("S", <<"X">>, "none"), R("X", <<"S", "a">>, "echo"), R("X", <<"#ID">>, "echo")>>

MCGrammars ==
    {Orders, Statements, Optional, Homonyms, Sums, Late, Conflicts, Branching,
     BottomUp, Repeats, Alternatives, Nested, LeftNested}

\* For the run on the handlers of example_5.
OrdersOnly == {Orders}

\* Every list of terminals that leaves room for the end marker.
MCLists(G) ==
    SeqOf((UNION {ToSet(G[r].development) : r \in DOMAIN G})
            \ ({G[r].nonTerminal : r \in DOMAIN G} \cup {E}), MaxTokens - 1)

MCLetter == {"x", "and", "a", "b"}
MCSpace == {" "}
MCStringSymbol == {"'"}
MCTOKENSYMBOL == {"=", ";", "+", "$"}

\* For one grammar, every text of at most three characters, one of no kind
\* among them.
MCTexts(G) ==
    IF G = Sums THEN SeqOf({"x", "_", " ", "'", "+", "$", ":"}, 3) ELSE {}

NoTexts(G) == {}
=============================================================================
