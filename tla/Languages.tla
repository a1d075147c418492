----------------------------- MODULE Languages -----------------------------
(***************************************************************************)
(* What the sets and the table of a grammar are for, by definition: the    *)
(* symbols that can begin and follow a nonterminal, which are inferred     *)
(* from the rules, and the sentences of at most a given length, grown      *)
(* until nothing is added.  A grammar is a sequence R of rules.            *)
(***************************************************************************)
EXTENDS Integers, SequencesExt

CONSTANTS EPSILON, END

LeftSides(R) == {R[r].nonTerminal : r \in DOMAIN R}

Body(r) == IF r.development = <<EPSILON>> THEN <<>> ELSE r.development

Terminals(R) == (UNION {ToSet(Body(R[r])) : r \in DOMAIN R}) \ LeftSides(R)

\* The values a relation has for A.
Of(relation, A) == {p[2] : p \in {p \in relation : p[1] = A}}

\* What follows from a set of inferences, each a conclusion and the set of its
\* premises: every round but the last concludes something new.
Inferred(inferences) ==
    LET conclusions == {i[1] : i \in inferences}
        Concluded(facts) == {i[1] : i \in {i \in inferences : i[2] \subseteq facts}}
        known[n \in 0 .. Cardinality(conclusions)] ==
          IF n = 0 THEN {} ELSE Concluded(known[n - 1])
    IN known[Cardinality(conclusions)]

\* The nonterminals that derive the empty string.
Nullable(R) ==
    Inferred({<<R[r].nonTerminal, ToSet(Body(R[r]))>> : r \in DOMAIN R})

\* The places of rules: A's rules, and a position in their bodies.
Places(R) == UNION {{r} \X DOMAIN Body(R[r]) : r \in DOMAIN R}

\* The nonterminal of a place's rule, and the symbol at it.
LeftSide(R, p) == R[p[1]].nonTerminal
SymbolAt(R, p) == Body(R[p[1]])[p[2]]

\* The symbols of a body between the positions k and l can all be empty.
Vanish(R, r, k, l) == \A m \in k + 1 .. l - 1 : Body(R[r])[m] \in Nullable(R)

\* The places of the symbols that can come first in their bodies, those that
\* can come last, and the pairs of places that can come together.
FirstPlaces(R) == {p \in Places(R) : Vanish(R, p[1], 0, p[2])}
LastPlaces(R) ==
    {p \in Places(R) : Vanish(R, p[1], p[2], Len(Body(R[p[1]])) + 1)}
NextPlaces(R) ==
    {pq \in Places(R) \X Places(R) :
       /\ pq[1][1] = pq[2][1] /\ pq[1][2] < pq[2][2]
       /\ Vanish(R, pq[1][1], pq[1][2], pq[2][2])}

\* The terminals that can begin what a symbol derives.
First(R) ==
    Inferred(
      {<<<<t, t>>, {}>> : t \in Terminals(R)} \cup
      {<<<<LeftSide(R, pt[1]), pt[2]>>, {<<SymbolAt(R, pt[1]), pt[2]>>}>> :
         pt \in FirstPlaces(R) \X Terminals(R)})

\* The terminals, and the end, that can come after a symbol.
Follow(R) ==
    LET together == UNION {{<<SymbolAt(R, pq[1]), t>> :
                              t \in Of(First(R), SymbolAt(R, pq[2]))} :
                             pq \in NextPlaces(R)}
    IN Inferred(
         {<<f, {}>> : f \in together \cup {<<R[1].nonTerminal, END>>}} \cup
         {<<<<SymbolAt(R, pt[1]), pt[2]>>, {<<LeftSide(R, pt[1]), pt[2]>>}>> :
            pt \in LastPlaces(R) \X (Terminals(R) \cup {END})})

\* The strings of at most max terminals that a body derives if its symbols
\* derive what L says.
Joined(L, body, max) ==
    LET joined[k \in 0 .. Len(body)] ==
          IF k = 0 THEN {<<>>}
          ELSE {s \in {p[1] \o p[2] : p \in joined[k - 1] \X Of(L, body[k])} :
                  Len(s) <= max}
    IN joined[Len(body)]

Grown(R, max, L) ==
    L \cup UNION {{<<R[r].nonTerminal, s>> : s \in Joined(L, Body(R[r]), max)} :
                    r \in DOMAIN R}

\* The strings of at most max terminals a symbol derives: what is known when a
\* round first adds nothing, which is before the rounds are more than the pairs.
Sentences(R, max) ==
    LET pairs == Cardinality(LeftSides(R) \X SeqOf(Terminals(R), max))
        grown[n \in 0 .. pairs + 1] ==
          IF n = 0 THEN {<<t, <<t>>>> : t \in Terminals(R)}
          ELSE Grown(R, max, grown[n - 1])
    IN grown[CHOOSE n \in 0 .. pairs : grown[n + 1] = grown[n]]
=============================================================================
