------------------------------ MODULE Grammar ------------------------------
(***************************************************************************)
(* dwd/internal/grammar.cpp: the rules of a grammar and its FIRST and      *)
(* FOLLOW sets, computed by two loops over the rules that are repeated     *)
(* until notDone says that nothing changed.  One step is one rule for      *)
(* FIRST and one symbol of a rule for FOLLOW.  A map entry that is missing *)
(* is an empty set here: the code treats both alike.                       *)
(***************************************************************************)
EXTENDS Languages

CONSTANT Grammars   \* the grammars compiled, as sequences of rules

\* Rules are distinct, and the end marker is no symbol of a grammar.
ASSUME GrammarsAssumption ==
    /\ EPSILON # END
    /\ \A R \in Grammars :
         /\ R \in Seq(ToSet(R)) /\ R # <<>>
         /\ \A r, s \in DOMAIN R :
              /\ R[r].nonTerminal = R[s].nonTerminal
              /\ R[r].development = R[s].development
              => r = s
         /\ \A r \in DOMAIN R :
              /\ R[r].development \in Seq(ToSet(R[r].development))
              /\ R[r].development # <<>>
              /\ END \notin ToSet(R[r].development)

\* EPSILON is the whole right side of a rule, and no left side.
ASSUME EpsilonAssumption ==
    \A R \in Grammars : \A r \in DOMAIN R :
        /\ R[r].nonTerminal # EPSILON
        /\ EPSILON \in ToSet(R[r].development) => R[r].development = <<EPSILON>>

VARIABLES
    rules,
    phase,          \* what the constructor of LRCompiler is at, then "ready"
    firsts, follows,
    ruleIndex,      \* i and
    position,       \* j of the loops
    notDone

grammarVars == <<rules, firsts, follows, ruleIndex, position, notDone>>
-----------------------------------------------------------------------------
\* A rule, and what its handler does (see LRCompiler).
RuleOf(nonTerminal, development, handler) ==
    [nonTerminal |-> nonTerminal, development |-> development,
     handler |-> handler]

nonTerminals == {rules[r].nonTerminal : r \in DOMAIN rules}

TerminalsOf(R) ==
    (UNION {ToSet(R[r].development) : r \in DOMAIN R})
      \ ({R[r].nonTerminal : r \in DOMAIN R} \cup {EPSILON})

terminals == TerminalsOf(rules)

alphabet == nonTerminals \cup terminals

axiom == rules[1].nonTerminal

rule == rules[ruleIndex]

IsEpsilonRule(r) == r.development = <<EPSILON>>
-----------------------------------------------------------------------------
GrammarInit ==
    /\ rules \in Grammars
    /\ phase = "firsts"
    /\ firsts = [s \in alphabet \cup {EPSILON} |-> {}]
    /\ follows = [s \in alphabet |-> {}]
    /\ ruleIndex = 1 /\ position = 1 /\ notDone = FALSE

\* initializeFirsts for a rule that derives nothing; notDone forgets what the
\* rules before it changed.
FirstsOfEpsilonRule ==
    /\ phase = "firsts" /\ ruleIndex <= Len(rules) /\ IsEpsilonRule(rule)
    /\ firsts' = [firsts EXCEPT ![rule.nonTerminal] = @ \cup {EPSILON}]
    /\ notDone' = (EPSILON \notin firsts[rule.nonTerminal])
    /\ ruleIndex' = ruleIndex + 1
    /\ UNCHANGED <<rules, phase, follows, position>>

\* One symbol of collectDevelopmentFirsts: the next one is looked at if this
\* one can be empty.  The result of a terminal replaces that of the symbols
\* before it.
CollectSymbol(acc, symbol) ==
    LET known == acc.firsts[rule.nonTerminal]
        found == IF symbol \in terminals THEN {symbol} ELSE acc.firsts[symbol]
        changed == ~ (found \subseteq known)
    IN IF ~ acc.more THEN acc
       ELSE [firsts |-> [acc.firsts EXCEPT ![rule.nonTerminal] = known \cup found],
             result |-> changed \/ (acc.result /\ symbol \notin terminals),
             more |-> EPSILON \in found]

\* If all symbols can be empty, EPSILON has come with the last of them.
collected ==
    LET acc[k \in 0 .. Len(rule.development)] ==
          IF k = 0 THEN [firsts |-> firsts, result |-> FALSE, more |-> TRUE]
          ELSE CollectSymbol(acc[k - 1], rule.development[k])
    IN acc[Len(rule.development)]

\* Mutant: a rule that adds nothing hides that one before it did.
FirstsOfRule_Forgets ==
    /\ phase = "firsts" /\ ruleIndex <= Len(rules) /\ ~ IsEpsilonRule(rule)
    /\ firsts' = collected.firsts
    /\ notDone' = collected.result
    /\ ruleIndex' = ruleIndex + 1
    /\ UNCHANGED <<rules, phase, follows, position>>

\* initializeFirsts for any other rule.
FirstsOfRule ==
    /\ phase = "firsts" /\ ruleIndex <= Len(rules) /\ ~ IsEpsilonRule(rule)
    /\ firsts' = collected.firsts
    /\ notDone' = (collected.result \/ notDone)
    /\ ruleIndex' = ruleIndex + 1
    /\ UNCHANGED <<rules, phase, follows, position>>

\* A pass over the rules for FOLLOW begins with the end marker.
FollowsPass ==
    /\ follows' = [follows EXCEPT ![axiom] = @ \cup {END}]
    /\ notDone' = (END \notin follows[axiom])

\* Mutant: a pass does not begin with notDone false.
FirstsPassEnds_NeverDone ==
    /\ phase = "firsts" /\ ruleIndex > Len(rules)
    /\ IF notDone THEN phase' = phase /\ UNCHANGED <<follows, notDone>>
                  ELSE phase' = "follows" /\ FollowsPass
    /\ ruleIndex' = 1
    /\ UNCHANGED <<rules, firsts, position>>

FirstsPassEnds ==
    /\ phase = "firsts" /\ ruleIndex > Len(rules)
    /\ IF notDone THEN phase' = phase /\ follows' = follows /\ notDone' = FALSE
                  ELSE phase' = "follows" /\ FollowsPass
    /\ ruleIndex' = 1
    /\ UNCHANGED <<rules, firsts, position>>
-----------------------------------------------------------------------------
\* Mutant: the empty sequence is not said to be empty.
SquenceFirsts_EmptyForgotten(sequence) ==
    LET FirstsOf(s) == IF s \in terminals THEN {s} ELSE firsts[s]
        MayBeEmpty(s) == s \notin terminals
                           /\ (EPSILON \in firsts[s] \/ firsts[s] = {})
    IN UNION {FirstsOf(sequence[k]) : k \in
                {k \in DOMAIN sequence :
                   \A l \in 1 .. k - 1 : MayBeEmpty(sequence[l])}}

\* getSquenceFirsts: a symbol without a FIRST set counts as empty, and EPSILON
\* is found as soon as one symbol can be empty.
SquenceFirsts(sequence) ==
    LET FirstsOf(s) == IF s \in terminals THEN {s} ELSE firsts[s]
        MayBeEmpty(s) == s \notin terminals
                           /\ (EPSILON \in firsts[s] \/ firsts[s] = {})
        seen == {k \in DOMAIN sequence :
                   \A l \in 1 .. k - 1 : MayBeEmpty(sequence[l])}
    IN (UNION {FirstsOf(sequence[k]) : k \in seen})
         \cup (IF \A k \in DOMAIN sequence : MayBeEmpty(sequence[k])
                 THEN {EPSILON} ELSE {})

symbol == rule.development[position]
after == SquenceFirsts(SubSeq(rule.development, position + 1,
                              Len(rule.development)))

\* What FOLLOW(symbol) gains: the symbols that may come next, and what follows
\* the rule's left side if the rest can be empty.
direct == after \ {EPSILON}
inherited == IF EPSILON \in after THEN follows[rule.nonTerminal] ELSE {}

\* notDone is the result of the last append.  The sets are unordered, so this
\* may be that of any symbol of direct, then appended after what is inherited,
\* or of any that is inherited.
LastAppends ==
    LET known == follows[symbol]
        late == IF EPSILON \in after THEN follows'[rule.nonTerminal] ELSE {}
    IN IF direct \cup late = {} THEN {notDone}
       ELSE {s \notin known \cup inherited : s \in direct}
              \cup {s \notin known \cup direct : s \in late}

FollowsOfSymbol ==
    /\ phase = "follows" /\ ruleIndex <= Len(rules)
    /\ position <= Len(rule.development)
    /\ IF symbol \in nonTerminals
         THEN /\ follows' = [follows EXCEPT ![symbol] = @ \cup direct \cup inherited]
              /\ notDone' \in LastAppends
         ELSE UNCHANGED <<follows, notDone>>
    /\ position' = position + 1
    /\ UNCHANGED <<rules, phase, firsts, ruleIndex>>

FollowsRuleEnds ==
    /\ phase = "follows" /\ ruleIndex <= Len(rules)
    /\ position > Len(rule.development)
    /\ ruleIndex' = ruleIndex + 1 /\ position' = 1
    /\ UNCHANGED <<rules, phase, firsts, follows, notDone>>

FollowsPassEnds ==
    /\ phase = "follows" /\ ruleIndex > Len(rules)
    /\ IF notDone THEN phase' = phase /\ FollowsPass
                  ELSE phase' = "closure" /\ UNCHANGED <<follows, notDone>>
    /\ ruleIndex' = 1
    /\ UNCHANGED <<rules, firsts, position>>

GrammarStep ==
    \/ FirstsOfEpsilonRule \/ FirstsOfRule \/ FirstsPassEnds
    \/ FollowsOfSymbol \/ FollowsRuleEnds \/ FollowsPassEnds
-----------------------------------------------------------------------------
\* By grammar, computed once.
FirstOf == [R \in Grammars |-> First(R)]
FollowOf == [R \in Grammars |-> Follow(R)]

\* The FIRST sets of a grammar without empty rules are complete, and hold
\* nothing else, when their loop ends, whatever the order of the rules.
FirstsExact ==
    phase # "firsts" /\ (\A r \in DOMAIN rules : ~ IsEpsilonRule(rules[r])) =>
        \A A \in nonTerminals : firsts[A] = Of(FirstOf[rules], A)

\* Rules are listed top-down: a rule that ends in another nonterminal, but for
\* what can be empty after it, comes after all that mention its left side.
ListedTopDown ==
    \A r, s \in DOMAIN rules : \A k \in DOMAIN rules[r].development :
        /\ rules[r].development[k] \in nonTerminals \ {rules[r].nonTerminal}
        /\ \A l \in k + 1 .. Len(rules[r].development) :
             rules[r].development[l] \in Nullable(rules)
        /\ rules[r].nonTerminal \in ToSet(rules[s].development)
        => s <= r

FirstsComplete ==
    \A A \in nonTerminals :
        Of(FirstOf[rules], A)
          \cup (IF A \in Nullable(rules) THEN {EPSILON} ELSE {})
        \subseteq firsts[A]

FollowsComplete ==
    \A A \in nonTerminals : Of(FollowOf[rules], A) \subseteq follows[A]

\* Although notDone only tells of the last append, no symbol is missing from
\* FOLLOW if the rules are listed top-down and FIRST misses none.
FollowsReachTopDown ==
    phase \notin {"firsts", "follows"} /\ ListedTopDown /\ FirstsComplete
      => FollowsComplete
=============================================================================
