------------------------------ MODULE LRParser ------------------------------
(***************************************************************************)
(* dwd/parser/LRparser.cpp: one LRCompiler builds its table and parses     *)
(* texts with it, token by token.  One step is one iteration of parse's    *)
(* loop.  The stack is a member that parse never clears: what a parse      *)
(* leaves on it, ended or thrown out of, lies under that of the next.      *)
(***************************************************************************)
EXTENDS KernelGraph, LRLexer

CONSTANTS
    ID,         \* the terminal "#ID", the key of every identifier
    UNKNOWN,    \* stands for a key that is no symbol of the grammar
    MaxTokens,  \* bound: tokens given to the parser, over all calls
    NAME,       \* a word that is no terminal of any grammar
    Lists(_),   \* lists of terminals of a grammar, given to it spaced out
    Texts(_)    \* other texts given to it, as sequences of characters

ASSUME BoundAssumption == MaxTokens \in Nat

VARIABLES
    tokens, currIndex,
    stack,
    outcome,    \* of the last parse: "none", "parsing", "returned", "thrown",
                \* or "undefined", after which the program does anything
    root,       \* the tree it returned
    fed,        \* tokens given so far
    bottom      \* history: the entry that the last call of parse pushed first

parserVars == <<tokens, currIndex, stack, outcome, root, fed, bottom>>
-----------------------------------------------------------------------------
\* The stack's entries.  A node knows its rule, for its type and its handler.
Goto(state) == [kind |-> "goto", state |-> state]
Terminal(key) == [kind |-> "terminal", key |-> key]
ValueASTNode(value) == [kind |-> "value", value |-> value]
InterASTNode(r, children) == [kind |-> "inter", rule |-> r, children |-> children]
nullptr == [kind |-> "null"]

IsASTNode(entry) == entry.kind \in {"value", "inter"}

top == Last(stack)
Popped(n) == SubSeq(stack, 1, Len(stack) - n)
-----------------------------------------------------------------------------
ParserInit ==
    /\ tokens = <<>> /\ currIndex = 1
    /\ stack = <<>>
    /\ outcome = "none" /\ root = nullptr /\ fed = 0 /\ bottom = 0

\* What the lexer made of a text is handed to parse.
parse(lexed) ==
    /\ phase = "ready" /\ outcome \notin {"parsing", "undefined"}
    /\ fed' = fed + Max({1, Len(lexed.tokens)})
    /\ fed' <= MaxTokens
    /\ tokens' = lexed.tokens
    /\ currIndex' = 1
    /\ IF lexed.undefined
         THEN outcome' = "undefined" /\ UNCHANGED <<stack, bottom>>
         ELSE /\ outcome' = IF lexed.tokens = <<>> THEN "thrown" ELSE "parsing"
              /\ stack' = Append(stack, Goto(1))
              /\ bottom' = Len(stack) + 1
    /\ root' = nullptr
    /\ UNCHANGED <<phase, grammarVars, kernelVars>>

\* The key of a token, by which the table is asked.
keyOf(t) ==
    IF t.type = "IDENTIFIER" THEN ID
    ELSE IF Len(t.value) = 1 THEN Head(t.value) ELSE UNKNOWN

Reads == outcome = "parsing" /\ currIndex <= Len(tokens)
token == keyOf(tokens[currIndex])
state == states[top.state]

Does(kind) ==
    /\ Reads
    /\ token \in DOMAIN state.lrAction
    /\ state.lrAction[token].kind = kind

\* The loop goes on up to currIndex = tokens->size(), which is read too.
ReadPastEnd ==
    /\ outcome = "parsing" /\ currIndex = Len(tokens) + 1
    /\ outcome' = "undefined"
    /\ UNCHANGED <<phase, grammarVars, kernelVars, tokens, currIndex, stack,
                   root, fed, bottom>>

action == state.lrAction[token]

\* An identifier's value is its position, so that all differ.
shift ==
    /\ Does("shift")
    /\ stack' = stack \o <<IF tokens[currIndex].type = "IDENTIFIER"
                            THEN ValueASTNode(currIndex) ELSE Terminal(token),
                           Goto(action.n)>>
    /\ currIndex' = currIndex + 1
    /\ UNCHANGED <<phase, grammarVars, kernelVars, tokens, outcome, root, fed, bottom>>

\* The state below the node; a nonterminal it has no goto for leads to 0.
goTo(below, node, nonTerminal) ==
    LET gotos == states[Last(below).state].lrGoto
        next == IF nonTerminal \in DOMAIN gotos THEN gotos[nonTerminal] ELSE 1
    IN below \o <<node, Goto(next)>>

reducedRule == rules[action.n]

\* Mutant: the child read first is left out.
poppedNodes_LosesFirst ==
    LET n == Len(reducedRule.development)
    IN SelectSeq([k \in 1 .. n - 1 |-> stack[Len(stack) - 2 * k + 1]], IsASTNode)

\* The entries under the gotos that are popped, the last first.
poppedNodes ==
    LET n == Len(reducedRule.development)
        entries == [k \in 1 .. n |-> stack[Len(stack) - 2 * k + 1]]
    IN SelectSeq(entries, IsASTNode)

\* Mutant: an empty rule pops the two entries of EPSILON.
reduce_PopsEpsilon ==
    /\ Does("reduce")
    /\ stack' = goTo(Popped(2 * Len(reducedRule.development)),
                   IF IsEpsilonRule(reducedRule) THEN nullptr
                     ELSE InterASTNode(action.n, poppedNodes),
                   reducedRule.nonTerminal)
    /\ UNCHANGED <<phase, grammarVars, kernelVars, tokens, currIndex, outcome,
                   root, fed, bottom>>

reduce ==
    /\ Does("reduce")
    /\ stack' =
         IF IsEpsilonRule(reducedRule)
           THEN goTo(stack, nullptr, reducedRule.nonTerminal)
           ELSE goTo(Popped(2 * Len(reducedRule.development)),
                     InterASTNode(action.n, poppedNodes),
                     reducedRule.nonTerminal)
    /\ UNCHANGED <<phase, grammarVars, kernelVars, tokens, currIndex, outcome,
                   root, fed, bottom>>

\* Only the goto is popped; what is under it is returned if it is a node.
accept ==
    /\ Does("accept")
    /\ stack' = Popped(1)
    /\ root' = IF IsASTNode(Last(Popped(1))) THEN Last(Popped(1)) ELSE nullptr
    /\ outcome' = "returned"
    /\ UNCHANGED <<phase, grammarVars, kernelVars, tokens, currIndex, fed, bottom>>

\* Mutant: lrAction[tokenKey] without isElement makes an entry that does nothing.
throw_Goes_On ==
    /\ Reads
    /\ token \notin DOMAIN state.lrAction
    /\ UNCHANGED <<phase, grammarVars, kernelVars, parserVars>>

throw ==
    /\ Reads
    /\ token \notin DOMAIN state.lrAction
    /\ outcome' = "thrown"
    /\ UNCHANGED <<phase, grammarVars, kernelVars, tokens, currIndex, stack,
                   root, fed, bottom>>

ParserStep == shift \/ reduce \/ accept \/ throw \/ ReadPastEnd
-----------------------------------------------------------------------------
Build ==
    /\ \/ GrammarStep /\ UNCHANGED kernelVars
       \/ KernelStep
    /\ UNCHANGED parserVars

\* Lists are of names and of terminals that are a word or a symbol.
ASSUME TextsAssumption ==
    /\ Space # {} /\ NAME \in Letter
    /\ \A R \in Grammars :
         /\ NAME \notin TerminalsOf(R)
         /\ \A text \in Texts(R) : text \in Seq(ToSet(text))
         /\ Lists(R) \subseteq
              Seq({ID} \cup (TerminalsOf(R) \cap (Letter \cup TOKENSYMBOL)))

space == CHOOSE c \in Space : TRUE

\* A list as a text: every terminal, or a name for "#ID", before a space.
Spaced(list) ==
    LET word(t) == IF t = ID THEN NAME ELSE t
    IN [k \in 1 .. 2 * Len(list) |->
          IF k % 2 = 0 THEN space ELSE word(list[(k + 1) \div 2])]

\* By grammar, computed once: what its lexer makes of the texts.
LexedOf ==
    [R \in Grammars |->
       {tokenize(TerminalsOf(R), text) :
          text \in {Spaced(list) : list \in Lists(R)} \cup Texts(R)}]

Parse == \E lexed \in LexedOf[rules] : parse(lexed)

\* What the client does with a tree may change the tree, and nothing else.
ClientStep ==
    /\ outcome = "returned"
    /\ UNCHANGED <<phase, grammarVars, kernelVars, tokens, currIndex, stack,
                   outcome, fed, bottom>>

\* The compiler's table and parser, whatever LRCompiler and its client do.
ParserSpec ==
    /\ GrammarInit /\ KernelInit /\ ParserInit
    /\ [][Build \/ Parse \/ ParserStep \/ ClientStep]_
          <<phase, grammarVars, kernelVars, parserVars>>
-----------------------------------------------------------------------------
\* An entry of the stack stands for the symbol X.
Spells(entry, X) ==
    \/ entry = Terminal(X)
    \/ entry.kind = "value" /\ X = ID
    \/ entry.kind = "inter" /\ X = rules[entry.rule].nonTerminal
    \/ /\ entry = nullptr
       /\ \E r \in DOMAIN rules :
            rules[r].nonTerminal = X /\ IsEpsilonRule(rules[r])

\* The entries at k, k + 1 and k + 2 follow a goto of the automaton.
Follows(k) ==
    LET gotos == kernels[stack[k].state].gotos
    IN \E X \in DOMAIN gotos : /\ Spells(stack[k + 1], X)
                               /\ stack[k + 2] = Goto(gotos[X])

\* What parse has pushed leads from state 0 along the gotos of the automaton,
\* and a reduction finds the symbols of its rule on top.
StackIsPath ==
    outcome = "parsing" =>
        /\ stack[bottom] = Goto(1)
        /\ \E depth \in 0 .. Len(stack) :
             /\ Len(stack) = bottom + 2 * depth
             /\ \A m \in 0 .. depth - 1 : Follows(bottom + 2 * m)
        /\ Does("reduce") /\ ~ IsEpsilonRule(reducedRule) =>
             LET n == Len(reducedRule.development)
             IN /\ Len(stack) - bottom >= 2 * n
                /\ \A k \in 1 .. n :
                     Spells(stack[Len(stack) - 2 * (n - k) - 1],
                            reducedRule.development[k])

\* A list of terminals with spaces between them is read as that list, whatever
\* words and symbols it is made of.
SpacedListsExact ==
    phase = "ready" /\ outcome = "none" => \A list \in Lists(rules) :
        LET lexed == tokenize(terminals, Spaced(list))
        IN /\ ~ lexed.undefined
           /\ [k \in DOMAIN lexed.tokens |-> keyOf(lexed.tokens[k])]
                = IF list = <<>> THEN <<>> ELSE Append(list, END)

\* The lexer and the parser stay inside the vector of tokens, unless the text
\* begins with a character of no kind, or ends in the end marker in quotes.
TokensSuffice ==
    outcome = "undefined" =>
        \/ tokens = <<>>
        \/ Last(tokens) = Token("IDENTIFIER", <<END>>)

\* By grammar, computed once.
SentencesOf == [R \in Grammars |-> Sentences(R, MaxTokens)]

\* What the parser is given: the keys before the first end marker.
inputKeys ==
    LET lexed == [k \in DOMAIN tokens |-> keyOf(tokens[k])]
        ends == {k \in DOMAIN lexed : lexed[k] = END}
    IN IF ends = {} THEN lexed ELSE SubSeq(lexed, 1, Min(ends) - 1)

IsSentence == inputKeys \in Of(SentencesOf[rules], axiom)

\* parse accepts wherever the first rule has been read to its end.
AxiomOnTop == \A r \in DOMAIN rules : axiom \notin ToSet(rules[r].development)

\* If the axiom is on no right side, parse returns only after a sentence of the
\* grammar, whatever the sets, the conflicts and the missing items its table was
\* built with, and whatever an earlier parse left on the stack.
AcceptsOnlySentences == outcome = "returned" /\ AxiomOnTop => IsSentence

\* A table with every item, without conflict and with complete FOLLOW sets.
ClosuresComplete ==
    \A k \in DOMAIN kernels : \A c \in kernels[k].closure :
        ~ AtEnd(c) => \A r \in getRulesForNonterminal(AfterDot(c)) :
            \E d \in kernels[k].closure : d.rule = r /\ d.dotIndex = 0

ShiftsComplete ==
    \A k \in DOMAIN kernels : \A c \in kernels[k].closure :
        ~ AtEnd(c) /\ AfterDot(c) # EPSILON =>
            \E d \in kernels[kernels[k].gotos[AfterDot(c)]].items :
                d.rule = c.rule /\ d.dotIndex = c.dotIndex + 1

WithoutConflict ==
    \A k \in DOMAIN kernels : \A c \in kernels[k].closure : Reducible(c) =>
        /\ c.lookAheads \cap DOMAIN kernels[k].gotos = {}
        /\ \A d \in kernels[k].closure :
             Reducible(d) /\ d # c => c.lookAheads \cap d.lookAheads = {}

TableIsSound ==
    phase = "ready" /\ ClosuresComplete /\ ShiftsComplete /\ WithoutConflict
      /\ FollowsComplete

\* The first kernel begins with the first rule alone.
AxiomHasOneRule == getRulesForNonterminal(axiom) = {1}

\* With such a table parse rejects no sentence but the empty one, if the axiom
\* is the left side of the first rule and nothing else.
RejectsNoSentence ==
    outcome = "thrown" /\ TableIsSound /\ AxiomHasOneRule /\ AxiomOnTop =>
        tokens = <<>> \/ ~ IsSentence
=============================================================================
