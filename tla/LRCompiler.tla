----------------------------- MODULE LRCompiler -----------------------------
(***************************************************************************)
(* dwd/LRcomplier.hpp, parser/ast.cpp and handlerControl.cpp: a compiler   *)
(* builds its table, then parses, displays trees and executes handlers on  *)
(* them as its client asks.                                                *)
(***************************************************************************)
EXTENDS LRParser

VARIABLE calls      \* of handlers, by the last execute: rule and input

vars == <<phase, grammarVars, kernelVars, parserVars, calls>>
-----------------------------------------------------------------------------
\* printNode reverses every node's children in place.
RECURSIVE printNode(_)
printNode(node) ==
    IF node.kind # "inter" THEN node
    ELSE InterASTNode(node.rule,
           Reverse([k \in DOMAIN node.children |-> printNode(node.children[k])]))

\* The handlers are the client's: here one outputs its input ("echo"), or
\* nothing ("consume"); "none" stands for a rule without a registered handler.
Handles(r) == rules[r].handler # "none"

\* outputNode: what a node outputs, and the calls made.  Without a handler the
\* children's outputs are dropped.
RECURSIVE outputNode(_)
outputNode(node) ==
    IF node.kind = "null" THEN [output |-> <<>>, calls |-> <<>>]
    ELSE IF node.kind = "value" THEN [output |-> <<node.value>>, calls |-> <<>>]
    ELSE LET done == [k \in DOMAIN node.children |-> outputNode(node.children[k])]
             input == FoldLeft(LAMBDA s, d : s \o d.output, <<>>, done)
             below == FoldLeft(LAMBDA s, d : s \o d.calls, <<>>, done)
         IN [output |-> IF rules[node.rule].handler = "echo" THEN input ELSE <<>>,
             calls |-> IF Handles(node.rule)
                         THEN Append(below, [rule |-> node.rule, input |-> input])
                         ELSE below]

\* ASTNode::display, also by HandlerControl::detail.
display ==
    /\ outcome = "returned"
    /\ root' = printNode(root)
    /\ UNCHANGED <<phase, grammarVars, kernelVars, tokens, currIndex, stack,
                   outcome, fed, bottom, calls>>

\* HandlerControl::execute on the tree that was returned.
execute ==
    /\ outcome = "returned"
    /\ calls' = outputNode(root).calls
    /\ UNCHANGED <<phase, grammarVars, kernelVars, parserVars>>
-----------------------------------------------------------------------------
Init == GrammarInit /\ KernelInit /\ ParserInit /\ calls = <<>>

\* Every step is one of ParserSpec, or leaves the parser alone.
Next ==
    \/ (Build \/ ParserStep) /\ UNCHANGED calls
    \/ Parse /\ calls' = <<>>
    \/ display \/ execute

Spec == Init /\ [][Next]_vars

\* The constructor and parse run in the caller's thread until they are done.
FairSpec ==
    /\ Spec
    /\ WF_vars(Build /\ UNCHANGED calls)
    /\ WF_vars(ParserStep /\ UNCHANGED calls)
-----------------------------------------------------------------------------
\* The values of a tree's leaves, in the order of the children.
RECURSIVE Leaves(_)
Leaves(node) ==
    IF node.kind = "value" THEN <<node.value>>
    ELSE IF node.kind = "null" THEN <<>>
    ELSE FoldLeft(\o, <<>>, [k \in DOMAIN node.children |-> Leaves(node.children[k])])

Identifiers ==
    SelectSeq([k \in DOMAIN inputKeys |-> k], LAMBDA k : tokens[k].type = "IDENTIFIER")

\* The tree has every identifier of the input, once and in order: backwards as
\* parse returns it, forwards after it was displayed; if the axiom is on no right
\* side, and its rule has one symbol, as only what is on top is returned.
LeavesInOrder ==
    outcome = "returned" /\ AxiomOnTop /\ Len(rules[1].development) = 1 =>
        Leaves(root) \in {Identifiers, Reverse(Identifiers)}

\* The constructor ends: both loops over the rules reach a pass that changes
\* nothing, whatever notDone forgets, and the kernels run out.
BuildEnds == <>(phase = "ready")

\* Every parse with a table without conflict returns or throws.
ParseEnds == outcome = "parsing" /\ WithoutConflict ~> outcome # "parsing"

\* dwd/test/example_5.cpp:27-29 reads name, amount and price from its handler's
\* input in the order of the rule "#Food -> #Name #Amount #Price": what a
\* handler is given is in the order of the source.
HandlersSeeSourceOrder ==
    \A c \in ToSet(calls) : \A k, l \in DOMAIN c.input :
        k < l => c.input[k] < c.input[l]
=============================================================================
