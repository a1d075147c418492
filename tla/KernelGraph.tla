---------------------------- MODULE KernelGraph ----------------------------
(***************************************************************************)
(* dwd/internal/{item,kernel,update,LRstrategy}.cpp: the LR automaton.  A  *)
(* kernel is a state of it: a set of items, their closure, and the kernel  *)
(* each symbol leads to.  The closure of one kernel, the kernel for one    *)
(* symbol, and the action table of one state are a step each.              *)
(***************************************************************************)
EXTENDS Grammar

CONSTANT Capacity   \* the items a set of items holds before it is rehashed

VARIABLES
    kernels,
    kernelIndex,
    keys,           \* symbols after a dot that have no goto yet
    states          \* the parser's table

kernelVars == <<kernels, kernelIndex, keys, states>>
-----------------------------------------------------------------------------
\* rule is an index into rules, dotIndex the number of symbols before the dot.
ItemOf(r, dotIndex, lookAheads) ==
    [rule |-> r, dotIndex |-> dotIndex, lookAheads |-> lookAheads]

development(item) == rules[item.rule].development
AfterDot(item) == development(item)[item.dotIndex + 1]
AtEnd(item) == item.dotIndex >= Len(development(item))

\* operator==; the look-aheads are not compared, and the left sides only if the
\* dots differ.
equal(a, b) ==
    /\ development(a) = development(b)
    /\ \/ a.dotIndex = b.dotIndex
       \/ rules[a.rule].nonTerminal = rules[b.rule].nonTerminal

\* The same element of a set of items: the hash covers both sides and the dot.
SameHash(a, b) == a.rule = b.rule /\ a.dotIndex = b.dotIndex

Insert(items, new) ==
    items \cup {n \in new : \A o \in items : ~ SameHash(o, n)}

getRulesForNonterminal(s) == {r \in DOMAIN rules : rules[r].nonTerminal = s}

beginnings(r) == getRulesForNonterminal(Head(rules[r].development))

\* The rules of s, and n times those of the first symbols of the rules found.
found(s) ==
    LET upTo[n \in 0 .. Len(rules)] ==
          IF n = 0 THEN getRulesForNonterminal(s)
          ELSE UNION {{r} \cup beginnings(r) : r \in upTo[n - 1]}
    IN upTo

closers(s) == found(s)[Len(rules)]

newItemsFromSymbolAfterDot(item) ==
    IF AtEnd(item) THEN {}
    ELSE {ItemOf(r, 0, follows[rules[r].nonTerminal]
                         \cup (IF r = 1 THEN {END} ELSE {})) :
            r \in closers(AfterDot(item))}

newItemAfterShift(item) == [item EXCEPT !.dotIndex = @ + 1]
-----------------------------------------------------------------------------
\* Mutant: the start rule is complete whatever comes next.
KernelInit_AnyNext ==
    /\ kernels = <<[items |-> {ItemOf(1, 0, terminals \cup {END})},
                    closure |-> {}, gotos |-> <<>>]>>
    /\ kernelIndex = 1
    /\ keys = {} /\ states = <<>>

KernelInit ==
    /\ kernels = <<[items |-> {ItemOf(1, 0, {END})}, closure |-> {},
                    gotos |-> <<>>]>>
    /\ kernelIndex = 1
    /\ keys = {} /\ states = <<>>

kernel == kernels[kernelIndex]

\* The closure when the items visited are processed.
ClosureBy(visited) ==
    Insert(kernel.items,
           UNION {newItemsFromSymbolAfterDot(i) : i \in visited})

\* updateClosure inserts into the set it iterates over.  Once the set is
\* rehashed, which items are still visited is undefined; without that all are,
\* those inserted adding nothing to their makers' closers.
Visits(visited) ==
    /\ visited \subseteq kernel.items /\ visited # {}
    /\ \/ visited = kernel.items
       \/ Cardinality(ClosureBy(visited)) > Capacity

updateClosure ==
    /\ phase = "closure" /\ kernelIndex <= Len(kernels)
    /\ \E visited \in SUBSET kernel.items :
         /\ Visits(visited)
         /\ kernels' = [kernels EXCEPT ![kernelIndex].closure = ClosureBy(visited)]
         /\ keys' = {AfterDot(i) : i \in
                       {c \in ClosureBy(visited) :
                          ~ AtEnd(c) /\ AfterDot(c) # EPSILON}}
    /\ phase' = "gotos"
    /\ UNCHANGED <<grammarVars, kernelIndex, states>>

\* The items shifted over key; of items that are equal only the first that the
\* iteration meets is kept.
IsShifted(items, key) ==
    LET shifted == {newItemAfterShift(c) : c \in
                      {c \in kernel.closure : ~ AtEnd(c) /\ AfterDot(c) = key}}
    IN /\ items \subseteq shifted
       /\ \A a, b \in items : equal(a, b) => a = b
       /\ \A a \in shifted : \E b \in items : equal(a, b)

\* Kernel::operator==, which looks the items up by hash.
SameKernel(items, others) ==
    /\ Cardinality(items) = Cardinality(others)
    /\ \A i \in items : \E o \in others : SameHash(i, o)

WithGoto(gotos, key, n) ==
    [X \in DOMAIN gotos \cup {key} |-> IF X = key THEN n ELSE gotos[X]]

\* addGotos for one symbol.  A kernel that is there already keeps its items,
\* and none is added to it: lookAheadsPropagated is always false.  The order of
\* the symbols numbers the kernels and has no other effect.
addGoto ==
    /\ phase = "gotos" /\ keys # {}
    /\ LET key == CHOOSE k \in keys : TRUE
           Target(items) ==
             {k \in DOMAIN kernels : SameKernel(items, kernels[k].items)}
           Linked(n) == [kernels EXCEPT ![kernelIndex].gotos = WithGoto(@, key, n)]
       IN /\ keys' = keys \ {key}
          /\ \E items \in SUBSET {newItemAfterShift(c) : c \in kernel.closure} :
               /\ IsShifted(items, key)
               /\ kernels' =
                    IF Target(items) # {} THEN Linked(Min(Target(items)))
                    ELSE Append(Linked(Len(kernels) + 1),
                                [items |-> items, closure |-> {}, gotos |-> <<>>])
    /\ UNCHANGED <<grammarVars, phase, kernelIndex, states>>

NextKernel ==
    /\ phase = "gotos" /\ keys = {}
    /\ kernelIndex' = kernelIndex + 1
    /\ phase' = "closure"
    /\ UNCHANGED <<grammarVars, kernels, keys, states>>

GraphEnds ==
    /\ phase = "closure" /\ kernelIndex > Len(kernels)
    /\ phase' = "states" /\ kernelIndex' = 1
    /\ UNCHANGED <<grammarVars, kernels, keys, states>>
-----------------------------------------------------------------------------
Action(kind, n) == [kind |-> kind, n |-> n]

\* The action for an item that can be reduced.
ReduceBy(item) ==
    IF item.rule = 1 THEN Action("accept", 1) ELSE Action("reduce", item.rule)

\* Mutant: only what has been read to its end is reduced.
Reducible_Read(item) == AtEnd(item)

Reducible(item) == AtEnd(item) \/ Head(development(item)) = EPSILON

\* buildState for one kernel: shifts first, which the reductions of the items
\* overwrite; of several reductions that of the last item visited remains.
buildState ==
    /\ phase = "states" /\ kernelIndex <= Len(kernels)
    /\ LET complete == {i \in kernel.closure : Reducible(i)}
           ahead == UNION {i.lookAheads : i \in complete}
           shifts == DOMAIN kernel.gotos \cap terminals
       IN \E order \in Bijection(complete, 1 .. Cardinality(complete)) :
            LET TheLast(t) ==
                  CHOOSE i \in complete :
                    /\ t \in i.lookAheads
                    /\ \A o \in complete : t \in o.lookAheads => order[o] <= order[i]
            IN states' = Append(states,
                 [lrAction |->
                    [t \in shifts \cup ahead |->
                       IF t \in ahead THEN ReduceBy(TheLast(t))
                                      ELSE Action("shift", kernel.gotos[t])],
                  lrGoto |->
                    [s \in DOMAIN kernel.gotos \ terminals |-> kernel.gotos[s]]])
    /\ kernelIndex' = kernelIndex + 1
    /\ UNCHANGED <<grammarVars, phase, kernels, keys>>

StatesEnd ==
    /\ phase = "states" /\ kernelIndex > Len(kernels)
    /\ phase' = "ready"
    /\ UNCHANGED <<grammarVars, kernelVars>>

KernelStep ==
    \/ updateClosure \/ addGoto \/ NextKernel \/ GraphEnds
    \/ buildState \/ StatesEnd
=============================================================================
