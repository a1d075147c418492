# tagfilterDB in TLA+

TLA+ modules for the parts of tagfilterDB that carry its own logic, TLC
configurations that check them on small instances, and TLAPS proofs of what
holds for every instance. Paths are relative to `src/include/tagfilterdb/`
unless they begin with `src/`.

Contents: [1 The system](#1-the-system), [2 Modules](#2-modules),
[3 From code to model](#3-from-code-to-model), [4 Runs](#4-runs),
[5 Fairness](#5-fairness), [6 Proofs](#6-proofs),
[7 What only TLC checks](#7-what-only-tlc-checks),
[8 Abstractions and limits](#8-abstractions-and-limits),
[9 Findings](#9-findings), [10 Plan](#10-plan).

## 1. The system

The repository holds a collection of in-memory components. There is no server,
no persistence and no thread yet: the DataManager, QueryEngine, FileManager,
BufferManager and LogManager of the repository's README have no source.
Everything runs in its caller's thread. What is hard about this code is
therefore not concurrency but

- long sequences of legal calls on linked structures and sorted lists,
- recursive procedures that leave work half done across calls (an R-tree split
  is finished by the callers of the callers),
- loops that insert into, or erase from, what they iterate over,
- state that survives a call that failed (the parser's stack),
- callbacks, sizes at their limits, and the lifetimes of C++ objects.

| Component | State | Operations | Correct when |
|---|---|---|---|
| `spatialIndex/spatialIndex.{hpp,cpp}`: R-tree | heap nodes, `m_root`, `m_size`, `m_nodeBuffer` | `Insert`, `SearchTag` with a callback, destructor, `Print` | balanced, boxes exact, entries kept, search complete, every node freed once |
| `spatialIndex/broundingbox.hpp`: boxes | `m_axis` | constructors, `setAxis`, union, area, overlap, `expand`, `scale`, `resize`, ... | edges stay ordered, the union is the least box around both |
| `support/rangeSet.hpp`, `range.hpp`: sets of integers as intervals | `_ranges` | `add`, `remove`, `addAll`, `subtract`, `And`, `Or`, `complement`, `contains`, ... | sorted, disjoint, not adjacent; equal to the set that is meant |
| `dwd/internal`: grammar and LR automaton | rules, FIRST, FOLLOW, kernels, table | `setGrammar`, `updateClosure`, `addGotos`, `buildState` | the sets are what they are for; the table accepts the grammar's language |
| `dwd/parser`, `dwd/handlerControl`: LR parser, trees, handlers | `stack`, `currIndex`, the tree | `setTokens`, `parse`, `ASTNode::display`, `execute` | accepts sentences only, and all of them if the table allows; the tree has the input's identifiers in order |
| `dwd/lexer`: lexer | `input`, `position` | `setInput`, `tokenize` | words, symbols and strings are told apart; the list ends where the parser stops |
| `compiler/inputStream.cpp`: character stream | `_data`, `p` | `consume`, `LA`, `seek`, `getText` | every call answers from one text and one position |
| `support/utf8.cpp` | none | decode, encode | takes UTF-8 and nothing else; decoding inverts encoding |
| `status.hpp` | `state_` buffer | copy, move, error constructors | one owner for each buffer |
| `compiler/atn` | states, transitions | `addState`, `addTransition`, decisions | numbering and lists agree |
| tokens, vocabulary, string helpers, hashing, logging | fields | accessors, formatting | no behaviour beyond assignments: not modelled |
| recognizer, error listeners, rule contexts, cache, synchronization | - | - | declarations, unfinished or unused: not modelled |
| `src/docs/html`: documentation | - | - | Doxygen's output with its page scripts: no part of the program, not modelled |

How they meet: the R-tree calls the boxes and the user's callback, which may
call the R-tree; the LR compiler builds the automaton from the grammar and gives
its terminals to the lexer and its table to the parser, which reads the lexer's
tokens; the parser's tree goes to the client, who displays and executes it.
`InputStream` decodes with `Utf8` and takes its intervals from `range.hpp`.
`RangeSet` serves the ANTLR-like `compiler/` directory, which does not call it
yet. The two halves, index and compilers, do not call each other.

`PROJECT.json` lists every component with its status, and under `hazards` the
places where this code can go wrong in ways a unit test would hardly reach. A
hazard that no property would catch, or only in part, has a note that says so.

## 2. Modules

| Module | Models | Extends |
|---|---|---|
| `BoundingBox` | boxes, their union, area, overlap, bounds | - |
| `NodeSplit` | `SplitNode` and `AssignGroup`, step by step | `BoundingBox` |
| `SplitCalls` | a caller that splits one node after another | `NodeSplit` |
| `SpatialIndex` | `Insert` on the tree in the heap | `NodeSplit` |
| `SpatialSearch` | `SearchTag` on that tree, and a callback that may insert into it | `SpatialIndex` |
| `SpatialDestroy` | the destructor on that tree | `SpatialIndex` |
| `EntryStore` | abstract: a set of entries and its searches | `BoundingBox` |
| `RangeSet` | objects of the class, loops step by step | - |
| `IntSets` | abstract: sets of integers | - |
| `Languages` | reference: FIRST, FOLLOW and sentences by definition | - |
| `Grammar` | FIRST and FOLLOW, rule by rule | `Languages` |
| `KernelGraph` | closures, kernels, gotos, action table | `Grammar` |
| `LRLexer` | `tokenize`, a character at a time | `Grammar` |
| `LRParser` | the shift-reduce loop and its stack; build, lex and parse composed | `KernelGraph`, `LRLexer` |
| `LRCompiler` | the same with trees displayed and handlers executed | `LRParser` |
| `Utf8` | decoders and encoders | - |
| `InputStream` | a stream: load, seek, read, extract | `Utf8` |
| `Tape` | abstract: characters that were read, and those to come | - |
| `NodeSplitProofs` | lemmas on boxes and on the steps of a split | `NodeSplit` |
| `SplitCallsProofs` | theorems on `SplitCalls`, also that its choices are the code's scans | `SplitCalls`, `NodeSplitProofs` |
| `SpatialIndexProofs` | theorems: types, levels, occupancy, links, entries, boxes | `SpatialIndex`, `NodeSplitProofs` |
| `SpatialDestroyProofs` | theorems on the destructor | `SpatialDestroy`, `SpatialIndexProofs` |
| `SpatialSearchProofs` | theorems on searches, and that they implement `EntryStore` | `SpatialSearch`, `SpatialIndexProofs` |
| `RangeSetProofs` | lemmas on lists of ranges, theorems on `RangeSet` | `RangeSet` |
| `LRParserProofs` | theorems on FIRST and FOLLOW, the table, the parser's stack, what is accepted and what is not rejected, and the lexer | `LRParser` |
| `InputStreamProofs` | theorems on the decoders, and that a stream is a tape | `InputStream` |
| `MC*` | instances for TLC | what they check |

`SpatialSearch` shows that the index implements `EntryStore`, `RangeSet` that
it implements `IntSets`, `InputStream` that it implements `Tape`, each by a
refinement mapping (`Store`, `Sets`, `Promise`) whose specification is a
property of a run. What `Grammar` computes and what `LRParser` accepts is
compared with `Languages` through invariants.

## 3. From code to model

**One action per piece of work between two calls.** A recursive function is
unfolded. `frames` (insertion), `walk` (search) and `deleting` (destructor)
hold its activations, the innermost last, with the locals that are alive across
a call; `pc` says where the innermost one is. `SplitNode` is one action for the
seeds and one for each iteration of its loops; `subtract`, `And` and `addAll`
are one action per iteration, their indices the variables `i` and `j`; `parse`
is one action per iteration, the constructor of `LRCompiler` one per rule
(FIRST), symbol (FOLLOW), closure, goto and table row. An operation whose loop
only touches what it owns (`add`, `remove`, `SelectBestSubNode`, `tokenize`,
`seek`) is one action.

**A callback that calls back.** `process` runs between two iterations of the
search: `searching` is then `"callback"`, the activations of the search stay in
`walk`, and every action of `SpatialIndex` may be taken until the callback
answers (`CallIndex`, `Answer`). The loops of the search read `m_csize` and the
slots anew in each iteration, so that what the callback inserts is visible to
them.

**Areas that overflow.** `area` multiplies the lengths axis by axis, as the code
does, and `length`, `times` and `minus` treat what is beyond `MaxArea` as IEEE
doubles do: it is infinite, infinity times 0 and infinity less infinity are no
number (`NaN`), and no comparison with that holds. So a box that is flat along
one axis and overflows along another has no number for an area, although its
edges multiply to 0. That is where `SelectBestSubNode` returns -1
(`DescendNowhere`; a read at index -1 follows, `pc = "wildIndex"`), and where
the scan of a split keeps the first entry it met (`IsChosen`).

**Characters.** A member of `Letter` may stand for several letters of the
text, so that the words of a grammar are one character each; what matters to
`tokenize`, the kind of each character and the word it is part of, is kept.
`lexing` is the loop of `tokenize`, a recursive function of the number of
characters read. Lists of terminals are turned into texts by `Spaced`
(`TextsAssumption` says what they may be made of).
The parser asks its table with `keyOf` of a token, as the code does.

**Closed forms.** Where a scan picks an extreme element the model says which
element (`IsBestSubNode`, `IsChosen`, `AreSeeds`), ties included. For the two
scans of a split, which mix running maxima and ties in a subtle way, the code's
loops are also written as such (`Scan`, `SeedScan`: recursive functions of the
number of entries or axes looked at), and `ChoicesMatchScans` says that both
agree: TLC checks it in every state of the run, and it is proved for all.

**Lengths and sizes.** The position of `InputStream` is a `size_t`; where the
code subtracts from it the result is taken modulo `WORD`, which stands for 2^64
and need only exceed every length and argument of the instance.

**Variables.** `heap` is the sequence of nodes allocated; a pointer is its
index, `nullptr` is 0. A node keeps all of its slots, also those at and above
`m_csize`, because the destructor reads them. `m_nodeBuffer` is in the code a
pointer to a pointer that is a local variable of a function that has returned;
the model holds the node that is found there, and `DanglingRead` is the
alternative that it is not (see 8). `_ranges`, `rules`, `kernels`, `states`,
`stack`, `tokens` and `currIndex` are the members of those names.

**Undefined or unordered.** Iteration over an `unordered_set` is a choice among
all orders: the last append of a FOLLOW step, the item kept among "equal" ones,
the last reduction written to the table. Reading past the tokens, or `back()`
of an empty vector, leads to `outcome = "undefined"`. `updateClosure` inserts
into the set it iterates over; from a rehash on, any non-empty subset of the
remaining items is visited (`Visits`, `Capacity`). A use of freed memory leads
to `pc = "useAfterFree"`, a failed assertion to `"aborted"`; nothing happens
after.

**History variables.** `inserted`, `reported`, `declined`, `before`, `entered`,
`torn`, `freed`, `calls`, `fed`, `bottom` and the `last` of `InputStream` record
what happened; no guard of the code's own reads them
(`fed`, like `m_size`, is bounded to keep the instance finite).

## 4. Runs

| Run | Question | Instance | States |
|---|---|---|---|
| `split` | is every split legal, and does it choose what the code's scans choose? | 2 axes, nodes of 2 to 4, all 5^5 buffers of five rectangles, lengths and areas above 8 infinite | 24,341 |
| `tree` | does the tree stay an R-tree at every moment of an insertion, and when does the destructor free it? | 2 axes, nodes of 1 to 2, 6 inserts of 4 boxes, lengths and areas above 7 infinite | 90,754 |
| `search` | does the index keep and find every entry, also when the callback inserts? | 2 axes, nodes of 1 to 3, 6 inserts of 3 rectangles, one target, any answers and inserts of the callback | 318,903 |
| `rangeset` | do the lists stay canonical and mean the right sets? | 2 objects over -1..3, every sequence of operations | 89,542 |
| `compiler` | what does a parser accept, given how its table is built and its tokens are made? | 13 grammars, 6 tokens over any number of texts | 56,334 |
| `stream` | does a stream answer from one text and one position, and is that text what the bytes mean? | 6 files, arguments up to 2 beyond the ends; 54,241 byte sequences | 2,768 |
| `split_min3`, `split_seeds`, `search_stop`, `destroy_once`, `rangeset_difference`, `handlers_order` | one statement of a comment, assertion or test each, which the code does not meet (see 9) | small | stops at the violation |

**`split`.** `SplitBalanced`: the groups have MinChildren to MaxChildren
entries and none is left; `CountsMatch`: the counters that steer the loops are
the numbers of entries marked; `GroupBoxExact`: the box every choice depends on
is the least one around its group; `ChoicesMatchScans`;
`AbortsOnlyWithoutSpread`: the only assertion that fails is that on the seeds,
and only if all lower bounds are equal along every axis; `SplitEnds`. Four of
the five rectangles are nested, overlapping and apart, one per relation that
growth and overlap can tell apart; the fifth is a segment too long for a finite
length. With five of them in a buffer all ties occur. Some unions have an
infinite area, and the segment has none: growths and differences that are
infinite or no number occur as well.

**`tree`.** Nodes of one or two entries split at the third insert already; six
inserts reach three levels and splits that climb two of them. `HeightsStep`,
`BoxesExact` and `EntriesKept` hold in the middle of an insertion too, the
latter two with what is due at each point of it (a box on the path may be
behind, an entry may be in the split's buffer); `Occupancy` and
`NodesLinkedOnce` hold whenever an `Insert` has returned. `IndexInBounds`: the
descent uses the index -1 only if the area of the box around all entries is
infinite or no number. The boxes are chosen so that both happen: a point and two
segments lie on one line, and the box around the two segments is flat and
overflows. `FreedUnlessStale`: the
destructor, called after any insert, frees all nodes exactly if no slot above
`m_csize` still points to a child; `LowTreesFreed`: that takes a tree of three
levels. So the double free is characterised, not only found.

**`search`.** `ImplementsStore`: nothing is lost; a search reports every entry
that matches and was stored when it began once if the callback never declines,
never one that does not match, and the callback's own inserts change that only
if they split a node the search has come to. `MissesExplained`: an entry is
missed for one of two reasons: it stands in a leaf behind a declined entry, or
a node was split while the search had it open (the split of a node it has left
can only make it report entries twice). `CallsBounded`: even a callback that
always inserts is called at most as often as there is room for entries below the
root the search began at (`capacity`, of that root's height), because the loops
run over places. Nodes of up to three
let an open node change without being split and be split at the next insert;
one axis coordinate is shared between rectangles and targets so that touching
counts.

**`rangeset`.** Five integers allow three ranges apart, with gaps of one, and
hold the special -1 (`<EOF>`). `DifferenceInLoop` is `subtract`'s loop
invariant; `ImplementsSets` says of each operation which set results, of
`subtract` and `complement` what the compiled code returns (see 8). A universe
of six integers (415,942 states) was checked once, with the same result.

**`compiler`.** The grammars are those of `dwd/test` and `internal/test` cut
down, and one for each way a table goes wrong: two nonterminals for the same text (an item is
lost), ambiguity, a reduce/reduce and a shift/reduce conflict, a FIRST and two
FOLLOW sets left incomplete, a closure that outgrows its buckets, and a start
symbol that has a second rule or is used on a right side. `FirstsExact`
(no empty rules: FIRST is exact); `FollowsReachTopDown` (FOLLOW is complete,
though `notDone` forgets, if no rule that ends in another nonterminal comes
before one that mentions its left side, and FIRST is complete);
`AcceptsOnlySentences` (whatever is wrong with the table, and whatever an
earlier parse left on the stack, `parse` returns only for a sentence, as defined
in `Languages`); `RejectsNoSentence` (if the table has every item, no conflict
and complete FOLLOW sets - `TableIsSound`, which seven of the grammars reach -
no sentence is rejected). The last two need what the code takes for granted of
the start symbol, and every grammar in `dwd/test` gives it by a rule `S' -> X`:
that it is on no right side (`AxiomOnTop`) and, for the latter, has one rule
(`AxiomHasOneRule`); four of the seven have both. Without these TLC finds both
false: `Nested` (`S -> a S ;`) accepts "a a #ID ;", as rule 0 complete is
accepted wherever the stack is; `LeftNested` (`S -> X; X -> S a`) rejects
"#ID a", as rule 0's item looks ahead to the end marker only; of `Alternatives`
(`S -> A; S -> ;`) the first kernel begins the first rule only. `SpacedListsExact` (every list of terminals, spaced out as a text,
is read as that list); `TokensSuffice` (lexer and parser stay inside the vector
of tokens but for two kinds of text: one that begins with a character of no
kind, and one that ends in the end marker in quotes); `StackIsPath` (above the
state the call pushed, the stack is a path of the automaton, and a reduction
finds its rule's symbols on top); `LeavesInOrder`; `BuildEnds`; `ParseEnds`.
Six tokens allow sentences of five, and up to six parses on one stack. One
grammar is also given every text of three characters, of each of seven kinds.

**`stream`.** `ImplementsTape`: whatever is loaded, from a buffer or an
istream, leniently or not, each call answers as a tape would that was read up
to some point. A load gives the characters that encode to the file's bytes, all
of them but the byte order mark (`Load`, `Holds`); a strict one succeeds exactly
if the file is a text, and otherwise throws and leaves the tape as it was
(`Refuse`); a bad istream changes nothing (`LoadNothing`). What a lenient load
makes of a file that is no text is left open by `Tape`. The one exception is a
file that is no text, loaded from an istream: it empties the tape and leaves
`index()` beyond its end, until the next load, reset or jump back. The files
are empty, ASCII, longer sequences, cut off, and a byte order mark before a text
and before what is none. `DecodesUtf8`: compared with the definition of
UTF-8, on all sequences of up to four bytes from the first and the last byte of
every kind; four bytes are the longest sequence, so that every legal one, every
one that was cut off, and their neighbours are among them.

Deadlock is not checked in `compiler` and `handlers_order`: after `MaxTokens`
the client stops. In the runs of the tree a step `Stopped` or `Over` stands for
a program that is dead or a client that makes no further call.

## 5. Fairness

The program is sequential. Weak fairness is assumed of the steps of an
operation that has been called (`SplitStep`, `InsertStep`, `SearchStep`,
`DestroyStep`, `LoopStep`, `Build`, `ParserStep`), never of the calls
themselves: nobody has to insert, search or parse. Where a search calls back,
the callback's answer, and an `Insert` it has begun, are fair too
(`FairSearchSpec`): a callback that never returns is no fault of the index.
`FairDestroySpec` assumes the same of `Insert` and of the destructor. This is
what running in the caller's thread gives: once called, a function keeps
running until it returns. Nothing else competes with it, so weak fairness is
enough. The operations of `InputStream` are single steps and promise nothing in
the end: it has no fairness.

## 6. Proofs

All proofs are checked by TLAPS (SMT and Zenon, LS4 for temporal steps); no
step is left out.

**`NodeSplitProofs`** holds the lemmas both users of `SplitNode` need: the union
of boxes is the least box around both (`CoverOfUnion`...), the area is the
product taken axis by axis (`AreaIsProduct`), a box within one of finite area has
an area that is finite and no larger (`AreaMonotone`), a finite set of integers has
extrema, and what each step of a split keeps of types and counts
(`SplitStepCore`). Where an argument is inductive - over the number of
dimensions, over finite sets - it is put as a minimal counterexample
(`LeastNat`, `MinimalSet`), which needs no induction theorem.

**`SplitCallsProofs`**, for any number of axes, any boxes and any
`MinChildren < MaxChildren`: the types, the counts and the boxes of the groups
(`SplitTypes`, `SplitCounts`, `SplitBoxes`) hold without a further assumption.
With `2 * MinChildren <= MaxChildren + 1` (the library's own sizes 2 and 4
satisfy it) the inductive invariant is `IInv == TypeOK /\ CountsMatch /\
Progress /\ AbortsOnlyWithoutSpread`. `CountsMatch` alone bounds nothing:
`Progress` adds, for each place of the function, how many entries are unassigned
and how full the groups may be there (while dealing, neither group exceeds
`Size - MinChildren`; while the rest is assigned the other group is full to
exactly that), from which the final sizes follow by counting. Without the
assumption on the sizes the result is false: run `split_min3`. Theorems:
`SplitInvariant`, `SplitIsBalanced`, `SplitAborts`.

`ChoicesAreScans` is about the two loops that choose, whose running bests are
recursive functions (`RunExists`: a recursion over 0..N has a solution, shown
from the least N for which it would have none). After n entries a scan for the
least bound has the first of the least among them (`FirstLeastFinds`); after n
axes the seeds are those of the first axis whose two differ (`SeedScanFinds`);
after n entries the dealing loop has, of the entries without a group, one that
none before beats, which the ones after it have neither beaten nor, with a tie,
undercut in the count of their group (`ScanFinds`). Differences that are no
number beat nothing and are beaten by nothing, which is why the first entry met
stays when its difference is one. With `SeedsUnique` and `ChoiceIsScanned` the
closed forms pick the same.

**`SpatialIndexProofs`**, for every size of a node, number
of dimensions, set of boxes and number of calls, with no assumption beyond those
of the modules: the inductive invariant is built in layers, each preserved with
the earlier ones as known facts.

| Layer | Says | Gives |
|---|---|---|
| `Shape` | types; a child is one level below its parent; the activations on the stack are a path from the root to `p_node` | `SpatialTypes`, `SpatialHeights` |
| `Occupied` | how many entries each node has, also the node being split and its new half | `SpatialOccupancy` |
| `Linked` | every node but the root and a half not yet linked is held by exactly one home: a place of a node or, during a split, of the buffer | `SpatialLinks` |
| `Kept` | each inserted entry has one home: a leaf's place, the buffer, or the call in progress | `SpatialEntries` |
| `Covered` | the box beside a child is the smallest around its entries, but above the activation in progress, where it still lacks the new entry | `SpatialBoxes` |
| `Bounded` | every box lies in the box around everything inserted, so that a child without a finite enlargement needs a cover without a finite area | `SpatialIndexInBounds` |

The properties themselves are stated for the moments between calls (or weakened
during one), and are not inductive: what holds during a call, above all while a
node's entries are in `t_overflowBuffer` and only some are back in one of the two
halves, is what the layers add.

**`SpatialDestroyProofs`**, for the same trees: `DestroyKeepsTree` (the
specification with the destructor keeps all the invariants above), `DestroyFrees`
and `DestroyLowTrees`. The destructor visits all slots of a node, the stale ones
above `m_csize` included, so `SlotsInv` first extends the invariants of the
insertion to those slots: what a stale slot may still point to, and that a root
gets its first stale slots by a split that puts them a level lower. `Walk` is
the invariant of the traversal: which nodes are on the stack, which are freed,
and that no two slots visited so far led to the same node.

**`SpatialSearchProofs`**, for the same trees and any callback that inserts.
`SearchIsIndex` first shows that a search, its own variables left out, is calls
of `Insert` and steps that do nothing, so that the tree's invariants hold within
searches (`SearchKeepsTree`). Each further theorem has an invariant of its own on
top of `WalkInv`: the loops are over nodes on one path downwards, each within its
node's slots, and only a leaf's entry goes to the callback.

| Invariant | Says | Gives |
|---|---|---|
| `BudgetInv` | each loop has a budget of calls that, with the room below its node, the first loop's covers | `SearchCallsBounded` |
| `SearchedInv` | there is a set `D` of nodes the search is done with: whatever is in one of them, or behind a loop, was reported, does not match, stands behind a declined entry, or leads to another node of `D` | `SearchMissesExplained` |
| `OnceInv` | undisturbed, the search came to each node from a place it has taken, and reported what stands in a place it has taken | no node or entry comes up twice |

`D` is bound by an existential, not computed: a split by the callback adds the
new sibling to it exactly when the split node is in it, and the entries that are
in the split's buffer meanwhile count as the node's (`owner`). Why the callback's
calls keep these invariants is one fact about `Insert`: each of its steps is a
one-to-one move of entries (`Moves`, from `SpatialIndexProofs`) under which only
entries of the node being split change their place. At the end of a search every
node is in `D`: the highest that were not would have a parent that is
(`AllSearched`). `SearchImplementsStore` puts these together, step by step:
`Process` is the store's `Report`, an answer of false its `Decline`, the return of
`Insert` its `Add`, the split of a node the search has come to its `Disturb`, an
end of the program its `Die`, and every other step of the tree and of the search
a stutter. `OnceInv`, too, was first checked by TLC on the instance of run
`search`.

**`RangeSetProofs`** begins with lemmas about lists of ranges: replacing a run
of a canonical list by a range that covers it, or by two, keeps it canonical and
changes the elements by exactly what was put in and taken out (`Splice...`);
from that, what `add` and `remove` yield on every canonical list
(`AddedCorrect`, `RemovedCorrect`); that a set of integers has at most one
canonical list (`CanonicalUnique`); and what the queries answer on a canonical
list (`ContainsExact`, `GetExact`, ...). `counted`, the running number of
elements, is a recursive function: that one exists (`CountedRecursion`), and
that it counts the elements (`CountedExact`), is again shown from a least
counterexample.

Its theorems are for any non-empty set of objects and any set of integers as
universe: `IInv == TypeOK /\ Canonical /\ Operands /\ AddsUp /\ Intersects
/\ Differs`. The last three say of each loop, element by element, what its
result holds already and what is left between its indices and the ends of its
operands; `Operands` ties these to the objects. Without them the result of a
loop that has just ended would be unknown. From `IInv` follow `AlwaysCanonical`,
`SubtractInLoop`, `ListsEqualSets`, `QueriesAreExact`, and
`RangeSetImplementsSets`: `Spec => ImplementsSets`, where every call and every
loop's last step is a step of `IntSets` and all others stutter.

**`LRParserProofs`**, for any set of grammars (rules distinct, the end marker no
symbol of theirs, `EPSILON` alone on its right side and no left side), any texts
and any number of calls: `IInv == Graph /\ Table /\ Pushed`.

| Part | Says |
|---|---|
| `Graph` | every kernel's items are well formed, and an item of its closure is one of the kernel's or begins a rule of a nonterminal that some item of the closure has after its dot (`ClosureRight`); a goto over X leads to a kernel whose items are items of the closure moved over X (`GotosRight`), and when the constructor has passed a kernel it has a goto for each symbol after a dot (`GotosComplete`) |
| `Table` | a row of the table shifts and goes along the gotos of its kernel, and reduces only by rules of which its closure has the item with the dot at the end |
| `Pushed` | what this call has pushed leads along gotos from kernel 0, each pair of entries spelling the symbol of the goto it follows; below it is whatever earlier calls left |

`Table` holds only when the table is complete, and `Pushed` then depends on all
of `Graph`. Three arguments carry the proof. `WayBack`: an item with the dot
behind n symbols of its rule can only have come along a path over those n
symbols, so that a reduction finds them on the stack, and the item it began
with in the closure below - which is why a goto for the left side is there. It
holds although items are lost, since it never asks that an item be in a kernel,
only where one that is there came from. `SameEitherWay`: `Kernel::operator==`
counts the items and looks only one way for them; that the two kernels then have
the same items is an argument of pigeonholes. `ClosersFrom`: `closers`, the rules the queue
collects, is a recursive function (`found`), every rule of which is a rule of
the symbol or begins a rule found before; unfolding it is again an argument from
a least counterexample (`FoundRecursion`). `ParserKeepsPath` follows from `IInv`
alone.

FIRST and FOLLOW are compared with what `Languages` infers from the rules.
`Inferred` runs as many rounds as there are conclusions; that it is the least
set closed under the inferences (`InferredClosed`, `InferredWithin`) is an
argument of counting: each round before the last concludes something new.
`FollowsServed` is the invariant of a pass over the rules: at every place the
pass has gone by, FOLLOW has what that place demands (`Served`: what can come
next, and, if all the rest can be empty, what follows the rule's left side). A
demand that was met could only be unmet again by a later growth of the left
side's set, at a place that mentions it; `ListedTopDown` says that such a place
comes before. So one pass is enough, whatever `notDone` says at its end, and
what is served everywhere is what `Follow` infers (`ServedIsComplete`):
`FollowsCompleteTopDown`. Without the order of the rules the result is false:
grammar `Repeats` of the run ends its loop with a FOLLOW set incomplete.
`FirstsServed` is the same for FIRST without empty rules, where a rule only adds
what its first symbol begins with and `notDone` forgets nothing: when it is
false at the end of a pass, every rule has been served, and nothing is there
that `First` does not infer (`FirstsAlwaysExact`).

`AcceptedIsSentence` has the invariant `Derived`: the keys read so far are cut
where the entries of the path begin (`IsCut`), and each entry's symbol derives,
in the sense of `Sentences`, the section of the input that it stands for. A shift
adds a section of one key, a reduction joins the sections of its rule's symbols
(`RuleDerives`), and `Sentences` is closed under that because its rounds are
more than the pairs they could add (`SentencesClosed`). When rule 0 is reduced
its symbols must be all there is on the path: only the first kernel has its item
with the dot before it, and no goto leads there, if the axiom is on no right
side. No invariant of the table's sets is used: what is accepted is a sentence
whatever FIRST, FOLLOW and the closures came to.

`SentencesNotRejected` is the converse, for tables that `TableIsSound` describes
and an axiom that has one rule and is on no right side. Two invariants are added
to `IInv`. `Complete` follows the compiler's steps: a kernel's items are in its
closure, the look-aheads of a rule with its dot at the end hold FOLLOW of its
left side, and a row of the table has an action for each goto over a terminal
and each look-ahead of a reducible item (`RowComplete`). `Expecting` holds while a
sentence is parsed: there is a set of frames, each a rule with its dot, the place
on the path where its right side begins, and a cut of the sentence into sections
that its symbols derive. Every frame but the axiom's has a parent whose next
symbol it derives, the state at its dot has its item in the closure, and the dot
of one frame is at the top of the path. The stack does not tell which frames
those are, which is why they are under an existential quantifier: they are what
the unread rest of the sentence still demands.

`ReadyTop` says that a frame at the top can be chosen that is read to its end or
has a terminal next. If a nonterminal is next, a rule derives its section, and
that rule is a frame too; its symbols were concluded in an earlier round of
`Sentences`, so that a frame whose next symbol was concluded in the least round
leaves nothing to expand. This frame decides the action: before a terminal, the
next key is that terminal and the row shifts (`ReadBefore`); at its end the next
key is in FOLLOW and the row reduces by this rule, or accepts (`ReadToEnd`). The
table has no conflict, so there is no other action. `Advanced` moves the parent's
dot over what was pushed. An action is always there, and nothing is thrown. The
theorem bounds neither the grammar nor the calls before; sentences are those of
at most `MaxTokens` symbols, for any `MaxTokens`.

The lexer's loop is unfolded in the same way (`LexingRecursion`): `IsLexer` is
its invariant over any text, and with `Read` - the list of tokens a call is
given ends in an end marker or in what looks like it, and no end marker has been
shifted, as no goto is over one - gives `TokensAlwaysSuffice`. `ListLexed` says
what the loop has done after 2m characters of a spaced list, and gives
`SpacedListsAlwaysExact`. The theorems are about `ParserSpec`: the client's
`display` and `execute` are there one step that may change the returned tree
(`ClientStep`). Each disjunct of `LRCompiler`'s `Next` is one of `ParserSpec` or
leaves the parser's variables alone, which TLC confirmed on the instance of run
`compiler`; `LRCompiler` itself declares `RECURSIVE` operators on trees, which
the prover does not admit.

**`InputStreamProofs`**, for any set of files and of samples, each any sequence
of bytes. First the arithmetic of one character: a first byte from `LEADING` and
a second one that `ACCEPT` allows are exactly what makes a value of two, three or
four bytes a code point that needs them all (`TwoBytes`, `ThreeBytes`,
`FourBytes`: overlong forms, surrogates and values beyond the last fall out), and
`encode` gives the same bytes again. Then the loops. `decoding` and `encoding` are
recursive functions; that they exist is shown from a last place where one would
not (`LastPlace`, `LeastNat`), and with it what a text is: `LegalIsText` cuts what was decoded
without replacement where the decoder did, `TextIsLegal` shows that no cut of
the definition can differ from the decoder's. `DecodingAppended` says that a byte
after an end changes nothing before it, because a sequence that was cut off is
replaced one byte at a time, and an ASCII byte continues none. Together:
`DecodersAreExact`.

`StreamIsTape` is `Spec => ImplementsTape` under the mapping `Promise`, one lemma
per action. For `load`, what is decoded is the file behind its byte order mark:
a file with the mark is a text exactly if it is one without (`MarkedText`), and
what was decoded from a text encodes to its bytes again (`BodyHolds`). The
theorem also needs `StreamInv`: every character is valid, there are fewer than
a `size_t` has values, and the position is beyond the end only of an empty text.
The last is what a failed load from an istream leaves behind (`lost`): without it
a seek backwards, which ends at the place it is given, could end beyond the
text. The first two are for `getText`: an end before the start makes its count
wrap around (`Wraps`), to more than there is but never around again, so that it
copies the rest (`LastCopied`), and the strict encoder never finds anything to
refuse. The only assumptions are that a file and the arguments are no larger than
a `size_t` (`WordAssumption`).

Each theorem listed in `PROJECT.json` names the property that a run checks on
a small instance and the theorem states for all. The assumptions on constants
(`ChildrenAssumption`, ...) are evaluated by TLC in every run.

## 7. What only TLC checks

- Liveness (`SplitEnds`, `InsertReturns`, `SearchReturns`, `DestroyEnds`,
  `OperationEnds`, `BuildEnds`, `ParseEnds`): the prover does not handle
  fairness.
- `LeavesInOrder`: it walks a tree, by `RECURSIVE` operators, which the prover
  does not admit.

## 8. Abstractions and limits

- Coordinates are integers. Lengths and areas are computed axis by axis, exact
  up to `MaxArea` and infinite beyond; infinity times 0 is no number.
  `RangeType` and `AreaType` are taken to be one type (a `static_assert` makes
  both floating point). Rounding, lengths below 1 (by which a large product
  shrinks again) and coordinates that are themselves infinite or NaN are not
  modelled. The separation of the seeds
  divides by zero for every input (`max()` returns the lower bound), so that it
  is infinite or NaN, and `AreSeeds` says what comes of that.
- Assertions are taken as compiled in. `t_overflowBuffer` has five places
  whatever the node size: `ChildrenAssumption` excludes larger nodes.
- The callback does not start a search within a search, and does not destroy
  the index.
- `m_nodeBuffer` dangles. In builds with g++ 12 at -O0 to -O3, for one to three
  dimensions, several node sizes and up to 199 inserts, the node was always
  found; with AddressSanitizer's use-after-return detection the program is
  stopped there. Hence the model keeps the node and adds `DanglingRead`, after
  which nothing is said of the program.
- `RangeSet(std::vector<Range>&&)` (rangeSet.hpp:14) ignores its argument; the
  move constructor delegates to it. Where a return value is moved and not
  elided, the result is empty. With g++ 12, C++17 to C++23, -O0 to -O3, this
  was so in `subtract` and `complement` and not in `And` and `Or`; the model
  follows these builds.
- `ssize_t` does not overflow; elements are far from its limits.
- Grammars are given as such: reading rule text (`rule.cpp`,
  `LRStrategy::init`) is not modelled. A line of only `## handler` there adds a
  handler's name without a rule.
- `setInput` and `tokenize` are one operation, as in every use of them; a second
  `tokenize` without `setInput` returns no tokens. `isalpha` of a byte above 127
  (undefined for a negative `char`) is not modelled, nor is the constructor of
  `LRLexer` that initialises `stringSymbols` with itself (LRlexer.hpp:25), which
  nothing calls.
- `LT`, `size`, `mark`, `release`, `toString` and `getSourceName` of
  `InputStream` add nothing to `LA`, the length and `getText`. A stream made by
  `InputStream(const char *, size_t)` from bytes that are no UTF-8 is never
  constructed, as its `load` throws.
- `EPSILON` is the whole right side of a rule, or is not in it, and is no left
  side (`EpsilonAssumption`); all grammars of the repository are so.
- `Capacity` is 3 so that small closures are rehashed; in libstdc++ the first
  rehash comes after 13 items. No grammar has more items than `Capacity` in a
  kernel itself.
- The last append of a FOLLOW step may be that of any symbol appended; in the
  code the symbols of a later place come later. The model has more behaviours,
  which only strengthens what holds.
- Printing, logging, formatting and display formats are left out; `display` is
  modelled for what it changes (it reverses the children of every node).

Bounds, all of them: `MaxInserts` (calls of `Insert`), `MaxArea`, `MaxTokens`
(tokens parsed), `MaxArgument` (how far arguments of a stream go beyond its
ends), `WORD`, `Capacity`, and the sets of boxes, targets, grammars, texts,
files, samples and integers.

Not modelled:

- `src/docs/html`: the pages Doxygen wrote, with its own scripts (search box,
  menus) and jQuery. They are the only JavaScript in the repository, generated
  and third-party, and no part of what the program does.
- `BoundingBox`'s setters and transformations, `Status`, `ATN`: plain code that
  the modelled parts do not call; see the plan.
- The overrun of `t_overflowBuffer` for nodes of more than four entries: what
  is behind the array is up to the build.
- Tokens and vocabulary, string keys, hashing, logging, rule contexts,
  listeners, cache, synchronization: see the inventory.

## 9. Findings

Each is the one property of a run that TLC finds violated.

| Run | The source says | The code does |
|---|---|---|
| `split_min3` | the assertions at spatialIndex.cpp:338: both groups reach `MinChildren` | with 4 and 3, which the `static_assert` admits, the first split fails them |
| `split_seeds` | spatialIndex.cpp:250 "Ensure the chosen seeds are different" | boxes that share their lower corner give seed 0 twice, and the split aborts |
| `search_stop` | spatialIndex.hpp:52: false means do not continue | the loop of one leaf ends, the next leaf's entries are reported (14 calls of 40 measured) |
| `destroy_once` | spatialIndex.hpp:222 deletes the node and its children | children moved by a split of an inner node are deleted twice (AddressSanitizer: heap-use-after-free at 17 and at 40 inserts, not at 12) |
| `rangeset_difference` | rangeSet.hpp:119 "resultInterval - rightInterval" | the difference is computed, and an empty set returned |
| `handlers_order` | dwd/test/example_5.cpp:27-29 reads name, amount, price in this order | handlers get them backwards, unless the tree was displayed once before (confirmed: "Name: 100, Amount: 2, Price: pen") |

Seen while modelling, without a statement in the repository to compare with:

- FOLLOW depends on the order of the rules. `S' -> S; C -> c; B -> C; A -> B;
  S -> A y` rejects "c y"; with `S -> A y` listed second it accepts it
  (confirmed with g++ 12). The cause is `notDone`, overwritten at
  grammar.cpp:121 and 126.
- Of two items with the same symbols and dot but different left sides one is
  lost (`Homonyms`), so that sentences are rejected.
- `parse` accepts as soon as rule 0 is complete, whatever the token: a grammar
  needs a start rule of its own.
- A parse of an empty list throws after it has pushed a state, and a rejected
  one leaves its stack; `StackIsPath` shows that neither harms the next parse.

## 10. Plan

Order so far: the split (the heart of the index), the tree around it, search and
destructor, the interval sets with their proofs, the LR compiler, then areas
that overflow, callbacks that insert, the lexer in front of the parser, and the
character stream with its decoder. Next:

1. **Rule text** (`LRStrategy::init`, `Rule`): lines, handlers' names and rule
   indices stay in step.
2. **BoundingBox**: the operations that change a box (`setAxis`, `expand`,
   `scale`, `translate`, `resize`, `boundingBox`, `reset`) as a small machine of
   two boxes; order of edges, union as least upper bound; the lattice laws as
   lemmas.
3. **Status** and **ATN**: a buffer with one owner, and numbered states with
   their transitions.
4. **Searches within searches**: a callback that calls `SearchTag`.
5. **Proofs**: `LeavesInOrder`, once its trees are walked by a recursive function.
