--------------------------- MODULE LRParserProofs ---------------------------
(***************************************************************************)
(* What parse has pushed is always a path of the automaton, for every      *)
(* grammar and every text: whatever FIRST and FOLLOW came to, which items  *)
(* updateClosure missed or addGotos merged, and which conflicts the table  *)
(* resolved in silence.  The first part is about the kernels, the second   *)
(* about the table, and the third about the stack.  Then comes what the    *)
(* lexer hands to parse, when FIRST and FOLLOW are right, that what parse  *)
(* accepts is a sentence, and last that a sound table rejects no sentence. *)
(***************************************************************************)
EXTENDS LRParser, FiniteSetTheorems, SequenceTheorems, WellFoundedInduction,
        TLAPS

\* s is a sequence, of whatever it holds.
IsSeq(s) == s \in Seq(ToSet(s))

\* The order of the natural numbers, as a relation.
Less == {p \in Nat \X Nat : p[1] < p[2]}

-----------------------------------------------------------------------------
\* The kernels.

WellFormed(c) ==
    /\ c.rule \in DOMAIN rules
    /\ c.dotIndex \in 0 .. Len(development(c))
    /\ c.dotIndex # 0 => development(c)[c.dotIndex] # EPSILON
    /\ AxiomOnTop /\ c.rule = 1 => c.lookAheads = {END}
    /\ c = ItemOf(c.rule, c.dotIndex, c.lookAheads)

\* The items are told apart by rule and dot, and the first kernel, whose dot is
\* before everything, is no other.
ItemsRight(k) ==
    LET items == kernels[k].items
    IN /\ \A c \in items : WellFormed(c)
       /\ \A a, b \in items : SameHash(a, b) => a = b
       /\ IF k = 1 THEN items = {ItemOf(1, 0, {END})}
                   ELSE \A c \in items : c.dotIndex # 0

\* An item that was added has a maker, itself or another one added with it.  The
\* first rule is not added if its left side is on no right side.
ClosureRight(k) ==
    LET closure == kernels[k].closure
    IN /\ \A a, b \in closure : SameHash(a, b) => a = b
       /\ \A c \in closure :
            /\ WellFormed(c)
            /\ c.dotIndex # 0 => c \in kernels[k].items
            /\ AxiomOnTop /\ c.rule = 1 /\ c.dotIndex = 0 => k = 1
            /\ c.dotIndex = 0 /\ c.rule # 1 =>
                 \E d \in closure : /\ ~ AtEnd(d)
                                    /\ AfterDot(d) = rules[c.rule].nonTerminal

\* Every item of the kernel a goto leads to is one of this closure, shifted.
Precedes(c, X, d) ==
    /\ c.rule = d.rule /\ c.dotIndex + 1 = d.dotIndex
    /\ ~ AtEnd(c) /\ AfterDot(c) = X

GotosRight(k) ==
    LET gotos == kernels[k].gotos
    IN \A X \in DOMAIN gotos :
         /\ gotos[X] \in 2 .. Len(kernels)
         /\ X # EPSILON
         /\ \A d \in kernels[gotos[X]].items :
              \E c \in kernels[k].closure : Precedes(c, X, d)

\* The symbols a kernel has gotos for when addGotos is done with it.
AfterDots(k) ==
    {AfterDot(c) : c \in {c \in kernels[k].closure :
                            ~ AtEnd(c) /\ AfterDot(c) # EPSILON}}

IsKernel(r) ==
    /\ r = [items |-> r.items, closure |-> r.closure, gotos |-> r.gotos]
    /\ r.gotos = [X \in DOMAIN r.gotos |-> r.gotos[X]]

Done(k) == phase \in {"states", "ready"} \/ k < kernelIndex
Underway(k) == phase = "gotos" /\ k = kernelIndex

GotosComplete ==
    /\ \A k \in DOMAIN kernels :
         /\ Done(k) => DOMAIN kernels[k].gotos = AfterDots(k)
         /\ ~ Done(k) /\ ~ Underway(k) =>
              kernels[k].closure = {} /\ DOMAIN kernels[k].gotos = {}
    /\ phase = "gotos" =>
         /\ kernelIndex \in DOMAIN kernels
         /\ keys \cup DOMAIN kernel.gotos = AfterDots(kernelIndex)
         /\ keys \cap DOMAIN kernel.gotos = {}

Building == {"firsts", "follows", "closure", "gotos"}

Graph ==
    /\ rules \in Grammars
    /\ phase \in Building \cup {"states", "ready"}
    /\ IsSeq(kernels) /\ kernels # <<>>
    /\ kernelIndex \in 1 .. Len(kernels) + 1
    /\ phase \in {"firsts", "follows"} => kernelIndex = 1
    /\ \A k \in DOMAIN kernels :
         /\ IsKernel(kernels[k])
         /\ ItemsRight(k) /\ ClosureRight(k) /\ GotosRight(k)
    /\ GotosComplete

-----------------------------------------------------------------------------
\* The table: a state shifts along the gotos of its kernel, and reduces by
\* rules that its closure has items of.
RowRight(k) ==
    LET gotos == kernels[k].gotos
        row == states[k]
    IN /\ row.lrGoto = [X \in DOMAIN gotos \ terminals |-> gotos[X]]
       /\ \A t \in DOMAIN row.lrAction :
            /\ row.lrAction[t].kind = "shift" =>
                 /\ t \in DOMAIN gotos \cap terminals
                 /\ row.lrAction[t].n = gotos[t]
            /\ row.lrAction[t].kind = "reduce" =>
                 /\ row.lrAction[t].n # 1
                 /\ \E c \in kernels[k].closure :
                      c.rule = row.lrAction[t].n /\ Reducible(c)
            /\ row.lrAction[t].kind = "accept" =>
                 \E c \in kernels[k].closure :
                   c.rule = 1 /\ Reducible(c) /\ t \in c.lookAheads

Table ==
    /\ IsSeq(states)
    /\ phase \in Building => states = <<>>
    /\ phase = "states" => Len(states) = kernelIndex - 1
    /\ phase = "ready" => Len(states) = Len(kernels)
    /\ \A k \in DOMAIN states : RowRight(k)

-----------------------------------------------------------------------------
\* The stack.
IsPath(depth) ==
    /\ Len(stack) = bottom + 2 * depth
    /\ stack[bottom] = Goto(1)
    /\ \A m \in 0 .. depth :
         \E k \in DOMAIN kernels : stack[bottom + 2 * m] = Goto(k)
    /\ \A m \in 0 .. depth - 1 : Follows(bottom + 2 * m)

Pushed ==
    /\ IsSeq(stack)
    /\ outcome = "parsing" =>
         /\ phase = "ready"
         /\ bottom \in 1 .. Len(stack)
         /\ \E depth \in 0 .. Len(stack) : IsPath(depth)

IInv == Graph /\ Table /\ Pushed
-----------------------------------------------------------------------------
\* Sequences of whatever they hold.
LEMMA SeqFacts ==
    ASSUME NEW s, IsSeq(s)
    PROVE  Len(s) \in Nat /\ DOMAIN s = 1 .. Len(s) /\ s \in [1 .. Len(s) -> ToSet(s)]
  BY LenProperties, Zenon DEF IsSeq

LEMMA SeqOfAny == \A S : \A s \in Seq(S) : IsSeq(s)
<1> SUFFICES ASSUME NEW S, NEW s \in Seq(S) PROVE s \in Seq(ToSet(s))
  BY Zenon DEF IsSeq
<1>1. Len(s) \in Nat /\ s \in [1 .. Len(s) -> S] /\ DOMAIN s = 1 .. Len(s)
  BY LenProperties
<1>2. s \in [1 .. Len(s) -> ToSet(s)]
  BY <1>1 DEF ToSet
<1> QED
  BY <1>1, <1>2, SeqDef

LEMMA EmptyIsSeq == IsSeq(<<>>) /\ Len(<<>>) = 0 /\ DOMAIN <<>> = {}
<1>1. <<>> \in Seq({}) /\ Len(<<>>) = 0
  BY EmptySeq
<1>2. DOMAIN <<>> = 1 .. Len(<<>>)
  BY <1>1, LenProperties
<1>3. DOMAIN <<>> = {}
  BY <1>1, <1>2
<1> QED
  BY <1>1, <1>3, SeqOfAny, Zenon

LEMMA Appended ==
    ASSUME NEW s, IsSeq(s), NEW e
    PROVE  /\ IsSeq(Append(s, e))
           /\ Len(Append(s, e)) = Len(s) + 1
           /\ \A k \in 1 .. Len(s) : Append(s, e)[k] = s[k]
           /\ Append(s, e)[Len(s) + 1] = e
<1> DEFINE S == ToSet(s) \cup {e}
<1>1. s \in Seq(S)
  <2>1. ToSet(s) \subseteq S
    OBVIOUS
  <2> HIDE DEF S
  <2> QED
    BY <2>1, SeqMonotonic DEF IsSeq
<1>2. e \in S
  OBVIOUS
<1> HIDE DEF S
<1>3. /\ Append(s, e) \in Seq(S)
      /\ Len(Append(s, e)) = Len(s) + 1
      /\ \A k \in 1 .. Len(s) : Append(s, e)[k] = s[k]
      /\ Append(s, e)[Len(s) + 1] = e
  BY <1>1, <1>2, AppendProperties
<1> QED
  BY <1>3, SeqOfAny, Zenon

LEMMA Renewed ==
    ASSUME NEW s, IsSeq(s), NEW t, DOMAIN t = DOMAIN s, t = [k \in DOMAIN t |-> t[k]]
    PROVE  IsSeq(t) /\ Len(t) = Len(s)
<1>1. Len(s) \in Nat /\ DOMAIN t = 1 .. Len(s)
  BY SeqFacts
<1>2. t \in [1 .. Len(s) -> ToSet(t)]
  BY <1>1 DEF ToSet
<1>3. t \in Seq(ToSet(t))
  BY <1>1, <1>2, SeqDef
<1>4. Len(t) = Len(s)
  BY <1>1, <1>3, LenProperties
<1> QED
  BY <1>3, <1>4 DEF IsSeq

LEMMA Prefix ==
    ASSUME NEW s, IsSeq(s), NEW n \in 0 .. Len(s)
    PROVE  /\ IsSeq(SubSeq(s, 1, n))
           /\ Len(SubSeq(s, 1, n)) = n
           /\ \A k \in 1 .. n : SubSeq(s, 1, n)[k] = s[k]
<1>1. Len(s) \in Nat /\ n \in Int
  BY SeqFacts
<1>2. \A k \in 1 .. n : s[k] \in ToSet(s)
  <2>1. \A k \in 1 .. n : k \in DOMAIN s
    BY <1>1, SeqFacts
  <2> QED
    BY <2>1, Zenon DEF ToSet
<1>3. PICK p : p = SubSeq(s, 1, n)
  OBVIOUS
<1>4. /\ p \in Seq(ToSet(s))
      /\ Len(p) = IF 1 <= n THEN n - 1 + 1 ELSE 0
      /\ \A k \in 1 .. n - 1 + 1 : p[k] = s[1 + k - 1]
  BY <1>1, <1>2, <1>3, SubSeqProperties
<1>5. Len(p) = n /\ \A k \in 1 .. n : p[k] = s[k]
  BY <1>1, <1>4
<1>6. IsSeq(p)
  BY <1>4, SeqOfAny, Zenon
<1> QED
  BY <1>3, <1>5, <1>6, Zenon

\* Two entries on top of a sequence.
LEMMA PushedTwo ==
    ASSUME NEW s, IsSeq(s), NEW a, NEW b
    PROVE  /\ IsSeq(s \o <<a, b>>)
           /\ Len(s \o <<a, b>>) = Len(s) + 2
           /\ \A k \in 1 .. Len(s) : (s \o <<a, b>>)[k] = s[k]
           /\ (s \o <<a, b>>)[Len(s) + 1] = a
           /\ (s \o <<a, b>>)[Len(s) + 2] = b
<1> DEFINE S == ToSet(s) \cup {a, b}
           t == <<a, b>>
<1>1. s \in Seq(S)
  <2>1. ToSet(s) \subseteq S
    OBVIOUS
  <2> HIDE DEF S
  <2> QED
    BY <2>1, SeqMonotonic DEF IsSeq
<1>2. t \in Seq(S) /\ Len(t) = 2 /\ t[1] = a /\ t[2] = b
  OBVIOUS
<1>3. Len(s) \in Nat
  BY SeqFacts
<1> HIDE DEF S, t
<1>4. /\ s \o t \in Seq(S)
      /\ Len(s \o t) = Len(s) + Len(t)
      /\ \A i \in 1 .. Len(s) + Len(t) :
           (s \o t)[i] = IF i <= Len(s) THEN s[i] ELSE t[i - Len(s)]
  BY <1>1, <1>2, ConcatProperties
<1>5. \A k \in 1 .. Len(s) : (s \o t)[k] = s[k]
  BY <1>2, <1>3, <1>4
<1>6. (s \o t)[Len(s) + 1] = a
  <2>1. Len(s) + 1 \in 1 .. Len(s) + Len(t) /\ ~ (Len(s) + 1 <= Len(s))
        /\ (Len(s) + 1) - Len(s) = 1
    BY <1>2, <1>3
  <2> QED
    BY <1>2, <1>4, <2>1, Zenon
<1>7. (s \o t)[Len(s) + 2] = b
  <2>1. Len(s) + 2 \in 1 .. Len(s) + Len(t) /\ ~ (Len(s) + 2 <= Len(s))
        /\ (Len(s) + 2) - Len(s) = 2
    BY <1>2, <1>3
  <2> QED
    BY <1>2, <1>4, <2>1, Zenon
<1>8. IsSeq(s \o t)
  BY <1>4, SeqOfAny, Zenon
<1> USE DEF t
<1> QED
  BY <1>2, <1>4, <1>5, <1>6, <1>7, <1>8, Zenon

-----------------------------------------------------------------------------
\* Less relates the smaller number to the larger.
LEMMA InLess == \A x, y \in Nat : y < x => <<y, x>> \in Less
  BY DEF Less

\* A set of natural numbers has a least element.
LEMMA LeastOfNats ==
    ASSUME NEW S, S \subseteq Nat, S # {}
    PROVE  /\ Min(S) \in S
           /\ \A n \in S : Min(S) <= n
<1>1. IsWellFoundedOn(Less, Nat)
  BY NatLessThanWellFounded, Zenon DEF OpToRel, Less
<1>2. PICK x \in S : \A y \in S : ~ (<<y, x>> \in Less)
  BY <1>1, WFMin
<1>3. \A y \in S : x <= y
  <2>1. \A y \in S : ~ (y < x)
    BY <1>2, InLess
  <2> QED
    BY <2>1
<1> QED
  BY <1>3, Zenon DEF Min

\* A set of natural numbers with a bound has a greatest element.
LEMMA GreatestOfNats ==
    ASSUME NEW S, S \subseteq Nat, S # {},
           NEW b \in Nat, \A n \in S : n <= b
    PROVE  \E n \in S : \A m \in S : m <= n
<1> DEFINE D == {b - n : n \in S}
<1>1. D \subseteq Nat
  OBVIOUS
<1>0. D # {}
  OBVIOUS
<1>2. Min(D) \in D /\ \A d \in D : Min(D) <= d
  BY <1>0, <1>1, LeastOfNats
<1>3. PICK x \in S : Min(D) = b - x
  BY <1>2
<1>4. ASSUME NEW y \in S PROVE y <= x
  <2>1. b - x <= b - y
    BY <1>2, <1>3
  <2> QED
    BY <2>1
<1> QED
  BY <1>4

\* What the assumptions on grammars say of the one that is compiled.
LEMMA RulesFacts ==
    ASSUME rules \in Grammars
    PROVE  /\ Len(rules) \in Nat \ {0} /\ DOMAIN rules = 1 .. Len(rules)
           /\ \A r \in DOMAIN rules :
                LET right == rules[r].development
                IN /\ Len(right) \in Nat \ {0}
                   /\ Head(right) = right[1]
                   /\ rules[r].nonTerminal # EPSILON
                   /\ right[1] = EPSILON => right = <<EPSILON>>
<1>1. IsSeq(rules) /\ rules # <<>>
  BY GrammarsAssumption DEF IsSeq
<1>2. \A s : IsSeq(s) /\ s # <<>> => Len(s) \in Nat \ {0} /\ DOMAIN s = 1 .. Len(s)
  <2> TAKE s
  <2> HAVE IsSeq(s) /\ s # <<>>
  <2>1. Len(s) \in Nat /\ DOMAIN s = 1 .. Len(s)
    BY SeqFacts
  <2>2. Len(s) # 0
    BY EmptySeq DEF IsSeq
  <2> QED
    BY <2>1, <2>2
<1>3. ASSUME NEW r \in DOMAIN rules
      PROVE  LET right == rules[r].development
             IN /\ Len(right) \in Nat \ {0}
                /\ Head(right) = right[1]
                /\ rules[r].nonTerminal # EPSILON
                /\ right[1] = EPSILON => right = <<EPSILON>>
  <2> DEFINE right == rules[r].development
  <2>1. IsSeq(right) /\ right # <<>>
    BY GrammarsAssumption DEF IsSeq
  <2>2. /\ rules[r].nonTerminal # EPSILON
        /\ EPSILON \in ToSet(right) => right = <<EPSILON>>
    BY EpsilonAssumption, Zenon
  <2> HIDE DEF right
  <2>3. Len(right) \in Nat \ {0} /\ DOMAIN right = 1 .. Len(right)
    BY <1>2, <2>1, Zenon
  <2>4. Head(right) = right[1]
    BY <2>1, HeadTailProperties DEF IsSeq
  <2>5. right[1] \in ToSet(right)
    <3>1. 1 \in DOMAIN right
      BY <2>3
    <3> QED
      BY <3>1 DEF ToSet
  <2>6. /\ Len(right) \in Nat \ {0} /\ Head(right) = right[1]
        /\ rules[r].nonTerminal # EPSILON
        /\ right[1] = EPSILON => right = <<EPSILON>>
    BY <2>2, <2>3, <2>4, <2>5, Zenon
  <2> QED
    BY <2>6, Zenon DEF right
<1> QED
  BY <1>1, <1>2, <1>3, Zenon
-----------------------------------------------------------------------------
\* The stack.

\* The kernel of the state that is m gotos above the bottom.
LEMMA StateAt ==
    ASSUME NEW depth \in Nat, IsPath(depth), NEW m \in 0 .. depth
    PROVE  /\ stack[bottom + 2 * m].state \in DOMAIN kernels
           /\ stack[bottom + 2 * m] = Goto(stack[bottom + 2 * m].state)
<1>1. PICK k \in DOMAIN kernels : stack[bottom + 2 * m] = Goto(k)
  BY DEF IsPath
<1>2. Goto(k).state = k
  BY DEF Goto
<1> QED
  BY <1>1, <1>2

\* The way back from an item: if its dot is behind n symbols, the last n gotos
\* were over these, and below them the item stood at its beginning.
LEMMA WayBack ==
    ASSUME Graph, IsSeq(stack), bottom \in Nat, NEW depth \in Nat, IsPath(depth),
           NEW c \in kernels[stack[bottom + 2 * depth].state].closure,
           NEW i \in 0 .. c.dotIndex
    PROVE  /\ i <= depth
           /\ \E d \in kernels[stack[bottom + 2 * (depth - i)].state].closure :
                d.rule = c.rule /\ d.dotIndex = c.dotIndex - i
           /\ \A l \in 1 .. i :
                Spells(stack[bottom + 2 * (depth - l) + 1],
                       development(c)[c.dotIndex - l + 1])
<1> DEFINE At(m) == stack[bottom + 2 * m].state
           Spelled(l) == Spells(stack[bottom + 2 * (depth - l) + 1],
                                development(c)[c.dotIndex - l + 1])
           Reaches(n) == /\ n <= depth
                         /\ \E d \in kernels[At(depth - n)].closure :
                              d.rule = c.rule /\ d.dotIndex = c.dotIndex - n
                         /\ \A l \in 1 .. n : Spelled(l)
           bad == {n \in 0 .. c.dotIndex : ~ Reaches(n)}
<1>1. At(depth) \in DOMAIN kernels
  BY StateAt
<1>2. /\ c.rule \in DOMAIN rules
      /\ c.dotIndex \in Nat
      /\ Len(development(c)) \in Nat
  <2>1. WellFormed(c)
    BY <1>1 DEF Graph, ClosureRight
  <2>2. Len(development(c)) \in Nat
    BY <2>1, RulesFacts DEF Graph, WellFormed, development
  <2> QED
    BY <2>1, <2>2 DEF WellFormed
<1>3. Reaches(0)
  <2>1. depth - 0 = depth /\ c.dotIndex - 0 = c.dotIndex /\ 0 <= depth
    BY <1>2
  <2>2. \A l \in 1 .. 0 : Spelled(l)
    OBVIOUS
  <2> HIDE DEF Spelled
  <2> QED
    BY <2>1, <2>2, Zenon
<1>4. ASSUME NEW n \in 1 .. c.dotIndex, Reaches(n - 1) PROVE Reaches(n)
  <2> DEFINE m == depth - n
  <2>1. PICK d \in kernels[At(depth - (n - 1))].closure :
          d.rule = c.rule /\ d.dotIndex = c.dotIndex - (n - 1)
    BY <1>4, Zenon
  <2>2. n - 1 \in Int /\ n - 1 <= depth /\ depth - (n - 1) = m + 1
    BY <1>2, <1>4
  <2>3. m + 1 \in 0 .. depth
    BY <1>2, <2>2
  <2> HIDE DEF At
  <2>4. d.dotIndex # 0
    BY <1>2, <2>1
  <2>5. At(m + 1) \in DOMAIN kernels
    BY <2>3, StateAt DEF At
  <2>6. d \in kernels[At(m + 1)].items
    BY <2>1, <2>2, <2>4, <2>5 DEF Graph, ClosureRight
  <2>7. At(m + 1) # 1
    <3>1. ItemOf(1, 0, {END}).dotIndex = 0
      BY DEF ItemOf
    <3> QED
      BY <2>4, <2>5, <2>6, <3>1 DEF Graph, ItemsRight
  <2>8. m \in 0 .. depth - 1
    <3>1. At(0) = 1
      BY DEF IsPath, At, Goto
    <3>2. m + 1 # 0
      BY <2>7, <3>1
    <3> QED
      BY <2>3, <3>2
  <2>9. PICK X \in DOMAIN kernels[At(m)].gotos :
          /\ Spells(stack[bottom + 2 * m + 1], X)
          /\ stack[bottom + 2 * m + 2] = Goto(kernels[At(m)].gotos[X])
    BY <2>8, Zenon DEF IsPath, Follows, At
  <2>10. At(m + 1) = kernels[At(m)].gotos[X]
    <3>1. bottom + 2 * (m + 1) = bottom + 2 * m + 2
      BY <2>8
    <3> QED
      BY <2>9, <3>1 DEF At, Goto
  <2>11. At(m) \in DOMAIN kernels
    <3>1. m \in 0 .. depth
      BY <2>8
    <3> QED
      BY <3>1, StateAt DEF At
  <2>12. PICK e \in kernels[At(m)].closure : Precedes(e, X, d)
    BY <2>6, <2>9, <2>10, <2>11, Zenon DEF Graph, GotosRight
  <2>13. e.rule = c.rule /\ e.dotIndex = c.dotIndex - n
    <3>1. e.dotIndex \in Nat
      BY <2>11, <2>12 DEF Graph, ClosureRight, WellFormed
    <3>2. /\ e.rule = c.rule /\ d.dotIndex = c.dotIndex - (n - 1)
          /\ e.dotIndex + 1 = d.dotIndex
      BY <2>1, <2>12, Zenon DEF Precedes
    <3>3. \A a, b, o \in Nat : a + 1 = b - (o - 1) => a = b - o
      OBVIOUS
    <3>4. c.dotIndex \in Nat /\ n \in Nat
      BY <1>2
    <3>5. e.dotIndex + 1 = c.dotIndex - (n - 1)
      BY <3>2, Zenon
    <3> QED
      BY <3>1, <3>2, <3>3, <3>4, <3>5, Zenon
  <2>14. X = development(c)[c.dotIndex - n + 1]
    BY <2>12, <2>13 DEF Precedes, AfterDot, development
  <2>15. Spelled(n)
    BY <2>9, <2>14, Zenon
  <2>16. n <= depth
    BY <2>8
  <2>17. \A l \in 1 .. n : Spelled(l)
    <3> HIDE DEF Spelled
    <3>1. \A l \in 1 .. n : l \in 1 .. n - 1 \/ l = n
      BY <1>2
    <3> QED
      BY <1>4, <2>15, <3>1, Zenon
  <2> HIDE DEF Spelled
  <2> QED
    BY <2>12, <2>13, <2>16, <2>17, Zenon
<1>5. bad = {}
  <2> HIDE DEF Reaches
  <2> SUFFICES ASSUME bad # {} PROVE FALSE
    OBVIOUS
  <2>1. bad \subseteq Nat
    BY <1>2
  <2>2. PICK n : n \in bad /\ \A l \in bad : n <= l
    BY <2>1, LeastOfNats, Zenon
  <2>3. n \in 1 .. c.dotIndex
    BY <1>2, <1>3, <2>2
  <2>4. n - 1 \in 0 .. c.dotIndex /\ ~ (n <= n - 1)
    BY <1>2, <2>3
  <2>5. Reaches(n - 1)
    BY <2>2, <2>4, Zenon
  <2> QED
    BY <1>4, <2>2, <2>3, <2>5, Zenon
<1>6. Reaches(i)
  <2> HIDE DEF Reaches
  <2> QED
    BY <1>5
<1> HIDE DEF bad
<1> QED
  BY <1>6, Zenon DEF Spelled

\* The number of entries under a path, and with one more goto on it.
LEMMA PathArith ==
    ASSUME NEW b \in Nat \ {0}, NEW d \in Nat, NEW here, here = b + 2 * d
    PROVE  /\ b \in 1 .. here /\ b \in 1 .. here + 2
           /\ d + 1 \in 0 .. here + 2 /\ here + 2 = b + 2 * (d + 1)
           /\ here \in 1 .. here
  OBVIOUS

\* A goto that is not the last one.
LEMMA BelowArith ==
    ASSUME NEW b \in Nat \ {0}, NEW depth \in Nat, NEW d \in 0 .. depth,
           NEW here, here = b + 2 * d, NEW m \in 0 .. d, m # d
    PROVE  /\ m \in 0 .. depth - 1
           /\ b + 2 * m \in 1 .. here
           /\ b + 2 * m + 1 \in 1 .. here
           /\ b + 2 * m + 2 \in 1 .. here
  OBVIOUS

\* Two entries pushed behind d gotos: one that spells X, and the goto for X of
\* the kernel there.
LEMMA PushesAt ==
    ASSUME Graph, bottom \in Nat \ {0}, NEW depth \in Nat, IsPath(depth),
           NEW d \in 0 .. depth, NEW here, here = bottom + 2 * d,
           NEW k, k = stack[here].state,
           NEW X \in DOMAIN kernels[k].gotos,
           Len(stack') = here + 2,
           \A j \in 1 .. here : stack'[j] = stack[j],
           Spells(stack[here + 1], X)',
           stack'[here + 2] = Goto(kernels[k].gotos[X]),
           rules' = rules, kernels' = kernels, bottom' = bottom
    PROVE  /\ bottom \in 1 .. Len(stack')
           /\ d + 1 \in 0 .. Len(stack')
           /\ IsPath(d + 1)'
<1> DEFINE next == kernels[k].gotos[X]
<1>1. d \in Nat
  OBVIOUS
<1>2. k \in DOMAIN kernels /\ stack[here] = Goto(k)
  BY StateAt
<1>3. next \in DOMAIN kernels
  <2>1. next \in 2 .. Len(kernels)
    BY <1>2, Zenon DEF Graph, GotosRight
  <2>2. DOMAIN kernels = 1 .. Len(kernels)
    BY SeqFacts, Zenon DEF Graph
  <2>3. \A l : l \in 2 .. Len(kernels) => l \in 1 .. Len(kernels)
    OBVIOUS
  <2> QED
    BY <2>1, <2>2, <2>3, Zenon
<1> HIDE DEF next
<1>5. /\ bottom \in 1 .. here /\ bottom \in 1 .. here + 2
      /\ d + 1 \in 0 .. here + 2 /\ here + 2 = bottom + 2 * (d + 1)
      /\ here \in 1 .. here
  BY <1>1, PathArith, Zenon
<1>6. stack'[bottom] = Goto(1)
  BY <1>5, Zenon DEF IsPath
<1>7. ASSUME NEW m \in 0 .. d + 1
      PROVE  \E j \in DOMAIN kernels : stack'[bottom + 2 * m] = Goto(j)
  <2>1. CASE m = d + 1
    <3>1. bottom + 2 * m = here + 2
      BY <1>5, <2>1, Zenon
    <3> QED
      BY <1>3, <3>1, Zenon DEF next
  <2>2. CASE m # d + 1
    <3>1. m \in 0 .. depth /\ bottom + 2 * m \in 1 .. here
      BY <1>1, <2>2
    <3>2. stack'[bottom + 2 * m] = stack[bottom + 2 * m]
      BY <3>1
    <3> QED
      BY <3>1, <3>2, Zenon DEF IsPath
  <2> QED
    BY <2>1, <2>2
<1>8. ASSUME NEW m \in 0 .. d PROVE Follows(bottom + 2 * m)'
  <2>1. CASE m = d
    <3>1. stack'[here] = Goto(k) /\ Goto(k).state = k
      BY <1>2, <1>5 DEF Goto
    <3>3. stack'[here].state = k
      BY <3>1, Zenon
    <3>4. Follows(here)'
      <4>1. X \in DOMAIN kernels'[stack'[here].state].gotos
        BY <3>3, Zenon
      <4>2. stack'[here + 2] = Goto(kernels'[stack'[here].state].gotos[X])
        BY <3>3, Zenon
      <4> QED
        BY <4>1, <4>2 DEF Follows, Goto
    <3> QED
      BY <2>1, <3>4, Zenon
  <2>2. CASE m # d
    <3>1. /\ m \in 0 .. depth - 1
          /\ bottom + 2 * m \in 1 .. here
          /\ bottom + 2 * m + 1 \in 1 .. here
          /\ bottom + 2 * m + 2 \in 1 .. here
      BY <1>1, <2>2, BelowArith, Zenon
    <3>2. Follows(bottom + 2 * m)
      BY <3>1 DEF IsPath
    <3>3. /\ stack'[bottom + 2 * m] = stack[bottom + 2 * m]
          /\ stack'[bottom + 2 * m + 1] = stack[bottom + 2 * m + 1]
          /\ stack'[bottom + 2 * m + 2] = stack[bottom + 2 * m + 2]
      BY <3>1, Zenon
    <3>4. PICK Y \in DOMAIN kernels[stack[bottom + 2 * m].state].gotos :
            /\ Spells(stack[bottom + 2 * m + 1], Y)
            /\ stack[bottom + 2 * m + 2] =
                 Goto(kernels[stack[bottom + 2 * m].state].gotos[Y])
      BY <3>2, Zenon DEF Follows
    <3>5. Spells(stack[bottom + 2 * m + 1], Y)'
      BY <3>3, <3>4 DEF Spells, Terminal, nullptr, IsEpsilonRule
    <3>6. /\ Y \in DOMAIN kernels'[stack'[bottom + 2 * m].state].gotos
          /\ stack'[bottom + 2 * m + 2] =
               Goto(kernels'[stack'[bottom + 2 * m].state].gotos[Y])
      BY <3>3, <3>4
    <3> QED
      BY <3>5, <3>6 DEF Follows, Goto
  <2> QED
    BY <2>1, <2>2
<1>9. \A m \in 0 .. (d + 1) - 1 : m \in 0 .. d
  BY <1>1
<1>10. IsPath(d + 1)'
  BY <1>5, <1>6, <1>7, <1>8, <1>9 DEF IsPath
<1> QED
  BY <1>5, <1>10, Zenon

\* Where the table is asked: at a state whose row was built from its kernel.
LEMMA RowAt ==
    ASSUME Graph, Table, phase = "ready", NEW k \in DOMAIN kernels
    PROVE  k \in DOMAIN states /\ RowRight(k)
<1>1. DOMAIN kernels = 1 .. Len(kernels) /\ DOMAIN states = 1 .. Len(states)
  BY SeqFacts DEF Graph, Table
<1> QED
  BY <1>1 DEF Table

LEMMA TopIs ==
    ASSUME IsSeq(stack), bottom \in Nat \ {0}, NEW depth \in Nat, IsPath(depth)
    PROVE  top = stack[bottom + 2 * depth]
  BY DEF IsPath, top, Last

\* A rule that is not empty has no EPSILON, so it is reduced at its end.
LEMMA ReducibleItem ==
    ASSUME Graph, NEW c, WellFormed(c), Reducible(c)
    PROVE  c.dotIndex = IF IsEpsilonRule(rules[c.rule]) THEN 0
                        ELSE Len(development(c))
<1> DEFINE right == rules[c.rule].development
<1>1. /\ c.rule \in DOMAIN rules
      /\ c.dotIndex \in 0 .. Len(right)
      /\ c.dotIndex # 0 => right[c.dotIndex] # EPSILON
  BY DEF WellFormed, development
<1>2. /\ Len(right) \in Nat \ {0} /\ Head(right) = right[1]
      /\ right[1] = EPSILON => right = <<EPSILON>>
  BY <1>1, RulesFacts DEF Graph
<1>3. c.dotIndex >= Len(right) \/ Head(right) = EPSILON
  BY DEF Reducible, AtEnd, development
<1>4. CASE right = <<EPSILON>>
  <2>1. Len(right) = 1 /\ right[1] = EPSILON
    BY <1>4
  <2> QED
    BY <1>1, <1>4, <2>1 DEF IsEpsilonRule
<1>5. CASE right # <<EPSILON>>
  <2>1. c.dotIndex = Len(right)
    BY <1>1, <1>2, <1>3, <1>5
  <2> QED
    BY <1>5, <2>1 DEF IsEpsilonRule, development
<1> QED
  BY <1>4, <1>5

\* A reduction finds its rule on the stack, and the kernel below it has a goto
\* for the rule's left side.
LEMMA Reduction ==
    ASSUME Graph, Table, Pushed, NEW depth \in Nat, IsPath(depth), Does("reduce"),
           NEW n, n = IF IsEpsilonRule(reducedRule) THEN 0
                      ELSE Len(reducedRule.development)
    PROVE  /\ n \in 0 .. depth
           /\ reducedRule.nonTerminal \in
                DOMAIN kernels[stack[bottom + 2 * (depth - n)].state].gotos \ terminals
           /\ \A l \in 1 .. n : Spells(stack[bottom + 2 * (depth - l) + 1],
                                       reducedRule.development[n - l + 1])
<1> DEFINE k == stack[bottom + 2 * depth].state
           j == stack[bottom + 2 * (depth - n)].state
<1>1. /\ phase = "ready" /\ IsSeq(stack)
      /\ bottom \in Nat \ {0} /\ bottom \in 1 .. Len(stack)
  <2>1. Len(stack) \in Nat
    BY SeqFacts DEF Pushed
  <2> QED
    BY <2>1 DEF Pushed, Does, Reads
<1>2. k \in DOMAIN kernels
  BY StateAt
<1>3. PICK c \in kernels[k].closure :
        c.rule = action.n /\ Reducible(c) /\ action.n # 1
  <2>1. state = states[k]
    BY <1>1, TopIs DEF state
  <2>2. RowRight(k)
    BY <1>1, <1>2, RowAt
  <2>3. token \in DOMAIN states[k].lrAction
        /\ states[k].lrAction[token].kind = "reduce"
    BY <2>1 DEF Does
  <2> QED
    BY <2>1, <2>2, <2>3, Zenon DEF RowRight, action
<1>4. WellFormed(c) /\ c.rule \in DOMAIN rules /\ c.dotIndex \in Nat
  <2>1. WellFormed(c)
    BY <1>2, Zenon DEF Graph, ClosureRight
  <2> QED
    BY <2>1 DEF WellFormed
<1>5. c.dotIndex = n /\ reducedRule.development = development(c)
  <2>1. reducedRule = rules[c.rule]
    BY <1>3 DEF reducedRule
  <2> QED
    BY <1>3, <1>4, <2>1, ReducibleItem, Zenon DEF development
<1>6. /\ n \in 0 .. c.dotIndex /\ n <= depth /\ n \in Nat
      /\ \E d \in kernels[j].closure : d.rule = c.rule /\ d.dotIndex = c.dotIndex - n
      /\ \A l \in 1 .. n : Spells(stack[bottom + 2 * (depth - l) + 1],
                                  development(c)[c.dotIndex - l + 1])
  <2>1. n \in 0 .. c.dotIndex /\ n \in Nat
    BY <1>4, <1>5
  <2> QED
    BY <1>1, <2>1, WayBack, Zenon
<1>7. PICK d \in kernels[j].closure : d.rule = action.n /\ d.dotIndex = 0
  BY <1>3, <1>4, <1>5, <1>6
<1>8. n \in 0 .. depth
  BY <1>6
<1>9. j \in DOMAIN kernels
  <2>1. depth - n \in 0 .. depth
    BY <1>8
  <2> QED
    BY <2>1, StateAt
<1> HIDE DEF j
<1>10. PICK e \in kernels[j].closure :
         ~ AtEnd(e) /\ AfterDot(e) = reducedRule.nonTerminal
  BY <1>3, <1>7, <1>9 DEF Graph, ClosureRight, reducedRule
<1>11. reducedRule.nonTerminal # EPSILON
  BY <1>3, <1>4, RulesFacts DEF Graph, reducedRule
<1>12. DOMAIN kernels[j].gotos = AfterDots(j)
  BY <1>1, <1>9 DEF Graph, GotosComplete, Done
<1>13. reducedRule.nonTerminal \in DOMAIN kernels[j].gotos
  BY <1>10, <1>11, <1>12 DEF AfterDots
<1>14. reducedRule.nonTerminal \notin terminals
  BY <1>3, <1>4 DEF reducedRule, terminals, TerminalsOf
<1> QED
  BY <1>5, <1>6, <1>8, <1>13, <1>14, Zenon DEF j

\* The parser's steps keep what is pushed a path.
LEMMA ShiftKeeps ==
    ASSUME Graph, Table, Pushed, shift PROVE Pushed'
<1>1. /\ phase = "ready" /\ outcome = "parsing" /\ IsSeq(stack)
      /\ bottom \in Nat \ {0}
  <2>1. Len(stack) \in Nat
    BY SeqFacts DEF Pushed
  <2> QED
    BY <2>1 DEF Pushed, shift, Does, Reads
<1>2. PICK depth \in 0 .. Len(stack) : IsPath(depth)
  BY <1>1 DEF Pushed
<1>3. depth \in Nat /\ Len(stack) \in Nat
  BY <1>1, SeqFacts
<1> DEFINE k == stack[bottom + 2 * depth].state
<1>4. k \in DOMAIN kernels
  BY <1>2, <1>3, StateAt
<1>5. token \in DOMAIN kernels[k].gotos /\ action.n = kernels[k].gotos[token]
  <2>1. state = states[k]
    BY <1>1, <1>2, <1>3, TopIs DEF state
  <2>2. RowRight(k)
    BY <1>1, <1>4, RowAt
  <2> QED
    BY <2>1, <2>2, Zenon DEF RowRight, action, shift, Does
<1> DEFINE entry == IF tokens[currIndex].type = "IDENTIFIER"
                      THEN ValueASTNode(currIndex) ELSE Terminal(token)
<1>6. Spells(entry, token)
  <2>1. CASE tokens[currIndex].type = "IDENTIFIER"
    BY <2>1 DEF Spells, ValueASTNode, token, keyOf
  <2>2. CASE tokens[currIndex].type # "IDENTIFIER"
    BY <2>2 DEF Spells
  <2> QED
    BY <2>1, <2>2
<1>7. /\ stack' = stack \o <<entry, Goto(kernels[k].gotos[token])>>
      /\ rules' = rules /\ kernels' = kernels /\ bottom' = bottom
      /\ phase' = phase /\ outcome' = outcome
  BY <1>5 DEF shift, grammarVars, kernelVars
<1> HIDE DEF entry
<1>8. PICK h, l, X, e, g : /\ h = bottom + 2 * depth /\ l = k /\ X = token
                           /\ e = entry /\ g = Goto(kernels[l].gotos[X])
  OBVIOUS
<1>9. /\ depth \in 0 .. depth /\ Len(stack) = h
      /\ \A j \in 1 .. h : stack[j] = stack[j]
      /\ l = stack[h].state /\ X \in DOMAIN kernels[l].gotos
      /\ stack' = stack \o <<e, g>>
  BY <1>2, <1>3, <1>5, <1>7, <1>8 DEF IsPath
<1>10. /\ IsSeq(stack')
       /\ Len(stack') = h + 2
       /\ \A j \in 1 .. h : stack'[j] = stack[j]
       /\ stack'[h + 1] = e
       /\ stack'[h + 2] = g
  <2> DEFINE t == stack \o <<e, g>>
  <2>3. /\ IsSeq(t)
        /\ Len(t) = Len(stack) + 2
        /\ \A j \in 1 .. Len(stack) : t[j] = stack[j]
        /\ t[Len(stack) + 1] = e
        /\ t[Len(stack) + 2] = g
    BY <1>1, PushedTwo
  <2> HIDE DEF t
  <2>4. stack' = t
    BY <1>9 DEF t
  <2> QED
    BY <1>9, <2>3, <2>4
<1>11. Spells(stack[h + 1], X)'
  BY <1>6, <1>7, <1>8, <1>10 DEF Spells, Terminal, nullptr, IsEpsilonRule
<1>12. bottom \in 1 .. Len(stack') /\ depth + 1 \in 0 .. Len(stack')
       /\ IsPath(depth + 1)'
  BY <1>1, <1>2, <1>3, <1>7, <1>8, <1>9, <1>10, <1>11, PushesAt
<1> QED
  BY <1>1, <1>7, <1>10, <1>12, Zenon DEF Pushed

\* How many symbols a reduction pops, and what it leaves: what was below them,
\* a node for the rule's left side, and the goto from there.
PoppedSymbols == IF IsEpsilonRule(reducedRule) THEN 0 ELSE Len(reducedRule.development)

Replaces(d, X) ==
    LET h == bottom + 2 * d
        k == stack[h].state
    IN /\ k \in DOMAIN kernels /\ X \in DOMAIN kernels[k].gotos
       /\ IsSeq(stack') /\ Len(stack') = h + 2
       /\ \A j \in 1 .. h : stack'[j] = stack[j]
       /\ Spells(stack'[h + 1], X)
       /\ stack'[h + 2] = Goto(kernels[k].gotos[X])

LEMMA ReducePushes ==
    ASSUME Graph, Table, Pushed, reduce, NEW depth \in Nat, IsPath(depth),
           NEW n \in Nat, n = PoppedSymbols
    PROVE  /\ phase = "ready" /\ outcome = "parsing" /\ bottom \in Nat \ {0}
           /\ phase' = phase /\ outcome' = outcome
           /\ rules' = rules /\ kernels' = kernels /\ bottom' = bottom
           /\ n \in 0 .. depth
           /\ Replaces(depth - n, reducedRule.nonTerminal)
<1>1. /\ phase = "ready" /\ outcome = "parsing" /\ IsSeq(stack)
      /\ bottom \in Nat \ {0}
  <2>1. Len(stack) \in Nat
    BY SeqFacts DEF Pushed
  <2> QED
    BY <2>1 DEF Pushed, reduce, Does, Reads
<1>2. IsPath(depth)
  OBVIOUS
<1>3. depth \in Nat /\ Len(stack) \in Nat /\ Len(stack) = bottom + 2 * depth
  BY <1>1, SeqFacts DEF IsPath
<1> DEFINE A == reducedRule.nonTerminal
           empty == IsEpsilonRule(reducedRule)
           k == stack[bottom + 2 * (depth - n)].state
           below == IF empty THEN stack ELSE Popped(2 * n)
           entry == IF empty THEN nullptr ELSE InterASTNode(action.n, poppedNodes)
<1>4. n \in 0 .. depth /\ A \in DOMAIN kernels[k].gotos \ terminals
  BY Reduction DEF reduce, PoppedSymbols
<1>5. /\ IsSeq(below) /\ Len(below) = bottom + 2 * (depth - n)
      /\ \A j \in 1 .. Len(below) : below[j] = stack[j]
  <2>1. CASE empty
    <3>1. n = 0 /\ below = stack
      BY <2>1 DEF PoppedSymbols
    <3> QED
      BY <1>1, <1>3, <3>1
  <2>2. CASE ~ empty
    <3>1. below = SubSeq(stack, 1, Len(stack) - 2 * n)
      BY <2>2 DEF Popped, PoppedSymbols
    <3> HIDE DEF below
    <3>2. /\ Len(stack) - 2 * n \in 0 .. Len(stack)
          /\ Len(stack) - 2 * n = bottom + 2 * (depth - n)
      BY <1>1, <1>3, <1>4
    <3> QED
      BY <1>1, <3>1, <3>2, Prefix, Zenon
  <2> QED
    BY <2>1, <2>2
<1>6. k \in DOMAIN kernels
  <2>1. depth - n \in 0 .. depth
    BY <1>3, <1>4
  <2> QED
    BY <1>2, <1>3, <2>1, StateAt
<1>7. Spells(entry, A)
  <2>1. CASE empty
    <3>1. action.n \in DOMAIN rules
      <4>1. PICK c \in kernels[stack[bottom + 2 * depth].state].closure : c.rule = action.n
        <5>1. stack[bottom + 2 * depth].state \in DOMAIN kernels
          BY <1>2, <1>3, StateAt
        <5>2. state = states[stack[bottom + 2 * depth].state]
          BY <1>1, <1>2, <1>3, TopIs DEF state
        <5>3. RowRight(stack[bottom + 2 * depth].state)
          BY <1>1, <5>1, RowAt
        <5> QED
          BY <5>2, <5>3, Zenon DEF RowRight, action, reduce, Does
      <4>2. stack[bottom + 2 * depth].state \in DOMAIN kernels
        BY <1>2, <1>3, StateAt
      <4> QED
        BY <4>1, <4>2, ZenonT(40) DEF Graph, ClosureRight, WellFormed
    <3> QED
      BY <2>1, <3>1 DEF Spells, reducedRule
  <2>2. CASE ~ empty
    BY <2>2 DEF Spells, InterASTNode, reducedRule
  <2> QED
    BY <2>1, <2>2
<1>8. /\ stack' = below \o <<entry, Goto(kernels[k].gotos[A])>>
      /\ rules' = rules /\ kernels' = kernels /\ bottom' = bottom
      /\ phase' = phase /\ outcome' = outcome
  <2>1. stack' = goTo(below, entry, A)
    <3>1. CASE empty
      BY <3>1 DEF reduce
    <3>2. CASE ~ empty
      <4>1. n = Len(reducedRule.development)
        BY <3>2 DEF PoppedSymbols
      <4> HIDE DEF empty
      <4>2. stack' = goTo(Popped(2 * n), InterASTNode(action.n, poppedNodes), A)
        BY <3>2, <4>1, Zenon DEF reduce, empty
      <4> QED
        BY <3>2, <4>2
    <3> QED
      BY <3>1, <3>2
  <2>2. Last(below).state = k
    <3>1. Len(below) \in 1 .. Len(below)
      BY <1>1, <1>3, <1>4, <1>5
    <3> HIDE DEF below
    <3> QED
      BY <1>5, <3>1 DEF Last
  <2>3. RowRight(k)
    BY <1>1, <1>6, RowAt
  <2>4. A \in DOMAIN states[k].lrGoto /\ states[k].lrGoto[A] = kernels[k].gotos[A]
    <3>1. states[k].lrGoto =
            [X \in DOMAIN kernels[k].gotos \ terminals |-> kernels[k].gotos[X]]
      BY <2>3, Zenon DEF RowRight
    <3> HIDE DEF k, A
    <3> QED
      BY <1>4, <3>1
  <2> HIDE DEF below, entry, k, A
  <2>5. stack' = below \o <<entry, Goto(kernels[k].gotos[A])>>
    BY <2>1, <2>2, <2>4, Zenon DEF goTo
  <2> QED
    BY <2>5 DEF reduce, grammarVars, kernelVars
<1> HIDE DEF below, entry, A
<1>9. PICK d, h, l, X, e, g :
        /\ d = depth - n /\ h = bottom + 2 * d /\ l = k /\ X = A
        /\ e = entry /\ g = Goto(kernels[l].gotos[X])
  OBVIOUS
<1>10. /\ d \in 0 .. depth /\ Len(below) = h
       /\ \A j \in 1 .. h : below[j] = stack[j]
       /\ l = stack[h].state /\ X \in DOMAIN kernels[l].gotos
       /\ stack' = below \o <<e, g>>
  <2>1. d \in 0 .. depth
    BY <1>3, <1>4, <1>9
  <2>2. A \in DOMAIN kernels[k].gotos
    BY <1>4
  <2> QED
    BY <1>5, <1>8, <1>9, <2>1, <2>2, Zenon
<1> HIDE DEF k
<1>11. /\ IsSeq(stack')
       /\ Len(stack') = h + 2
       /\ \A j \in 1 .. h : stack'[j] = stack[j]
       /\ stack'[h + 1] = e
       /\ stack'[h + 2] = g
  <2>1. PICK b : b = below
    OBVIOUS
  <2>2. /\ IsSeq(b) /\ Len(b) = h /\ stack' = b \o <<e, g>>
        /\ \A j \in 1 .. h : b[j] = stack[j]
    BY <1>5, <1>10, <2>1, Zenon
  <2> DEFINE t == b \o <<e, g>>
  <2>3. /\ IsSeq(t)
        /\ Len(t) = Len(b) + 2
        /\ \A j \in 1 .. Len(b) : t[j] = b[j]
        /\ t[Len(b) + 1] = e
        /\ t[Len(b) + 2] = g
    BY <2>2, PushedTwo
  <2> HIDE DEF t
  <2>4. stack' = t
    BY <2>2 DEF t
  <2> QED
    BY <2>2, <2>3, <2>4
<1>12. Spells(stack'[h + 1], X)
  BY <1>7, <1>9, <1>11, Zenon
<1>13. l \in DOMAIN kernels
  BY <1>6, <1>9 DEF k
<1>14. d \in Nat
  BY <1>10
<1> HIDE DEF k
<1>15. Replaces(d, X)
  BY <1>10, <1>11, <1>12, <1>13, <1>14, <1>9, Zenon DEF Replaces
<1>16. d = depth - n /\ X = reducedRule.nonTerminal
  BY <1>9 DEF A
<1> QED
  BY <1>1, <1>4, <1>8, <1>15, <1>16, Zenon

\* So does a reduction.
LEMMA ReduceKeeps ==
    ASSUME Graph, Table, Pushed, reduce PROVE Pushed'
<1>1. PICK depth \in 0 .. Len(stack) : IsPath(depth)
  BY DEF Pushed, reduce, Does, Reads
<1>2. depth \in Nat
  BY <1>1, SeqFacts DEF Pushed
<1>3. PICK n : n \in Nat /\ n = PoppedSymbols
  <2>1. PICK n : n = PoppedSymbols
    OBVIOUS
  <2>2. n \in 0 .. depth
    BY <1>1, <1>2, <2>1, Reduction DEF reduce, PoppedSymbols
  <2> QED
    BY <1>2, <2>1, <2>2
<1>4. /\ phase = "ready" /\ outcome = "parsing" /\ bottom \in Nat \ {0}
      /\ phase' = phase /\ outcome' = outcome
      /\ rules' = rules /\ kernels' = kernels /\ bottom' = bottom
      /\ n \in 0 .. depth
      /\ Replaces(depth - n, reducedRule.nonTerminal)
  BY <1>1, <1>2, <1>3, ReducePushes
<1>5. PICK d, X : d \in 0 .. depth /\ Replaces(d, X)
  <2>1. depth - n \in 0 .. depth
    BY <1>2, <1>4
  <2> QED
    BY <1>4, <2>1
<1>6. PICK h, k :
        /\ h = bottom + 2 * d /\ k = stack[h].state
        /\ X \in DOMAIN kernels[k].gotos
        /\ IsSeq(stack') /\ Len(stack') = h + 2
        /\ \A j \in 1 .. h : stack'[j] = stack[j]
        /\ Spells(stack'[h + 1], X)
        /\ stack'[h + 2] = Goto(kernels[k].gotos[X])
  BY <1>5, Zenon DEF Replaces
<1>7. Spells(stack[h + 1], X)'
  BY <1>4, <1>6 DEF Spells, Terminal, nullptr, IsEpsilonRule
<1>8. /\ bottom \in 1 .. Len(stack')
      /\ d + 1 \in 0 .. Len(stack')
      /\ IsPath(d + 1)'
  BY <1>1, <1>2, <1>4, <1>5, <1>6, <1>7, PushesAt
<1> QED
  BY <1>4, <1>6, <1>8, Zenon DEF Pushed

\* A call of parse begins a path of its own above what is on the stack.
LEMMA ParseKeeps ==
    ASSUME Graph, Pushed, Parse PROVE Pushed'
<1>1. PICK lexed : parse(lexed)
  BY DEF Parse
<1>2. IsSeq(stack) /\ Len(stack) \in Nat
  BY SeqFacts DEF Pushed
<1>3. CASE lexed.undefined
  BY <1>1, <1>2, <1>3 DEF parse, Pushed
<1>4. CASE ~ lexed.undefined
  <2>1. /\ stack' = Append(stack, Goto(1)) /\ bottom' = Len(stack) + 1
        /\ phase' = "ready" /\ rules' = rules /\ kernels' = kernels
    BY <1>1, <1>4 DEF parse, grammarVars, kernelVars
  <2>2. /\ IsSeq(stack') /\ Len(stack') = Len(stack) + 1
        /\ stack'[bottom'] = Goto(1)
    BY <1>2, <2>1, Appended
  <2>3. 1 \in DOMAIN kernels
    <3>1. Len(kernels) \in Nat /\ DOMAIN kernels = 1 .. Len(kernels) /\ Len(kernels) # 0
      BY SeqFacts, EmptySeq DEF Graph, IsSeq
    <3> QED
      BY <3>1
  <2>4. IsPath(0)'
    <3>1. \A m \in 0 .. 0 : bottom' + 2 * m = bottom'
      BY <1>2, <2>1
    <3>2. Len(stack') = bottom' + 2 * 0
      BY <1>2, <2>1, <2>2
    <3>3. \A m \in 0 .. 0 - 1 : FALSE
      OBVIOUS
    <3>4. \A m \in 0 .. 0 : stack'[bottom' + 2 * m] = Goto(1)
      BY <2>2, <3>1
    <3> QED
      BY <2>1, <2>2, <2>3, <3>2, <3>3, <3>4, Zenon DEF IsPath
  <2>5. bottom' \in 1 .. Len(stack') /\ 0 \in 0 .. Len(stack')
    BY <1>2, <2>1, <2>2
  <2> QED
    BY <2>1, <2>2, <2>4, <2>5, Zenon DEF Pushed
<1> QED
  BY <1>3, <1>4
-----------------------------------------------------------------------------
\* The kernels.  found is a function that is defined by recursion: that one
\* exists is shown from the least number up to which there is none.
LEMMA FoundRecursion ==
    ASSUME NEW s, Len(rules) \in Nat
    PROVE  found(s) = [n \in 0 .. Len(rules) |->
             IF n = 0 THEN getRulesForNonterminal(s)
             ELSE UNION {{r} \cup beginnings(r) : r \in found(s)[n - 1]}]
<1> DEFINE next(S) == UNION {{r} \cup beginnings(r) : r \in S}
           first == getRulesForNonterminal(s)
           Finds(f, l) == f = [n \in 0 .. l |->
                                 IF n = 0 THEN first ELSE next(f[n - 1])]
           bad == {l \in Nat : ~ \E f : Finds(f, l)}
<1>0. found(s) = CHOOSE f : Finds(f, Len(rules))
  BY DEF found
<1> HIDE DEF next, first
<1>1. \E f : Finds(f, 0)
  <2> DEFINE g == [n \in 0 .. 0 |-> first]
  <2>1. \A n \in 0 .. 0 : n = 0
    OBVIOUS
  <2>2. g = [n \in 0 .. 0 |-> IF n = 0 THEN first ELSE next(g[n - 1])]
    BY <2>1, Zenon
  <2> QED
    BY <2>2
<1>2. ASSUME NEW l \in Nat \ {0}, NEW f, Finds(f, l - 1)
      PROVE  \E g : Finds(g, l)
  <2> DEFINE g == [n \in 0 .. l |-> IF n = l THEN next(f[l - 1]) ELSE f[n]]
             h == [n \in 0 .. l |-> IF n = 0 THEN first ELSE next(g[n - 1])]
  <2>1. ASSUME NEW n \in 0 .. l PROVE g[n] = h[n]
    <3>1. h[n] = IF n = 0 THEN first ELSE next(g[n - 1])
      BY Zenon
    <3>2. CASE n = 0
      <4>1. 0 \in 0 .. l - 1 /\ n # l
        BY <3>2
      <4>2. g[n] = f[0]
        BY <3>2, <4>1
      <4>3. f[0] = first
        BY <1>2, <4>1, Zenon
      <4> QED
        BY <3>1, <3>2, <4>2, <4>3
    <3>3. CASE n # 0 /\ n = l
      <4>1. l - 1 \in 0 .. l /\ l - 1 # l
        OBVIOUS
      <4>2. g[l - 1] = f[l - 1]
        BY <4>1, Zenon
      <4>3. g[n] = next(f[l - 1])
        BY <3>3, Zenon
      <4> QED
        BY <3>1, <3>3, <4>2, <4>3
    <3>4. CASE n # 0 /\ n # l
      <4>1. /\ n \in 0 .. l - 1
            /\ n - 1 \in 0 .. l /\ n - 1 # l
        BY <3>4
      <4>2. g[n] = f[n] /\ g[n - 1] = f[n - 1]
        BY <3>4, <4>1, Zenon
      <4>3. f[n] = next(f[n - 1])
        BY <1>2, <3>4, <4>1, Zenon
      <4> QED
        BY <3>1, <3>4, <4>2, <4>3
    <3> QED
      BY <3>2, <3>3, <3>4, Zenon
  <2>2. g = h
    BY <2>1, Zenon
  <2>3. Finds(g, l)
    BY <2>2, Zenon
  <2> HIDE DEF Finds
  <2> QED
    BY <2>3, Zenon
<1>3. bad = {}
  <2> HIDE DEF Finds
  <2> SUFFICES ASSUME bad # {} PROVE FALSE
    OBVIOUS
  <2>1. Min(bad) \in bad /\ \A l \in bad : Min(bad) <= l
    BY LeastOfNats
  <2>2. PICK l : l = Min(bad)
    OBVIOUS
  <2>3. l \in Nat /\ l # 0 /\ ~ \E g : Finds(g, l)
    BY <1>1, <2>1, <2>2
  <2>4. l - 1 \in Nat /\ ~ (l <= l - 1)
    BY <2>3
  <2>5. l - 1 \notin bad
    BY <2>1, <2>2, <2>4
  <2>6. PICK f : Finds(f, l - 1)
    BY <2>4, <2>5
  <2> QED
    BY <1>2, <2>3, <2>6
<1>4. Finds(found(s), Len(rules))
  <2> HIDE DEF Finds
  <2>1. \E f : Finds(f, Len(rules))
    BY <1>3
  <2> QED
    BY <1>0, <2>1, Zenon
<1> QED
  BY <1>4 DEF next, first

\* The closers of s are rules, each of s or of the first symbol of another.
LEMMA ClosersFrom ==
    ASSUME rules \in Grammars, NEW s, NEW r \in closers(s)
    PROVE  /\ r \in DOMAIN rules
           /\ \/ rules[r].nonTerminal = s
              \/ \E q \in closers(s) :
                   rules[r].nonTerminal = Head(rules[q].development)
<1> DEFINE F(n) == found(s)[n]
           From(S, p) == /\ p \in DOMAIN rules
                         /\ \/ rules[p].nonTerminal = s
                            \/ \E q \in S : rules[p].nonTerminal =
                                              Head(rules[q].development)
           Right(n) == \A p \in F(n) : From(F(n), p)
           bad == {n \in 0 .. Len(rules) : ~ Right(n)}
<1>1. Len(rules) \in Nat
  BY RulesFacts
<1>2. \A n \in 0 .. Len(rules) :
        F(n) = IF n = 0 THEN getRulesForNonterminal(s)
               ELSE UNION {{p} \cup beginnings(p) : p \in F(n - 1)}
  BY <1>1, FoundRecursion, Zenon
<1>3. Right(0)
  <2>1. F(0) = getRulesForNonterminal(s)
    <3>1. 0 \in 0 .. Len(rules)
      BY <1>1
    <3> QED
      BY <1>2, <3>1, Zenon
  <2> HIDE DEF F
  <2> QED
    BY <2>1 DEF getRulesForNonterminal
<1>4. ASSUME NEW n \in 1 .. Len(rules), Right(n - 1) PROVE Right(n)
  <2> DEFINE new(p) == {p} \cup beginnings(p)
  <2>1. F(n) = UNION {new(p) : p \in F(n - 1)}
    <3>1. n \in 0 .. Len(rules) /\ n # 0
      BY <1>1
    <3> QED
      BY <1>2, <3>1, Zenon
  <2> HIDE DEF F
  <2>2. F(n - 1) \subseteq F(n)
    BY <2>1
  <2>3. ASSUME NEW p \in F(n) PROVE From(F(n), p)
    <3>1. PICK q \in F(n - 1) : p \in new(q)
      BY <2>1
    <3>2. CASE p = q
      BY <1>4, <2>2, <3>1, <3>2
    <3>3. CASE p \in beginnings(q)
      BY <2>2, <3>1, <3>3 DEF beginnings, getRulesForNonterminal
    <3> QED
      BY <3>1, <3>2, <3>3
  <2> QED
    BY <2>3, Zenon
<1>5. bad = {}
  <2> HIDE DEF Right
  <2> SUFFICES ASSUME bad # {} PROVE FALSE
    OBVIOUS
  <2>1. bad \subseteq Nat
    BY <1>1
  <2>2. PICK n : n \in bad /\ \A l \in bad : n <= l
    BY <2>1, LeastOfNats, Zenon
  <2>3. n \in 1 .. Len(rules)
    BY <1>1, <1>3, <2>2
  <2>4. n - 1 \in 0 .. Len(rules) /\ ~ (n <= n - 1)
    BY <1>1, <2>3
  <2>5. Right(n - 1)
    BY <2>2, <2>4, Zenon
  <2> QED
    BY <1>4, <2>2, <2>3, <2>5, Zenon
<1>6. Right(Len(rules)) /\ closers(s) = F(Len(rules))
  <2>1. Len(rules) \in 0 .. Len(rules)
    BY <1>1
  <2>2. Right(Len(rules))
    <3> HIDE DEF Right
    <3> QED
      BY <1>5, <2>1
  <2> QED
    BY <2>2, Zenon DEF closers
<1> HIDE DEF F, bad
<1> QED
  BY <1>6

LEMMA KernelsFacts ==
    ASSUME IsSeq(kernels), kernels # <<>>
    PROVE  Len(kernels) \in Nat \ {0} /\ DOMAIN kernels = 1 .. Len(kernels)
<1>1. Len(kernels) \in Nat /\ DOMAIN kernels = 1 .. Len(kernels)
  BY SeqFacts
<1>2. Len(kernels) # 0
  BY EmptySeq DEF IsSeq
<1> QED
  BY <1>1, <1>2

\* What is said of an item, and of a kernel, is said of the rules and kernels.
LEMMA SameItems ==
    ASSUME rules' = rules
    PROVE  /\ AxiomOnTop' <=> AxiomOnTop
           /\ \A c : /\ WellFormed(c)' <=> WellFormed(c)
                     /\ AtEnd(c)' <=> AtEnd(c)
                     /\ AfterDot(c)' = AfterDot(c)
<1>1. AxiomOnTop' <=> AxiomOnTop
  BY DEF AxiomOnTop, axiom
<1> QED
  BY <1>1 DEF WellFormed, AtEnd, AfterDot, development

LEMMA SameKernels ==
    ASSUME rules' = rules, kernels' = kernels, NEW k
    PROVE  /\ ItemsRight(k)' <=> ItemsRight(k)
           /\ ClosureRight(k)' <=> ClosureRight(k)
           /\ GotosRight(k)' <=> GotosRight(k)
           /\ AfterDots(k)' = AfterDots(k)
<1>1. ItemsRight(k)' <=> ItemsRight(k)
  BY SameItems DEF ItemsRight
<1>2. ClosureRight(k)' <=> ClosureRight(k)
  BY SameItems DEF ClosureRight
<1>3. GotosRight(k)' <=> GotosRight(k)
  BY SameItems DEF GotosRight, Precedes
<1>4. AfterDots(k)' = AfterDots(k)
  BY SameItems DEF AfterDots
<1> QED
  BY <1>1, <1>2, <1>3, <1>4

\* A step that leaves the kernels alone keeps the graph, if it keeps track of
\* which kernels are done.
LEMMA GraphKept ==
    ASSUME Graph, rules' = rules, kernels' = kernels,
           phase' \in Building \cup {"states", "ready"},
           kernelIndex' \in 1 .. Len(kernels) + 1,
           phase' \in {"firsts", "follows"} => kernelIndex' = 1,
           GotosComplete'
    PROVE  Graph'
<1>1. \A k \in DOMAIN kernels :
        IsKernel(kernels[k]) /\ ItemsRight(k)' /\ ClosureRight(k)' /\ GotosRight(k)'
  BY SameKernels DEF Graph
<1> QED
  BY <1>1 DEF Graph, Building

LEMMA GrammarKeeps ==
    ASSUME Graph, Table, GrammarStep, UNCHANGED kernelVars
    PROVE  Graph' /\ Table'
<1>1. /\ rules' = rules /\ kernels' = kernels /\ kernelIndex' = kernelIndex
      /\ keys' = keys /\ states' = states
      /\ phase \in {"firsts", "follows"} /\ phase' \in {"firsts", "follows", "closure"}
  BY DEF GrammarStep, FirstsOfEpsilonRule, FirstsOfRule, FirstsPassEnds,
         FollowsOfSymbol, FollowsRuleEnds, FollowsPassEnds, kernelVars
<1>2. kernelIndex = 1 /\ kernelIndex' = 1
  BY <1>1 DEF Graph
<1>3. GotosComplete'
  <2>1. ASSUME NEW k \in DOMAIN kernels
        PROVE  /\ ~ Done(k) /\ ~ Underway(k) /\ ~ Done(k)'
    <3>1. ~ (k < 1)
      BY KernelsFacts DEF Graph
    <3> QED
      BY <1>1, <1>2, <3>1 DEF Done, Underway
  <2> QED
    BY <1>1, <2>1 DEF Graph, GotosComplete
<1>4. Graph'
  BY <1>1, <1>2, <1>3, GraphKept DEF Building, Graph
<1>5. Table'
  <2>1. states = <<>>
    BY <1>1 DEF Table, Building
  <2> QED
    BY <1>1, <2>1, EmptyIsSeq DEF Table
<1> QED
  BY <1>4, <1>5

LEMMA NextKernelKeeps ==
    ASSUME Graph, Table, NextKernel
    PROVE  Graph' /\ Table'
<1>1. /\ rules' = rules /\ kernels' = kernels /\ kernelIndex' = kernelIndex + 1
      /\ keys = {} /\ states' = states
      /\ phase = "gotos" /\ phase' = "closure"
  BY DEF NextKernel, grammarVars
<1>2. Len(kernels) \in Nat \ {0} /\ DOMAIN kernels = 1 .. Len(kernels)
  BY KernelsFacts DEF Graph
<1>3. kernelIndex \in DOMAIN kernels
  BY <1>1 DEF Graph, GotosComplete
<1>4. GotosComplete'
  <2>1. ASSUME NEW k \in DOMAIN kernels
        PROVE  /\ Done(k)' <=> Done(k) \/ k = kernelIndex
               /\ Underway(k) <=> k = kernelIndex
    BY <1>1, <1>2, <1>3 DEF Done, Underway
  <2>2. DOMAIN kernels[kernelIndex].gotos = AfterDots(kernelIndex)
    BY <1>1 DEF Graph, GotosComplete, kernel
  <2> QED
    BY <1>1, <2>1, <2>2, SameKernels DEF Graph, GotosComplete
<1>5. Graph'
  BY <1>1, <1>2, <1>3, <1>4, GraphKept DEF Building
<1>6. Table'
  <2>1. states = <<>>
    BY <1>1 DEF Table, Building
  <2> QED
    BY <1>1, <2>1, EmptyIsSeq DEF Table
<1> QED
  BY <1>5, <1>6

LEMMA GraphEndsKeeps ==
    ASSUME Graph, Table, GraphEnds
    PROVE  Graph' /\ Table'
<1>1. /\ rules' = rules /\ kernels' = kernels /\ kernelIndex' = 1
      /\ states' = states /\ kernelIndex > Len(kernels)
      /\ phase = "closure" /\ phase' = "states"
  BY DEF GraphEnds, grammarVars
<1>2. Len(kernels) \in Nat \ {0} /\ DOMAIN kernels = 1 .. Len(kernels)
  BY KernelsFacts DEF Graph
<1>3. GotosComplete'
  <2>1. ASSUME NEW k \in DOMAIN kernels PROVE Done(k) /\ Done(k)'
    BY <1>1, <1>2 DEF Done, Graph
  <2> QED
    BY <1>1, <2>1, SameKernels DEF Graph, GotosComplete
<1>4. Graph'
  BY <1>1, <1>2, <1>3, GraphKept
<1>5. Table'
  <2>1. states = <<>>
    BY <1>1 DEF Table, Building
  <2> QED
    BY <1>1, <2>1, EmptyIsSeq DEF Table, Building
<1> QED
  BY <1>4, <1>5

\* What is said of the rows is said of the rules, the kernels and the rows.
LEMMA RowsKept ==
    ASSUME rules' = rules, kernels' = kernels, states' = states,
           \A k \in DOMAIN states : RowRight(k)
    PROVE  \A k \in DOMAIN states' : RowRight(k)'
<1>1. terminals' = terminals
  BY Zenon DEF terminals
<1>2. ASSUME NEW c PROVE Reducible(c)' <=> Reducible(c)
  BY Zenon DEF Reducible, AtEnd, development
<1>3. ASSUME NEW k \in DOMAIN states PROVE RowRight(k)'
  <2>1. RowRight(k)
    OBVIOUS
  <2> HIDE DEF Reducible, terminals
  <2> QED
    BY <1>1, <1>2, <2>1 DEF RowRight
<1> QED
  BY <1>3

LEMMA StatesEndKeeps ==
    ASSUME Graph, Table, StatesEnd
    PROVE  Graph' /\ Table'
<1>1. /\ rules' = rules /\ kernels' = kernels /\ kernelIndex' = kernelIndex
      /\ states' = states /\ kernelIndex > Len(kernels)
      /\ phase = "states" /\ phase' = "ready"
  BY DEF StatesEnd, grammarVars, kernelVars
<1>2. Len(kernels) \in Nat \ {0} /\ DOMAIN kernels = 1 .. Len(kernels)
  BY KernelsFacts DEF Graph
<1>3. GotosComplete'
  <2>1. ASSUME NEW k \in DOMAIN kernels PROVE Done(k) /\ Done(k)'
    BY <1>1 DEF Done
  <2> QED
    BY <1>1, <2>1, SameKernels DEF Graph, GotosComplete
<1>4. Graph'
  BY <1>1, <1>2, <1>3, GraphKept DEF Graph
<1>5. Len(states) = Len(kernels)
  BY <1>1, <1>2 DEF Table, Graph
<1>6. Table'
  <2>1. \A k \in DOMAIN states' : RowRight(k)'
    BY <1>1, RowsKept DEF Table
  <2> QED
    BY <1>1, <1>5, <2>1 DEF Table, Building
<1> QED
  BY <1>4, <1>6

\* Items that are told apart by rule and dot are finitely many.
LEMMA ItemsFinite ==
    ASSUME rules \in Grammars, NEW items, \A c \in items : WellFormed(c),
           \A a, b \in items : SameHash(a, b) => a = b
    PROVE  IsFiniteSet(items)
<1> DEFINE row(r) == {r} \X (0 .. Len(rules[r].development))
           rows == {row(r) : r \in DOMAIN rules}
           places == UNION rows
           f == [r \in DOMAIN rules |-> row(r)]
           g == [c \in items |-> <<c.rule, c.dotIndex>>]
<1>1. /\ Len(rules) \in Nat /\ DOMAIN rules = 1 .. Len(rules)
      /\ \A r \in DOMAIN rules : Len(rules[r].development) \in Nat
  BY RulesFacts
<1>2. IsFiniteSet(rows)
  <2>1. IsFiniteSet(DOMAIN rules)
    BY <1>1, FS_Interval
  <2>2. f \in Surjection(DOMAIN rules, rows)
    BY DEF Surjection
  <2> HIDE DEF f, rows
  <2> QED
    BY <2>1, <2>2, FS_Surjection
<1>3. \A T \in rows : IsFiniteSet(T)
  <2>1. ASSUME NEW r \in DOMAIN rules PROVE IsFiniteSet(row(r))
    <3>1. IsFiniteSet({r})
      BY FS_Singleton
    <3>2. \A n \in Nat : IsFiniteSet(0 .. n)
      BY FS_Interval
    <3>3. IsFiniteSet(0 .. Len(rules[r].development))
      BY <1>1, <3>2, Zenon
    <3> QED
      BY <3>1, <3>3, FS_Product
  <2> HIDE DEF row
  <2> QED
    BY <2>1
<1>4. IsFiniteSet(places)
  BY <1>2, <1>3, FS_UNION
<1>5. g \in Injection(items, places)
  <2>1. ASSUME NEW c \in items PROVE <<c.rule, c.dotIndex>> \in places
    <3>1. /\ c.rule \in DOMAIN rules
          /\ c.dotIndex \in 0 .. Len(rules[c.rule].development)
      BY DEF WellFormed, development
    <3>2. <<c.rule, c.dotIndex>> \in row(c.rule)
      BY <3>1
    <3> QED
      BY <3>1, <3>2
  <2> HIDE DEF places
  <2>2. g \in [items -> places]
    BY <2>1
  <2>3. \A a, b \in items : g[a] = g[b] => a = b
    BY DEF SameHash
  <2> HIDE DEF g
  <2> QED
    BY <2>2, <2>3 DEF Injection, IsInjective
<1> HIDE DEF g, places
<1> QED
  BY <1>4, <1>5, FS_Injection

\* Kernels that compare equal have the same rules and dots, either way.
LEMMA SameEitherWay ==
    ASSUME NEW items, NEW others, IsFiniteSet(others), SameKernel(items, others),
           \A a, b \in items : SameHash(a, b) => a = b
    PROVE  \A o \in others : \E i \in items : SameHash(i, o)
<1> DEFINE f == [i \in items |-> CHOOSE o \in others : SameHash(i, o)]
<1>1. \A i \in items : f[i] \in others /\ SameHash(i, f[i])
  BY DEF SameKernel
<1>2. f \in Injection(items, others)
  <2>1. f \in [items -> others]
    BY <1>1
  <2>2. \A a, b \in items : f[a] = f[b] => a = b
    <3> HIDE DEF f
    <3> QED
      BY <1>1 DEF SameHash
  <2> HIDE DEF f
  <2> QED
    BY <2>1, <2>2 DEF Injection, IsInjective
<1> HIDE DEF f
<1>3. f \in Surjection(items, others)
  <2>1. Cardinality(items) = Cardinality(others)
    BY DEF SameKernel
  <2> QED
    BY <1>2, <2>1, FS_Injection
<1>4. \A o \in others : \E i \in items : f[i] = o
  BY <1>3 DEF Surjection
<1> QED
  BY <1>1, <1>4

\* What is after a dot, and what is first, is on a right side.
LEMMA AfterDotInRule ==
    ASSUME rules \in Grammars, NEW c, WellFormed(c), ~ AtEnd(c)
    PROVE  /\ c.rule \in DOMAIN rules
           /\ AfterDot(c) \in ToSet(rules[c.rule].development)
<1> DEFINE right == rules[c.rule].development
<1>1. c.rule \in DOMAIN rules /\ c.dotIndex \in 0 .. Len(right)
      /\ ~ (c.dotIndex >= Len(right)) /\ AfterDot(c) = right[c.dotIndex + 1]
  BY DEF WellFormed, AtEnd, AfterDot, development
<1>2. Len(right) \in Nat /\ DOMAIN right = 1 .. Len(right)
  BY <1>1, GrammarsAssumption, SeqFacts, Zenon DEF IsSeq
<1> HIDE DEF right
<1>3. c.dotIndex + 1 \in DOMAIN right
  BY <1>1, <1>2
<1>4. AfterDot(c) \in ToSet(right)
  BY <1>1, <1>3 DEF ToSet
<1> QED
  BY <1>1, <1>4 DEF right

LEMMA HeadInRule ==
    ASSUME rules \in Grammars, NEW r \in DOMAIN rules
    PROVE  Head(rules[r].development) \in ToSet(rules[r].development)
<1> DEFINE right == rules[r].development
<1>1. Len(right) \in Nat \ {0} /\ Head(right) = right[1]
  BY RulesFacts
<1>2. DOMAIN right = 1 .. Len(right)
  BY GrammarsAssumption, SeqFacts, Zenon DEF IsSeq
<1> HIDE DEF right
<1>3. 1 \in DOMAIN right
  BY <1>1, <1>2
<1>4. Head(right) \in ToSet(right)
  BY <1>1, <1>3 DEF ToSet
<1> QED
  BY <1>4 DEF right


\* updateClosure: every item it adds has a maker in the closure, whichever items
\* the iteration visited.
LEMMA ClosureByRight ==
    ASSUME Graph, kernelIndex \in DOMAIN kernels,
           NEW visited \in SUBSET kernel.items
    PROVE  /\ \A a, b \in ClosureBy(visited) : SameHash(a, b) => a = b
           /\ \A c \in ClosureBy(visited) :
                /\ WellFormed(c)
                /\ c.dotIndex # 0 => c \in kernel.items
                /\ AxiomOnTop /\ c.rule = 1 /\ c.dotIndex = 0 => kernelIndex = 1
                /\ c.dotIndex = 0 /\ c.rule # 1 =>
                     \E d \in ClosureBy(visited) :
                        ~ AtEnd(d) /\ AfterDot(d) = rules[c.rule].nonTerminal
<1> DEFINE items == kernel.items
           new == UNION {newItemsFromSymbolAfterDot(i) : i \in visited}
           closure == ClosureBy(visited)
<1>1. ItemsRight(kernelIndex) /\ rules \in Grammars
  BY DEF Graph
<1>2. \A c \in closure : c \in items \/ c \in new
  BY DEF ClosureBy, Insert
<1>3. items \subseteq closure
  BY DEF ClosureBy, Insert
<1>4. \A n \in new : (\A o \in items : ~ SameHash(o, n)) => n \in closure
  BY DEF ClosureBy, Insert
<1>5. \A n \in closure : n \in items \/ \A o \in items : ~ SameHash(o, n)
  BY DEF ClosureBy, Insert
<1>6. ASSUME NEW n \in new
      PROVE  \E i \in visited :
               /\ ~ AtEnd(i) /\ n.rule \in closers(AfterDot(i))
               /\ n = ItemOf(n.rule, 0, follows[rules[n.rule].nonTerminal]
                                          \cup (IF n.rule = 1 THEN {END} ELSE {}))
               /\ n.dotIndex = 0
  BY DEF newItemsFromSymbolAfterDot, ItemOf
<1>7. ASSUME NEW i \in visited, ~ AtEnd(i), NEW q \in closers(AfterDot(i))
      PROVE  \E d \in closure : d.rule = q /\ d.dotIndex = 0
  <2> DEFINE n == ItemOf(q, 0, follows[rules[q].nonTerminal]
                                 \cup (IF q = 1 THEN {END} ELSE {}))
  <2>1. n \in new
    <3>1. n \in newItemsFromSymbolAfterDot(i)
      BY <1>7, Zenon DEF newItemsFromSymbolAfterDot
    <3> HIDE DEF n
    <3> QED
      BY <3>1
  <2>2. n.rule = q /\ n.dotIndex = 0
    BY DEF ItemOf
  <2> HIDE DEF n, new
  <2>3. CASE \A o \in items : ~ SameHash(o, n)
    BY <1>4, <2>1, <2>2, <2>3
  <2>4. CASE \E o \in items : SameHash(o, n)
    BY <1>3, <2>2, <2>4 DEF SameHash
  <2> QED
    BY <2>3, <2>4
<1> HIDE DEF new, closure
<1>8. ASSUME NEW a \in closure, NEW b \in closure, SameHash(a, b) PROVE a = b
  <2>1. CASE a \in items /\ b \in items
    BY <1>1, <1>8, <2>1 DEF ItemsRight, kernel
  <2>2. CASE a \in items /\ b \notin items
    BY <1>5, <1>8, <2>2
  <2>3. CASE a \notin items /\ b \in items
    BY <1>5, <1>8, <2>3 DEF SameHash
  <2>4. CASE a \notin items /\ b \notin items
    <3>1. a \in new /\ b \in new /\ a.rule = b.rule
      BY <1>2, <1>8, <2>4 DEF SameHash
    <3> QED
      BY <1>6, <3>1
  <2> QED
    BY <2>1, <2>2, <2>3, <2>4
<1>9. ASSUME NEW c \in closure
      PROVE  /\ WellFormed(c)
             /\ c.dotIndex # 0 => c \in items
             /\ AxiomOnTop /\ c.rule = 1 /\ c.dotIndex = 0 => kernelIndex = 1
             /\ c.dotIndex = 0 /\ c.rule # 1 =>
                  \E d \in closure : ~ AtEnd(d) /\ AfterDot(d) = rules[c.rule].nonTerminal
  <2>1. CASE c \in items
    <3>1. WellFormed(c)
      BY <1>1, <2>1 DEF ItemsRight, kernel
    <3>2. /\ ~ (c.dotIndex = 0 /\ c.rule # 1)
          /\ c.dotIndex = 0 => kernelIndex = 1
      BY <1>1, <2>1 DEF ItemsRight, kernel, ItemOf
    <3> QED
      BY <2>1, <3>1, <3>2
  <2>2. CASE c \notin items
    <3>1. PICK i \in visited :
            /\ ~ AtEnd(i) /\ c.rule \in closers(AfterDot(i))
            /\ c = ItemOf(c.rule, 0, follows[rules[c.rule].nonTerminal]
                                       \cup (IF c.rule = 1 THEN {END} ELSE {}))
            /\ c.dotIndex = 0
      BY <1>2, <1>6, <2>2
    <3>2. /\ c.rule \in DOMAIN rules
          /\ \/ rules[c.rule].nonTerminal = AfterDot(i)
             \/ \E q \in closers(AfterDot(i)) :
                  rules[c.rule].nonTerminal = Head(rules[q].development)
      BY <1>1, <3>1, ClosersFrom
    <3>5. ~ (AxiomOnTop /\ c.rule = 1)
      <4> SUFFICES ASSUME AxiomOnTop, c.rule = 1 PROVE FALSE
        OBVIOUS
      <4>1. \A r \in DOMAIN rules : axiom \notin ToSet(rules[r].development)
        BY DEF AxiomOnTop
      <4>2. AfterDot(i) \in ToSet(rules[i.rule].development) /\ i.rule \in DOMAIN rules
        BY <1>1, <3>1, AfterDotInRule DEF ItemsRight, kernel
      <4>3. \A q \in closers(AfterDot(i)) :
              /\ q \in DOMAIN rules
              /\ Head(rules[q].development) \in ToSet(rules[q].development)
        BY <1>1, ClosersFrom, HeadInRule
      <4> QED
        BY <3>2, <4>1, <4>2, <4>3 DEF axiom
    <3>3. WellFormed(c)
      <4>1. 0 \in 0 .. Len(development(c))
        BY <1>1, <3>2, RulesFacts DEF development
      <4>2. c = ItemOf(c.rule, c.dotIndex, c.lookAheads)
        BY <3>1 DEF ItemOf
      <4> QED
        BY <3>1, <3>2, <3>5, <4>1, <4>2 DEF WellFormed
    <3>4. \E d \in closure : ~ AtEnd(d) /\ AfterDot(d) = rules[c.rule].nonTerminal
      <4>1. CASE rules[c.rule].nonTerminal = AfterDot(i)
        BY <1>3, <3>1, <4>1
      <4>2. ASSUME NEW q \in closers(AfterDot(i)),
                   rules[c.rule].nonTerminal = Head(rules[q].development)
            PROVE  \E d \in closure : ~ AtEnd(d) /\ AfterDot(d) = rules[c.rule].nonTerminal
        <5>1. q \in DOMAIN rules
          BY <1>1, ClosersFrom
        <5>2. PICK d \in closure : d.rule = q /\ d.dotIndex = 0
          BY <1>7, <3>1
        <5>3. /\ Len(rules[q].development) \in Nat \ {0}
              /\ Head(rules[q].development) = rules[q].development[1]
          BY <1>1, <5>1, RulesFacts
        <5>4. ~ AtEnd(d) /\ AfterDot(d) = rules[q].development[1]
          BY <5>2, <5>3 DEF AtEnd, AfterDot, development
        <5> QED
          BY <4>2, <5>3, <5>4
      <4> QED
        BY <3>2, <4>1, <4>2
    <3> QED
      BY <3>1, <3>3, <3>4, <3>5
  <2> QED
    BY <2>1, <2>2
<1> QED
  BY <1>8, <1>9 DEF closure

\* What updateClosure changes.
LEMMA ClosureStep ==
    ASSUME Graph, updateClosure
    PROVE  /\ rules' = rules /\ kernelIndex' = kernelIndex /\ states' = states
           /\ phase = "closure" /\ phase' = "gotos"
           /\ kernelIndex \in DOMAIN kernels /\ DOMAIN kernel.gotos = {}
           /\ IsSeq(kernels') /\ Len(kernels') = Len(kernels)
           /\ DOMAIN kernels' = DOMAIN kernels /\ kernels' # <<>>
           /\ \E visited \in SUBSET kernel.items :
                /\ keys' = {AfterDot(i) : i \in
                              {c \in ClosureBy(visited) :
                                 ~ AtEnd(c) /\ AfterDot(c) # EPSILON}}
                /\ \A k \in DOMAIN kernels :
                     /\ kernels'[k].items = kernels[k].items
                     /\ kernels'[k].gotos = kernels[k].gotos
                     /\ kernels'[k].closure = IF k = kernelIndex THEN ClosureBy(visited)
                                              ELSE kernels[k].closure
                     /\ IsKernel(kernels'[k])
<1>1. PICK visited \in SUBSET kernel.items :
        /\ kernels' = [kernels EXCEPT ![kernelIndex].closure = ClosureBy(visited)]
        /\ keys' = {AfterDot(i) : i \in
                      {c \in ClosureBy(visited) :
                         ~ AtEnd(c) /\ AfterDot(c) # EPSILON}}
  BY DEF updateClosure
<1>2. /\ rules' = rules /\ kernelIndex' = kernelIndex /\ states' = states
      /\ phase = "closure" /\ phase' = "gotos" /\ kernelIndex <= Len(kernels)
  BY DEF updateClosure, grammarVars
<1>3. Len(kernels) \in Nat \ {0} /\ DOMAIN kernels = 1 .. Len(kernels)
  BY KernelsFacts DEF Graph
<1>4. kernelIndex \in DOMAIN kernels
  BY <1>2, <1>3 DEF Graph
<1> DEFINE C == ClosureBy(visited)
           new == [kernel EXCEPT !.closure = C]
<1>5. kernels' = [kernels EXCEPT ![kernelIndex] = new]
  BY <1>1, Zenon DEF kernel
<1>6. /\ IsSeq(kernels') /\ Len(kernels') = Len(kernels)
      /\ \A k \in DOMAIN kernels :
           kernels'[k] = IF k = kernelIndex THEN new ELSE kernels[k]
  <2> HIDE DEF new
  <2>1. /\ DOMAIN kernels' = DOMAIN kernels
        /\ kernels' = [k \in DOMAIN kernels' |-> kernels'[k]]
        /\ \A k \in DOMAIN kernels :
             kernels'[k] = IF k = kernelIndex THEN new ELSE kernels[k]
    BY <1>4, <1>5
  <2>2. IsSeq(kernels') /\ Len(kernels') = Len(kernels)
    BY <2>1, Renewed DEF Graph
  <2> QED
    BY <2>1, <2>2
<1>7. DOMAIN kernels' = DOMAIN kernels /\ kernels' # <<>>
  <2>1. DOMAIN kernels' = 1 .. Len(kernels')
    BY <1>6, SeqFacts
  <2> QED
    BY <1>3, <1>6, <2>1, EmptyIsSeq
<1>8. /\ kernel = [items |-> kernel.items, closure |-> kernel.closure,
                   gotos |-> kernel.gotos]
      /\ kernel.gotos = [X \in DOMAIN kernel.gotos |-> kernel.gotos[X]]
  BY <1>4 DEF Graph, IsKernel, kernel
<1>9. new = [items |-> kernel.items, closure |-> C, gotos |-> kernel.gotos]
  BY <1>8
<1>10. /\ new.items = kernel.items /\ new.closure = C /\ new.gotos = kernel.gotos
       /\ IsKernel(new)
  BY <1>8, <1>9 DEF IsKernel
<1>11. DOMAIN kernel.gotos = {}
  BY <1>2, <1>4 DEF Graph, GotosComplete, Done, Underway, kernel
<1> HIDE DEF new, C
<1>12. \A k \in DOMAIN kernels :
         /\ kernels'[k].items = kernels[k].items
         /\ kernels'[k].gotos = kernels[k].gotos
         /\ kernels'[k].closure = IF k = kernelIndex THEN C ELSE kernels[k].closure
         /\ IsKernel(kernels'[k])
  BY <1>6, <1>10 DEF kernel, Graph
<1>13. \A k \in DOMAIN kernels :
         /\ kernels'[k].items = kernels[k].items
         /\ kernels'[k].gotos = kernels[k].gotos
         /\ kernels'[k].closure = IF k = kernelIndex THEN ClosureBy(visited)
                                  ELSE kernels[k].closure
         /\ IsKernel(kernels'[k])
  BY <1>12 DEF C
<1> QED
  BY <1>1, <1>2, <1>4, <1>6, <1>7, <1>11, <1>13, Zenon

\* One kernel changed, its items kept, leaves the others as they are.
LEMMA ClosureKeeps ==
    ASSUME Graph, Table, updateClosure
    PROVE  Graph' /\ Table'
<1>1. PICK visited \in SUBSET kernel.items :
        /\ keys' = {AfterDot(i) : i \in
                      {c \in ClosureBy(visited) :
                         ~ AtEnd(c) /\ AfterDot(c) # EPSILON}}
        /\ \A k \in DOMAIN kernels :
             /\ kernels'[k].items = kernels[k].items
             /\ kernels'[k].gotos = kernels[k].gotos
             /\ kernels'[k].closure = IF k = kernelIndex THEN ClosureBy(visited)
                                      ELSE kernels[k].closure
             /\ IsKernel(kernels'[k])
  BY ClosureStep
<1>2. /\ rules' = rules /\ kernelIndex' = kernelIndex /\ states' = states
      /\ phase = "closure" /\ phase' = "gotos" /\ kernelIndex <= Len(kernels)
  BY ClosureStep DEF updateClosure
<1>3. Len(kernels) \in Nat \ {0} /\ DOMAIN kernels = 1 .. Len(kernels)
  BY KernelsFacts DEF Graph
<1>4. kernelIndex \in DOMAIN kernels /\ DOMAIN kernel.gotos = {}
  BY ClosureStep
<1>6. IsSeq(kernels') /\ Len(kernels') = Len(kernels)
  BY ClosureStep
<1>7. DOMAIN kernels' = DOMAIN kernels /\ kernels' # <<>>
  BY ClosureStep
<1> DEFINE C == ClosureBy(visited)
<1> HIDE DEF C
<1>12. \A k \in DOMAIN kernels :
         /\ kernels'[k].items = kernels[k].items
         /\ kernels'[k].gotos = kernels[k].gotos
         /\ kernels'[k].closure = IF k = kernelIndex THEN C ELSE kernels[k].closure
         /\ IsKernel(kernels'[k])
  BY <1>1 DEF C
<1>13. ASSUME NEW k \in DOMAIN kernels PROVE ItemsRight(k)'
  <2>1. ItemsRight(k)
    BY DEF Graph
  <2> QED
    BY <1>2, <1>12, <2>1, SameItems DEF ItemsRight
<1>14. ASSUME NEW k \in DOMAIN kernels PROVE ClosureRight(k)'
  <2>1. CASE k = kernelIndex
    <3>1. /\ \A a, b \in C : SameHash(a, b) => a = b
          /\ \A c \in C :
               /\ WellFormed(c)
               /\ c.dotIndex # 0 => c \in kernel.items
               /\ AxiomOnTop /\ c.rule = 1 /\ c.dotIndex = 0 => kernelIndex = 1
               /\ c.dotIndex = 0 /\ c.rule # 1 =>
                    \E d \in C : ~ AtEnd(d) /\ AfterDot(d) = rules[c.rule].nonTerminal
      BY <1>4, ClosureByRight DEF C
    <3>2. kernels'[k].closure = C /\ kernels'[k].items = kernel.items
      BY <1>12, <2>1 DEF kernel
    <3> QED
      <4>1. ASSUME NEW c \in C
            PROVE  /\ WellFormed(c)'
                   /\ c.dotIndex # 0 => c \in kernel.items
                   /\ AxiomOnTop' /\ c.rule = 1 /\ c.dotIndex = 0 => k = 1
                   /\ c.dotIndex = 0 /\ c.rule # 1 =>
                        \E d \in C : ~ AtEnd(d)' /\ AfterDot(d)' = rules'[c.rule].nonTerminal
        BY <1>2, <2>1, <3>1, SameItems
      <4> QED
        BY <3>1, <3>2, <4>1, Zenon DEF ClosureRight, SameHash
  <2>2. CASE k # kernelIndex
    <3>1. ClosureRight(k)
      BY DEF Graph
    <3>2. kernels'[k].closure = kernels[k].closure /\ kernels'[k].items = kernels[k].items
      BY <1>12, <2>2
    <3> QED
      BY <1>2, <3>1, <3>2, SameItems, Zenon DEF ClosureRight, SameHash
  <2> QED
    BY <2>1, <2>2
<1>15. ASSUME NEW k \in DOMAIN kernels PROVE GotosRight(k)'
  <2>1. CASE k = kernelIndex
    BY <1>4, <1>12, <2>1 DEF GotosRight, kernel
  <2>2. CASE k # kernelIndex
    <3>1. GotosRight(k)
      BY DEF Graph
    <3>2. /\ kernels'[k].gotos = kernels[k].gotos
          /\ kernels'[k].closure = kernels[k].closure
      BY <1>12, <2>2
    <3>3. \A X \in DOMAIN kernels[k].gotos :
            /\ kernels[k].gotos[X] \in DOMAIN kernels
            /\ kernels'[kernels[k].gotos[X]].items = kernels[kernels[k].gotos[X]].items
      BY <1>3, <1>12, <3>1 DEF GotosRight
    <3>4. \A c, X, d : Precedes(c, X, d)' <=> Precedes(c, X, d)
      BY <1>2, SameItems DEF Precedes
    <3>5. ASSUME NEW X \in DOMAIN kernels[k].gotos
          PROVE  /\ kernels[k].gotos[X] \in 2 .. Len(kernels')
                 /\ X # EPSILON
                 /\ \A d \in kernels'[kernels[k].gotos[X]].items :
                      \E c \in kernels[k].closure : Precedes(c, X, d)'
      BY <1>6, <3>1, <3>3, <3>4 DEF GotosRight
    <3> QED
      BY <3>2, <3>5 DEF GotosRight
  <2> QED
    BY <2>1, <2>2
<1>16. GotosComplete'
  <2>1. AfterDots(kernelIndex)' = keys'
    <3>1. kernels'[kernelIndex].closure = C
      BY <1>4, <1>12
    <3> QED
      BY <1>1, <1>2, <3>1, SameItems DEF AfterDots, C
  <2>2. ASSUME NEW k \in DOMAIN kernels
        PROVE  (Done(k)' <=> Done(k)) /\ (Underway(k)' <=> k = kernelIndex)
               /\ ~ Underway(k) /\ ~ Done(kernelIndex)
    BY <1>2, <1>3, <1>4 DEF Done, Underway
  <2>3. ASSUME NEW k \in DOMAIN kernels, k # kernelIndex
        PROVE  AfterDots(k)' = AfterDots(k)
    BY <1>2, <1>12, <2>3, SameItems DEF AfterDots
  <2>4. ASSUME NEW k \in DOMAIN kernels, Done(k)'
        PROVE  DOMAIN kernels'[k].gotos = AfterDots(k)'
    BY <1>12, <2>2, <2>3, <2>4 DEF Graph, GotosComplete
  <2>5. ASSUME NEW k \in DOMAIN kernels, ~ Done(k)', ~ Underway(k)'
        PROVE  kernels'[k].closure = {} /\ DOMAIN kernels'[k].gotos = {}
    BY <1>12, <2>2, <2>5 DEF Graph, GotosComplete
  <2>6. /\ kernelIndex' \in DOMAIN kernels'
        /\ keys' \cup DOMAIN kernel'.gotos = AfterDots(kernelIndex)'
        /\ keys' \cap DOMAIN kernel'.gotos = {}
    BY <1>2, <1>4, <1>7, <1>4, <1>12, <2>1 DEF kernel
  <2> QED
    BY <1>2, <1>7, <2>4, <2>5, <2>6, Zenon DEF GotosComplete
<1>17. Graph'
  <2>1. /\ rules' \in Grammars /\ phase' \in Building \cup {"states", "ready"}
        /\ kernelIndex' \in 1 .. Len(kernels') + 1
        /\ phase' \notin {"firsts", "follows"}
    BY <1>2, <1>6 DEF Graph, Building
  <2> QED
    BY <1>6, <1>7, <1>12, <1>13, <1>14, <1>15, <1>16, <2>1, Zenon DEF Graph, Building
<1>18. Table'
  <2>1. states = <<>>
    BY <1>2 DEF Table, Building
  <2> QED
    BY <1>2, <2>1, EmptyIsSeq DEF Table, Building
<1> QED
  BY <1>17, <1>18

\* Items shifted over a symbol are those of the closure, a dot further.
LEMMA ShiftedItems ==
    ASSUME Graph, kernelIndex \in DOMAIN kernels, NEW key, key # EPSILON,
           NEW items, IsShifted(items, key)
    PROVE  /\ \A d \in items : /\ WellFormed(d) /\ d.dotIndex # 0
                               /\ \E c \in kernel.closure : Precedes(c, key, d)
           /\ \A a, b \in items : SameHash(a, b) => a = b
<1>1. ASSUME NEW d \in items
      PROVE  /\ WellFormed(d) /\ d.dotIndex # 0
             /\ \E c \in kernel.closure : Precedes(c, key, d)
  <2>1. PICK c \in kernel.closure :
          ~ AtEnd(c) /\ AfterDot(c) = key /\ d = newItemAfterShift(c)
    BY DEF IsShifted
  <2>2. WellFormed(c)
    BY DEF Graph, ClosureRight, kernel
  <2>3. c = ItemOf(c.rule, c.dotIndex, c.lookAheads)
        /\ c.rule \in DOMAIN rules /\ c.dotIndex \in 0 .. Len(development(c))
        /\ Len(rules[c.rule].development) \in Nat
    BY <2>2, RulesFacts DEF WellFormed, Graph
  <2>4. d = ItemOf(c.rule, c.dotIndex + 1, c.lookAheads)
    BY <2>1, <2>3 DEF newItemAfterShift, ItemOf
  <2>5. d.rule = c.rule /\ d.dotIndex = c.dotIndex + 1 /\ d.lookAheads = c.lookAheads
    BY <2>4 DEF ItemOf
  <2>6. development(d) = development(c) /\ development(c) = rules[c.rule].development
    BY <2>5 DEF development
  <2>7. d.dotIndex \in 0 .. Len(development(d)) /\ d.dotIndex # 0
    BY <2>1, <2>3, <2>5, <2>6 DEF AtEnd
  <2>8. development(d)[d.dotIndex] # EPSILON
    BY <2>1, <2>5, <2>6 DEF AfterDot
  <2>9. WellFormed(d)
    <3>1. AxiomOnTop /\ d.rule = 1 => d.lookAheads = {END}
      BY <2>2, <2>5 DEF WellFormed
    <3> QED
      BY <2>3, <2>4, <2>5, <2>7, <2>8, <3>1 DEF WellFormed
  <2> QED
    BY <2>1, <2>5, <2>7, <2>9 DEF Precedes
<1>2. ASSUME NEW a \in items, NEW b \in items, SameHash(a, b) PROVE a = b
  <2>1. equal(a, b)
    BY <1>2 DEF equal, SameHash, development
  <2> QED
    BY <2>1 DEF IsShifted
<1> QED
  BY <1>1, <1>2

\* A goto to a kernel whose items all come from this closure, and perhaps that
\* kernel at the end, keep the graph.
LEMMA GotoAdded ==
    ASSUME Graph, phase = "gotos", NEW key \in keys, NEW n \in 2 .. Len(kernels'),
           IsSeq(kernels'), Len(kernels') \in Len(kernels) .. Len(kernels) + 1,
           \A k \in DOMAIN kernels :
             kernels'[k] = IF k = kernelIndex
               THEN [items |-> kernel.items, closure |-> kernel.closure,
                     gotos |-> WithGoto(kernel.gotos, key, n)]
               ELSE kernels[k],
           \A d \in kernels'[n].items : \E c \in kernel.closure : Precedes(c, key, d),
           \A k \in DOMAIN kernels' \ DOMAIN kernels :
             /\ kernels'[k] = [items |-> kernels'[k].items, closure |-> {},
                               gotos |-> <<>>]
             /\ ItemsRight(k)',
           keys' = keys \ {key}, rules' = rules, phase' = phase,
           kernelIndex' = kernelIndex
    PROVE  Graph'
<1> DEFINE gotos == WithGoto(kernel.gotos, key, n)
           new == [items |-> kernel.items, closure |-> kernel.closure, gotos |-> gotos]
<1>1. Len(kernels) \in Nat \ {0} /\ DOMAIN kernels = 1 .. Len(kernels)
  BY KernelsFacts DEF Graph
<1>2. DOMAIN kernels' = 1 .. Len(kernels') /\ kernels' # <<>>
      /\ DOMAIN kernels \subseteq DOMAIN kernels'
  <2>1. DOMAIN kernels' = 1 .. Len(kernels')
    BY SeqFacts
  <2> QED
    BY <1>1, <2>1, EmptyIsSeq
<1>3. kernelIndex \in DOMAIN kernels
  BY DEF Graph, GotosComplete
<1>4. key # EPSILON /\ key \notin DOMAIN kernel.gotos
  BY DEF Graph, GotosComplete, AfterDots
<1>5. /\ DOMAIN gotos = DOMAIN kernel.gotos \cup {key}
      /\ gotos[key] = n
      /\ \A X \in DOMAIN kernel.gotos : gotos[X] = kernel.gotos[X]
      /\ gotos = [X \in DOMAIN gotos |-> gotos[X]]
  BY <1>4 DEF WithGoto
<1> HIDE DEF gotos
<1>6. new.items = kernel.items /\ new.closure = kernel.closure /\ new.gotos = gotos
  OBVIOUS
<1>7. kernels'[kernelIndex] = new
      /\ \A k \in DOMAIN kernels : k # kernelIndex => kernels'[k] = kernels[k]
  BY <1>3 DEF gotos
<1>8. IsKernel(new)
  BY <1>5, <1>6, Zenon DEF IsKernel
<1> HIDE DEF new
<1>9. \A k \in DOMAIN kernels :
        /\ kernels'[k].items = kernels[k].items
        /\ kernels'[k].closure = kernels[k].closure
        /\ IsKernel(kernels'[k])
  BY <1>6, <1>7, <1>8 DEF Graph, kernel
<1>10. ASSUME NEW k \in DOMAIN kernels' \ DOMAIN kernels
       PROVE  /\ IsKernel(kernels'[k]) /\ kernels'[k].closure = {}
              /\ DOMAIN kernels'[k].gotos = {}
  <2>1. kernels'[k].closure = {} /\ kernels'[k].gotos = <<>>
    OBVIOUS
  <2>2. <<>> = [X \in {} |-> <<>>[X]]
    OBVIOUS
  <2>3. kernels'[k].gotos = [X \in DOMAIN kernels'[k].gotos |-> kernels'[k].gotos[X]]
    BY <2>1, <2>2, EmptyIsSeq
  <2> QED
    BY <2>1, <2>3, EmptyIsSeq DEF IsKernel
<1>11. \A c, X, d : Precedes(c, X, d)' <=> Precedes(c, X, d)
  BY SameItems DEF Precedes
<1>12. ASSUME NEW k \in DOMAIN kernels PROVE ItemsRight(k)' /\ ClosureRight(k)'
  <2>1. ItemsRight(k) /\ ClosureRight(k)
    BY DEF Graph
  <2>2. ItemsRight(k)'
    BY <1>9, <2>1, SameItems DEF ItemsRight
  <2>3. ClosureRight(k)'
    BY <1>9, <2>1, SameItems DEF ClosureRight
  <2> QED
    BY <2>2, <2>3
<1>13. ASSUME NEW k \in DOMAIN kernels, NEW X \in DOMAIN kernels[k].gotos
       PROVE  /\ kernels[k].gotos[X] \in 2 .. Len(kernels')
              /\ X # EPSILON
              /\ \A d \in kernels'[kernels[k].gotos[X]].items :
                   \E c \in kernels[k].closure : Precedes(c, X, d)'
  <2>1. /\ kernels[k].gotos[X] \in 2 .. Len(kernels)
        /\ X # EPSILON
        /\ \A d \in kernels[kernels[k].gotos[X]].items :
             \E c \in kernels[k].closure : Precedes(c, X, d)
    BY Zenon DEF Graph, GotosRight
  <2>2. kernels[k].gotos[X] \in DOMAIN kernels /\ kernels[k].gotos[X] \in 2 .. Len(kernels')
    BY <1>1, <2>1
  <2> QED
    BY <1>9, <1>11, <2>1, <2>2
<1>14. ASSUME NEW k \in DOMAIN kernels PROVE GotosRight(k)'
  <2>1. CASE k # kernelIndex
    <3>1. kernels'[k] = kernels[k]
      BY <1>7, <2>1
    <3> QED
      BY <1>13, <3>1 DEF GotosRight
  <2>2. CASE k = kernelIndex
    <3>1. kernels'[k].gotos = gotos /\ kernels'[k].closure = kernel.closure
      BY <1>6, <1>7, <2>2
    <3>2. ASSUME NEW X \in DOMAIN gotos
          PROVE  /\ gotos[X] \in 2 .. Len(kernels')
                 /\ X # EPSILON
                 /\ \A d \in kernels'[gotos[X]].items :
                      \E c \in kernel.closure : Precedes(c, X, d)'
      <4>1. CASE X = key
        BY <1>4, <1>5, <1>11, <4>1
      <4>2. CASE X # key
        <5>1. X \in DOMAIN kernels[k].gotos /\ gotos[X] = kernels[k].gotos[X]
          BY <1>5, <2>2, <4>2 DEF kernel
        <5>2. kernel.closure = kernels[k].closure
          BY <2>2 DEF kernel
        <5> QED
          BY <1>13, <5>1, <5>2
      <4> QED
        BY <4>1, <4>2
    <3> QED
      BY <3>1, <3>2 DEF GotosRight
  <2> QED
    BY <2>1, <2>2
<1>15. \A k \in DOMAIN kernels' :
         /\ IsKernel(kernels'[k])
         /\ ItemsRight(k)' /\ ClosureRight(k)' /\ GotosRight(k)'
  <2>1. ASSUME NEW k \in DOMAIN kernels' \ DOMAIN kernels
        PROVE  ClosureRight(k)' /\ GotosRight(k)'
    BY <1>10 DEF ClosureRight, GotosRight
  <2> QED
    BY <1>9, <1>10, <1>12, <1>14, <2>1
<1>16. \A k \in DOMAIN kernels : AfterDots(k)' = AfterDots(k)
  BY <1>9, SameItems DEF AfterDots
<1>17. GotosComplete'
  <2>1. ASSUME NEW k \in DOMAIN kernels'
        PROVE  /\ Done(k)' <=> k < kernelIndex /\ k \in DOMAIN kernels
               /\ Done(k)' <=> Done(k)
               /\ Underway(k)' <=> k = kernelIndex
               /\ Underway(k) <=> k = kernelIndex
    BY <1>1, <1>2, <1>3 DEF Done, Underway
  <2>2. ASSUME NEW k \in DOMAIN kernels', Done(k)'
        PROVE  DOMAIN kernels'[k].gotos = AfterDots(k)'
    <3>1. k \in DOMAIN kernels /\ k # kernelIndex /\ Done(k)
      BY <1>1, <1>3, <2>1, <2>2
    <3> QED
      BY <1>7, <1>16, <3>1 DEF Graph, GotosComplete
  <2>3. ASSUME NEW k \in DOMAIN kernels', ~ Done(k)', ~ Underway(k)'
        PROVE  kernels'[k].closure = {} /\ DOMAIN kernels'[k].gotos = {}
    <3>1. CASE k \in DOMAIN kernels
      <4>1. k # kernelIndex /\ ~ Done(k) /\ ~ Underway(k)
        BY <2>1, <2>3
      <4> QED
        BY <1>7, <3>1, <4>1 DEF Graph, GotosComplete
    <3>2. CASE k \notin DOMAIN kernels
      BY <1>10, <3>2
    <3> QED
      BY <3>1, <3>2
  <2>4. /\ kernelIndex' \in DOMAIN kernels'
        /\ keys' \cup DOMAIN kernel'.gotos = AfterDots(kernelIndex)'
        /\ keys' \cap DOMAIN kernel'.gotos = {}
    <3>1. kernel'.gotos = gotos
      BY <1>6, <1>7 DEF kernel
    <3>2. /\ keys \cup DOMAIN kernel.gotos = AfterDots(kernelIndex)
          /\ keys \cap DOMAIN kernel.gotos = {}
      BY DEF Graph, GotosComplete
    <3> QED
      BY <1>2, <1>3, <1>5, <1>16, <3>1, <3>2
  <2> QED
    BY <2>2, <2>3, <2>4, Zenon DEF GotosComplete
<1> QED
  <2>1. /\ rules' \in Grammars /\ phase' \in Building \cup {"states", "ready"}
        /\ kernelIndex' \in 1 .. Len(kernels') + 1
        /\ phase' \notin {"firsts", "follows"}
    BY <1>1, <1>3 DEF Graph, Building
  <2> QED
    BY <1>2, <1>15, <1>17, <2>1, Zenon DEF Graph, Building

LEMMA AddGotoKeeps ==
    ASSUME Graph, Table, addGoto
    PROVE  Graph' /\ Table'
<1> DEFINE Target(items) == {k \in DOMAIN kernels : SameKernel(items, kernels[k].items)}
           new(key, n) == [kernel EXCEPT !.gotos = WithGoto(@, key, n)]
           Linked(key, n) == [kernels EXCEPT ![kernelIndex] = new(key, n)]
           fresh(items) == [items |-> items, closure |-> {}, gotos |-> <<>>]
<1>1. PICK key, items :
        /\ key \in keys
        /\ keys' = keys \ {key} /\ IsShifted(items, key)
        /\ kernels' = IF Target(items) # {} THEN Linked(key, Min(Target(items)))
                      ELSE Append(Linked(key, Len(kernels) + 1), fresh(items))
  <2> DEFINE k0 == CHOOSE k \in keys : TRUE
             Linked0(n) == [kernels EXCEPT ![kernelIndex].gotos = WithGoto(@, k0, n)]
  <2>1. PICK items :
          /\ keys' = keys \ {k0} /\ IsShifted(items, k0)
          /\ kernels' = IF Target(items) # {} THEN Linked0(Min(Target(items)))
                        ELSE Append(Linked0(Len(kernels) + 1), fresh(items))
    BY Zenon DEF addGoto
  <2>2. k0 \in keys
    BY DEF addGoto
  <2>3. \A n : Linked0(n) = Linked(k0, n)
    BY Zenon DEF kernel
  <2> HIDE DEF Linked0, Linked, fresh, Target, k0
  <2> QED
    BY <2>1, <2>2, <2>3
<1>2. /\ rules' = rules /\ kernelIndex' = kernelIndex /\ states' = states
      /\ phase = "gotos" /\ phase' = phase
  BY DEF addGoto, grammarVars
<1>3. Len(kernels) \in Nat \ {0} /\ DOMAIN kernels = 1 .. Len(kernels)
  BY KernelsFacts DEF Graph
<1>4. kernelIndex \in DOMAIN kernels
  BY <1>2 DEF Graph, GotosComplete
<1>5. key # EPSILON
  BY <1>1, <1>2 DEF Graph, GotosComplete, AfterDots
<1>6. /\ \A d \in items : /\ WellFormed(d) /\ d.dotIndex # 0
                          /\ \E c \in kernel.closure : Precedes(c, key, d)
      /\ \A a, b \in items : SameHash(a, b) => a = b
  BY <1>1, <1>4, <1>5, ShiftedItems
<1>7. kernel = [items |-> kernel.items, closure |-> kernel.closure,
                gotos |-> kernel.gotos]
  BY <1>4 DEF Graph, IsKernel, kernel
<1>8. \A n : new(key, n) = [items |-> kernel.items, closure |-> kernel.closure,
                            gotos |-> WithGoto(kernel.gotos, key, n)]
  <2> TAKE n
  <2> QED
    BY <1>7
<1> HIDE DEF new
<1>9. \A n : /\ IsSeq(Linked(key, n)) /\ Len(Linked(key, n)) = Len(kernels)
             /\ \A k \in DOMAIN kernels :
                  Linked(key, n)[k] = IF k = kernelIndex THEN new(key, n) ELSE kernels[k]
  <2> TAKE n
  <2>1. PICK e : e = new(key, n)
    OBVIOUS
  <2>2. IsSeq(kernels) /\ kernelIndex \in 1 .. Len(kernels)
    BY <1>3, <1>4 DEF Graph
  <2>3. PICK linked : linked = [kernels EXCEPT ![kernelIndex] = e]
    OBVIOUS
  <2>4. /\ DOMAIN linked = DOMAIN kernels
        /\ linked = [k \in DOMAIN linked |-> linked[k]]
        /\ \A k \in DOMAIN kernels :
             linked[k] = IF k = kernelIndex THEN e ELSE kernels[k]
    BY <1>4, <2>3
  <2>5. IsSeq(linked) /\ Len(linked) = Len(kernels)
    BY <2>2, <2>4, Renewed, Zenon
  <2> QED
    BY <2>1, <2>3, <2>4, <2>5, Zenon
<1> HIDE DEF Linked
<1>10. ASSUME Target(items) # {} PROVE Graph'
  <2>1. PICK n : n = Min(Target(items))
    OBVIOUS
  <2>2. n \in Target(items)
    <3>1. Target(items) \subseteq Nat
      BY <1>3
    <3> HIDE DEF Target
    <3> QED
      BY <1>10, <2>1, <3>1, LeastOfNats
  <2>3. n \in DOMAIN kernels /\ SameKernel(items, kernels[n].items) /\ ItemsRight(n)
    BY <2>2 DEF Graph
  <2>4. \A o \in kernels[n].items : \E i \in items : SameHash(i, o)
    <3>1. IsFiniteSet(kernels[n].items)
      BY <2>3, ItemsFinite, Zenon DEF Graph, ItemsRight
    <3> QED
      BY <1>6, <2>3, <3>1, SameEitherWay
  <2>5. n # 1
    <3> SUFFICES ASSUME n = 1 PROVE FALSE
      OBVIOUS
    <3>1. kernels[n].items = {ItemOf(1, 0, {END})} /\ ItemOf(1, 0, {END}).dotIndex = 0
      BY <2>3 DEF ItemsRight, ItemOf
    <3> QED
      BY <1>6, <2>4, <3>1 DEF SameHash
  <2>6. kernels' = Linked(key, n)
    BY <1>1, <1>10, <2>1
  <2>7. /\ IsSeq(kernels') /\ Len(kernels') = Len(kernels)
        /\ \A k \in DOMAIN kernels :
             kernels'[k] = IF k = kernelIndex
               THEN [items |-> kernel.items, closure |-> kernel.closure,
                     gotos |-> WithGoto(kernel.gotos, key, n)]
               ELSE kernels[k]
    BY <1>8, <1>9, <2>6, Zenon
  <2>8. kernels'[n].items = kernels[n].items
    <3>1. CASE n = kernelIndex
      BY <2>3, <2>7, <3>1 DEF kernel
    <3>2. CASE n # kernelIndex
      BY <2>3, <2>7, <3>2
    <3> QED
      BY <3>1, <3>2
  <2>9. \A d \in kernels'[n].items : \E c \in kernel.closure : Precedes(c, key, d)
    BY <1>6, <2>4, <2>8 DEF SameHash, Precedes
  <2>10. DOMAIN kernels' = DOMAIN kernels
    BY <1>3, <2>7, SeqFacts
  <2>11. n \in 2 .. Len(kernels') /\ Len(kernels') \in Len(kernels) .. Len(kernels) + 1
    BY <1>3, <2>3, <2>5, <2>7
  <2>12. \A k \in DOMAIN kernels' \ DOMAIN kernels : FALSE
    BY <2>10
  <2> QED
    BY <1>1, <1>2, <2>7, <2>9, <2>11, <2>12, GotoAdded, Zenon
<1>11. ASSUME Target(items) = {} PROVE Graph'
  <2>1. PICK n : n = Len(kernels) + 1
    OBVIOUS
  <2>2. kernels' = Append(Linked(key, n), fresh(items))
    BY <1>1, <1>11, <2>1
  <2>3. /\ IsSeq(kernels') /\ Len(kernels') = n
        /\ \A k \in 1 .. Len(kernels) : kernels'[k] = Linked(key, n)[k]
        /\ kernels'[n] = fresh(items)
    <3>1. PICK s : s = Linked(key, n)
      OBVIOUS
    <3>2. IsSeq(s) /\ Len(s) = Len(kernels)
      BY <1>9, <3>1
    <3> HIDE DEF fresh
    <3> QED
      BY <2>1, <2>2, <3>1, <3>2, Appended
  <2>4. \A k \in DOMAIN kernels :
          kernels'[k] = IF k = kernelIndex
            THEN [items |-> kernel.items, closure |-> kernel.closure,
                  gotos |-> WithGoto(kernel.gotos, key, n)]
            ELSE kernels[k]
    BY <1>3, <1>8, <1>9, <2>3, Zenon
  <2>5. kernels'[n].items = items
    BY <2>3
  <2>6. \A d \in kernels'[n].items : \E c \in kernel.closure : Precedes(c, key, d)
    BY <1>6, <2>5
  <2>7. \A k \in DOMAIN kernels' \ DOMAIN kernels : k = n
    <3>1. DOMAIN kernels' = 1 .. Len(kernels')
      BY <2>3, SeqFacts
    <3> QED
      BY <1>3, <2>1, <2>3, <3>1
  <2>8. ItemsRight(n)'
    <3>1. n # 1
      BY <1>3, <2>1
    <3> QED
      BY <1>2, <1>6, <2>5, <3>1, SameItems DEF ItemsRight, SameHash
  <2>9. n \in 2 .. Len(kernels') /\ Len(kernels') \in Len(kernels) .. Len(kernels) + 1
    BY <1>3, <2>1, <2>3
  <2>10. \A k \in DOMAIN kernels' \ DOMAIN kernels :
           /\ kernels'[k] = [items |-> kernels'[k].items, closure |-> {},
                             gotos |-> <<>>]
           /\ ItemsRight(k)'
    BY <2>3, <2>5, <2>7, <2>8
  <2> QED
    BY <1>1, <1>2, <2>3, <2>4, <2>6, <2>9, <2>10, GotoAdded, Zenon
<1>12. Table'
  <2>1. states = <<>>
    BY <1>2 DEF Table, Building
  <2> QED
    BY <1>2, <2>1, EmptyIsSeq DEF Table, Building
<1> QED
  BY <1>10, <1>11, <1>12

\* An action that reduces by an item of the closure, read before t.
ReducesBy(k, a, t) ==
    \E i \in kernels[k].closure : Reducible(i) /\ t \in i.lookAheads /\ a = ReduceBy(i)

\* What a state's row is made of: the gotos, and an item of the closure before
\* whatever one that is at its end is read before.
IsRow(k, row) ==
    LET gotos == kernels[k].gotos
    IN /\ row.lrGoto = [X \in DOMAIN gotos \ terminals |-> gotos[X]]
       /\ \A c \in kernels[k].closure : \A t \in c.lookAheads : Reducible(c) =>
            t \in DOMAIN row.lrAction /\ ReducesBy(k, row.lrAction[t], t)
       /\ DOMAIN gotos \cap terminals \subseteq DOMAIN row.lrAction
       /\ \A t \in DOMAIN row.lrAction :
            \/ ReducesBy(k, row.lrAction[t], t)
            \/ /\ t \in DOMAIN gotos \cap terminals
               /\ row.lrAction[t] = Action("shift", gotos[t])

\* buildState adds the row of the next state.
LEMMA RowBuilt ==
    ASSUME Graph, Table, buildState
    PROVE  /\ rules' = rules /\ kernels' = kernels /\ kernelIndex' = kernelIndex + 1
           /\ phase = "states" /\ phase' = phase /\ kernelIndex <= Len(kernels)
           /\ kernelIndex \in DOMAIN kernels
           /\ IsSeq(states') /\ Len(states') = Len(states) + 1
           /\ Len(states) \in Nat /\ Len(states) + 1 = kernelIndex
           /\ \A k \in DOMAIN states' : k \in DOMAIN states \/ k = kernelIndex
           /\ \A k \in DOMAIN states : states'[k] = states[k]
           /\ IsRow(kernelIndex, states'[kernelIndex])
<1> DEFINE complete == {i \in kernel.closure : Reducible(i)}
           ahead == UNION {i.lookAheads : i \in complete}
           shifts == DOMAIN kernel.gotos \cap terminals
           TheLast(order, t) ==
             CHOOSE i \in complete :
               /\ t \in i.lookAheads
               /\ \A o \in complete : t \in o.lookAheads => order[o] <= order[i]
           row(order) ==
             [lrAction |->
                [t \in shifts \cup ahead |->
                   IF t \in ahead THEN ReduceBy(TheLast(order, t))
                                  ELSE Action("shift", kernel.gotos[t])],
              lrGoto |->
                [s \in DOMAIN kernel.gotos \ terminals |-> kernel.gotos[s]]]
<1>1. PICK order \in Bijection(complete, 1 .. Cardinality(complete)) :
        states' = Append(states, row(order))
  BY Zenon DEF buildState
<1>2. /\ rules' = rules /\ kernels' = kernels /\ kernelIndex' = kernelIndex + 1
      /\ phase = "states" /\ phase' = phase /\ kernelIndex <= Len(kernels)
  BY DEF buildState, grammarVars
<1>3. Len(kernels) \in Nat \ {0} /\ DOMAIN kernels = 1 .. Len(kernels)
  BY KernelsFacts DEF Graph
<1>4. kernelIndex \in DOMAIN kernels
  BY <1>2, <1>3 DEF Graph
<1>5. IsFiniteSet(complete)
  <2>1. ClosureRight(kernelIndex) /\ rules \in Grammars
    BY <1>4 DEF Graph
  <2>2. \A c \in kernel.closure : WellFormed(c)
    BY <2>1 DEF ClosureRight, kernel
  <2>3. \A a, b \in kernel.closure : SameHash(a, b) => a = b
    BY <2>1 DEF ClosureRight, kernel
  <2>4. IsFiniteSet(kernel.closure)
    BY <2>1, <2>2, <2>3, ItemsFinite, Zenon
  <2> QED
    BY <2>4, FS_Subset
<1>6. \A o \in complete : order[o] \in 1 .. Cardinality(complete)
  BY <1>1 DEF Bijection, Injection
<1>7. ASSUME NEW t \in ahead
      PROVE  TheLast(order, t) \in complete /\ t \in TheLast(order, t).lookAheads
  <2> DEFINE mine == {i \in complete : t \in i.lookAheads}
             N == {order[o] : o \in mine}
  <2> HIDE DEF complete
  <2>1. Cardinality(complete) \in Nat
    BY <1>5, FS_CardinalityType
  <2>2. N # {} /\ N \subseteq Nat /\ \A x \in N : x <= Cardinality(complete)
    <3>1. \A x \in N : x \in 1 .. Cardinality(complete)
      BY <1>6
    <3>2. \E i \in complete : t \in i.lookAheads
      OBVIOUS
    <3>3. N # {}
      BY <3>2
    <3> HIDE DEF N
    <3> QED
      BY <2>1, <3>1, <3>3
  <2>3. \E x \in N : \A y \in N : y <= x
    <3> HIDE DEF N
    <3> QED
      BY <2>1, <2>2, GreatestOfNats
  <2>4. \E i \in complete :
          /\ t \in i.lookAheads
          /\ \A o \in complete : t \in o.lookAheads => order[o] <= order[i]
    BY <2>3
  <2> QED
    BY <2>4, Zenon
<1>8. /\ IsSeq(states') /\ Len(states') = Len(states) + 1
      /\ \A k \in 1 .. Len(states) : states'[k] = states[k]
      /\ states'[Len(states) + 1] = row(order)
  <2>1. PICK r : r = row(order)
    OBVIOUS
  <2> HIDE DEF row
  <2> QED
    BY <1>1, <2>1, Appended DEF Table
<1>9. Len(states) \in Nat /\ Len(states) + 1 = kernelIndex
      /\ DOMAIN states = 1 .. Len(states) /\ DOMAIN states' = 1 .. Len(states) + 1
  BY <1>2, <1>3, <1>4, <1>8, SeqFacts DEF Table
<1>10. PICK r, a : r = row(order) /\ a = r.lrAction
  OBVIOUS
<1>11. /\ DOMAIN a = shifts \cup ahead
       /\ \A t \in ahead : a[t] = ReduceBy(TheLast(order, t))
       /\ \A t \in shifts \ ahead : a[t] = Action("shift", kernel.gotos[t])
       /\ r.lrGoto = [X \in DOMAIN kernel.gotos \ terminals |-> kernel.gotos[X]]
  <2> HIDE DEF shifts, ahead, TheLast
  <2> QED
    BY <1>10
<1>12. states'[kernelIndex] = r
  <2> HIDE DEF row
  <2> QED
    BY <1>8, <1>9, <1>10
<1>13. \A t \in ahead : t \in DOMAIN a /\ ReducesBy(kernelIndex, a[t], t)
  <2> SUFFICES ASSUME NEW t \in ahead
               PROVE  t \in DOMAIN a /\ ReducesBy(kernelIndex, a[t], t)
    OBVIOUS
  <2>1. TheLast(order, t) \in complete /\ t \in TheLast(order, t).lookAheads
    BY <1>7
  <2>2. PICK i \in complete : i = TheLast(order, t) /\ t \in i.lookAheads
    BY <2>1
  <2> HIDE DEF ahead, shifts, TheLast
  <2> QED
    BY <1>11, <2>2 DEF ReducesBy, kernel
<1>14. \A c \in kernel.closure : \A t \in c.lookAheads : Reducible(c) => t \in ahead
  OBVIOUS
<1>15. \A t \in DOMAIN a : \/ ReducesBy(kernelIndex, a[t], t)
                           \/ /\ t \in DOMAIN kernel.gotos \cap terminals
                              /\ a[t] = Action("shift", kernel.gotos[t])
  <2> HIDE DEF ahead, TheLast, complete
  <2> QED
    BY <1>11, <1>13
<1>16. DOMAIN kernel.gotos \cap terminals \subseteq DOMAIN a
  <2> HIDE DEF ahead
  <2> QED
    BY <1>11
<1> HIDE DEF ahead, TheLast, complete, shifts, row
<1>17. IsRow(kernelIndex, r)
  BY <1>10, <1>11, <1>13, <1>14, <1>15, <1>16, Zenon DEF IsRow, kernel
<1>18. /\ \A k \in DOMAIN states' : k \in DOMAIN states \/ k = kernelIndex
       /\ \A k \in DOMAIN states : states'[k] = states[k]
  BY <1>8, <1>9
<1> QED
  BY <1>2, <1>4, <1>8, <1>9, <1>12, <1>17, <1>18, Zenon

\* So the table stays right.
LEMMA BuildStateKeeps ==
    ASSUME Graph, Table, buildState
    PROVE  Graph' /\ Table'
<1>1. /\ rules' = rules /\ kernels' = kernels /\ kernelIndex' = kernelIndex + 1
      /\ phase = "states" /\ phase' = phase /\ kernelIndex <= Len(kernels)
      /\ kernelIndex \in DOMAIN kernels
      /\ IsSeq(states') /\ Len(states') = Len(states) + 1
      /\ Len(states) \in Nat /\ Len(states) + 1 = kernelIndex
      /\ \A k \in DOMAIN states' : k \in DOMAIN states \/ k = kernelIndex
      /\ \A k \in DOMAIN states : states'[k] = states[k]
      /\ IsRow(kernelIndex, states'[kernelIndex])
  BY RowBuilt
<1>2. ASSUME NEW k, NEW r, IsRow(k, r)
      PROVE  \A t \in DOMAIN r.lrAction :
               /\ r.lrAction[t].kind = "shift" =>
                    /\ t \in DOMAIN kernels[k].gotos \cap terminals
                    /\ r.lrAction[t].n = kernels[k].gotos[t]
               /\ r.lrAction[t].kind = "accept" =>
                    \E c \in kernels[k].closure :
                      c.rule = 1 /\ Reducible(c) /\ t \in c.lookAheads
               /\ r.lrAction[t].kind = "reduce" =>
                    /\ r.lrAction[t].n # 1
                    /\ \E c \in kernels[k].closure :
                         c.rule = r.lrAction[t].n /\ Reducible(c)
  <2> TAKE t \in DOMAIN r.lrAction
  <2>1. CASE ReducesBy(k, r.lrAction[t], t)
    <3>1. PICK c \in kernels[k].closure :
            Reducible(c) /\ t \in c.lookAheads /\ r.lrAction[t] = ReduceBy(c)
      BY <2>1 DEF ReducesBy
    <3> QED
      BY <3>1 DEF ReduceBy, Action
  <2>2. CASE /\ t \in DOMAIN kernels[k].gotos \cap terminals
             /\ r.lrAction[t] = Action("shift", kernels[k].gotos[t])
    BY <2>2 DEF Action
  <2> QED
    BY <1>2, <2>1, <2>2, Zenon DEF IsRow
<1>3. ASSUME NEW k \in DOMAIN states PROVE RowRight(k)'
  <2>1. RowRight(k) /\ states'[k] = states[k]
    BY <1>1 DEF Table
  <2> QED
    BY <1>1, <2>1 DEF RowRight, Reducible, AtEnd, development, terminals
<1>4. ASSUME NEW k, k = kernelIndex PROVE RowRight(k)'
  <2>1. PICK r : r = states'[k] /\ IsRow(k, r)
    BY <1>1, <1>4
  <2>2. r.lrGoto = [X \in DOMAIN kernels[k].gotos \ terminals |-> kernels[k].gotos[X]]
    BY <2>1, Zenon DEF IsRow
  <2> QED
    BY <1>1, <1>2, <2>1, <2>2
    DEF RowRight, Reducible, AtEnd, development, terminals
<1>5. Table'
  <2>1. ASSUME NEW k \in DOMAIN states' PROVE RowRight(k)'
    BY <1>1, <1>3, <1>4
  <2> QED
    BY <1>1, <2>1 DEF Table, Building
<1>6. Graph'
  <2>1. kernelIndex' \in 1 .. Len(kernels) + 1
    <3>1. Len(kernels) \in Nat /\ kernelIndex \in Nat
      BY <1>1, KernelsFacts DEF Graph
    <3> QED
      BY <1>1, <3>1
  <2>2. GotosComplete'
    <3>1. \A k \in DOMAIN kernels : Done(k) /\ Done(k)'
      BY <1>1 DEF Done
    <3> QED
      BY <1>1, <3>1, SameKernels DEF Graph, GotosComplete
  <2> QED
    BY <1>1, <2>1, <2>2, GraphKept
<1> QED
  BY <1>5, <1>6
-----------------------------------------------------------------------------
\* The invariant.

LEMMA InitRight == GrammarInit /\ KernelInit /\ ParserInit => IInv
<1> SUFFICES ASSUME GrammarInit, KernelInit, ParserInit PROVE IInv
  OBVIOUS
<1> DEFINE first == [items |-> {ItemOf(1, 0, {END})}, closure |-> {}, gotos |-> <<>>]
<1>1. /\ rules \in Grammars /\ phase = "firsts" /\ kernelIndex = 1
      /\ kernels = <<first>> /\ states = <<>> /\ stack = <<>> /\ outcome = "none"
  BY DEF GrammarInit, KernelInit, ParserInit
<1>2. IsSeq(kernels) /\ Len(kernels) = 1 /\ kernels[1] = first /\ DOMAIN kernels = {1}
  <2>1. PICK e : e = first
    OBVIOUS
  <2> HIDE DEF first
  <2>2. kernels \in Seq({e}) /\ Len(kernels) = 1 /\ kernels[1] = e
    BY <1>1, <2>1
  <2>3. DOMAIN kernels = 1 .. 1
    BY <2>2, LenProperties
  <2> QED
    BY <2>1, <2>2, <2>3, SeqOfAny
<1>3. /\ first.items = {ItemOf(1, 0, {END})} /\ first.closure = {}
      /\ first.gotos = <<>>
  OBVIOUS
<1>4. IsKernel(first)
  <2>1. <<>> = [X \in {} |-> <<>>[X]]
    OBVIOUS
  <2>2. first.gotos = [X \in DOMAIN first.gotos |-> first.gotos[X]]
    BY <1>3, <2>1, EmptyIsSeq
  <2> QED
    BY <1>3, <2>2, Zenon DEF IsKernel
<1> HIDE DEF first
<1>5. ItemsRight(1)
  <2>1. WellFormed(ItemOf(1, 0, {END}))
    <3>1. 1 \in DOMAIN rules /\ Len(rules[1].development) \in Nat
      BY <1>1, RulesFacts
    <3> QED
      BY <3>1 DEF WellFormed, ItemOf, development
  <2> QED
    BY <1>2, <1>3, <2>1 DEF ItemsRight
<1>6. ClosureRight(1) /\ GotosRight(1)
  BY <1>2, <1>3, EmptyIsSeq DEF ClosureRight, GotosRight
<1>7. GotosComplete
  BY <1>1, <1>2, <1>3, EmptyIsSeq DEF GotosComplete, Done, Underway
<1>8. Graph
  <2>1. kernels # <<>> /\ kernelIndex \in 1 .. Len(kernels) + 1
    BY <1>1, <1>2, EmptyIsSeq
  <2> QED
    BY <1>1, <1>2, <1>4, <1>5, <1>6, <1>7, <2>1 DEF Graph, Building
<1>9. Table
  BY <1>1, EmptyIsSeq DEF Table
<1>10. Pushed
  BY <1>1, EmptyIsSeq DEF Pushed
<1> QED
  BY <1>8, <1>9, <1>10 DEF IInv

LEMMA KernelStepKeeps ==
    ASSUME Graph, Table, KernelStep PROVE Graph' /\ Table'
  BY ClosureKeeps, AddGotoKeeps, NextKernelKeeps, GraphEndsKeeps,
     BuildStateKeeps, StatesEndKeeps DEF KernelStep

\* While the table is built nothing is parsed.
LEMMA BuildKeeps ==
    ASSUME IInv, Build PROVE IInv'
<1>1. Graph' /\ Table'
  BY GrammarKeeps, KernelStepKeeps DEF IInv, Build
<1>2. phase # "ready"
  BY DEF Build, GrammarStep, FirstsOfEpsilonRule, FirstsOfRule, FirstsPassEnds,
         FollowsOfSymbol, FollowsRuleEnds, FollowsPassEnds, KernelStep,
         updateClosure, addGoto, NextKernel, GraphEnds, buildState, StatesEnd
<1>3. Pushed'
  <2>1. stack' = stack /\ outcome' = outcome
    BY DEF Build, parserVars
  <2> QED
    BY <1>2, <2>1 DEF IInv, Pushed
<1> QED
  BY <1>1, <1>3 DEF IInv

\* What is said of the graph and of the table is said of their variables.
LEMMA BuiltKept ==
    ASSUME Graph, Table, UNCHANGED <<phase, grammarVars, kernelVars>>
    PROVE  Graph' /\ Table'
<1>1. /\ rules' = rules /\ kernels' = kernels /\ kernelIndex' = kernelIndex
      /\ keys' = keys /\ states' = states /\ phase' = phase
  BY DEF grammarVars, kernelVars
<1>2. GotosComplete'
  BY <1>1, SameKernels DEF Graph, GotosComplete, Done, Underway, kernel
<1>3. Graph'
  BY <1>1, <1>2, GraphKept DEF Graph
<1>4. \A k \in DOMAIN states' : RowRight(k)'
  BY <1>1, RowsKept DEF Table
<1>5. Table'
  BY <1>1, <1>4 DEF Table
<1> QED
  BY <1>3, <1>5

\* The steps that end a parse, or are taken between two.
LEMMA OthersKeep ==
    ASSUME Graph, Pushed, accept \/ throw \/ ReadPastEnd \/ ClientStep
    PROVE  Pushed'
<1>1. CASE accept
  <2>1. outcome = "parsing" /\ outcome' = "returned" /\ stack' = Popped(1)
    BY <1>1 DEF accept, Does, Reads
  <2>2. Len(stack) - 1 \in 0 .. Len(stack) /\ IsSeq(stack)
    BY <2>1, SeqFacts DEF Pushed
  <2>3. IsSeq(stack')
    BY <2>1, <2>2, Prefix, Zenon DEF Popped
  <2> QED
    BY <2>1, <2>3 DEF Pushed
<1>2. CASE throw
  BY <1>2 DEF throw, Pushed
<1>3. CASE ReadPastEnd
  BY <1>3 DEF ReadPastEnd, Pushed
<1>4. CASE ClientStep
  BY <1>4 DEF ClientStep, Pushed
<1> QED
  BY <1>1, <1>2, <1>3, <1>4

LEMMA StepKeeps ==
    ASSUME IInv, Build \/ Parse \/ ParserStep \/ ClientStep PROVE IInv'
<1>1. CASE Build
  BY <1>1, BuildKeeps
<1>2. CASE Parse \/ ParserStep \/ ClientStep
  <2>1. UNCHANGED <<phase, grammarVars, kernelVars>>
    BY <1>2 DEF Parse, parse, ParserStep, shift, reduce, accept, throw,
                ReadPastEnd, ClientStep
  <2>2. Graph' /\ Table'
    BY <2>1, BuiltKept DEF IInv
  <2>3. Pushed'
    BY <1>2, ParseKeeps, ShiftKeeps, ReduceKeeps, OthersKeep DEF IInv, ParserStep
  <2> QED
    BY <2>2, <2>3 DEF IInv
<1> QED
  BY <1>1, <1>2

LEMMA StutterKeeps ==
    ASSUME IInv, UNCHANGED <<phase, grammarVars, kernelVars, parserVars>>
    PROVE  IInv'
<1>1. Graph' /\ Table'
  BY BuiltKept DEF IInv
<1>2. Pushed'
  BY DEF IInv, Pushed, IsPath, Follows, Spells, Terminal, nullptr, IsEpsilonRule,
         Goto, parserVars, grammarVars, kernelVars
<1> QED
  BY <1>1, <1>2 DEF IInv

\* The invariant says what StackIsPath says, and what a reduction finds.
LEMMA InvImpliesPath == IInv => StackIsPath
<1> SUFFICES ASSUME IInv, outcome = "parsing"
             PROVE  /\ stack[bottom] = Goto(1)
                    /\ \E depth \in 0 .. Len(stack) :
                         /\ Len(stack) = bottom + 2 * depth
                         /\ \A m \in 0 .. depth - 1 : Follows(bottom + 2 * m)
                    /\ Does("reduce") /\ ~ IsEpsilonRule(reducedRule) =>
                         LET n == Len(reducedRule.development)
                         IN /\ Len(stack) - bottom >= 2 * n
                            /\ \A k \in 1 .. n :
                                 Spells(stack[Len(stack) - 2 * (n - k) - 1],
                                        reducedRule.development[k])
  BY Zenon DEF StackIsPath
<1>1. Graph /\ Table /\ Pushed
  BY DEF IInv
<1>2. PICK depth \in 0 .. Len(stack) : IsPath(depth)
  BY <1>1 DEF Pushed
<1>3. depth \in Nat /\ bottom \in Nat
  BY <1>1, SeqFacts DEF Pushed
<1>4. Len(stack) = bottom + 2 * depth
  BY <1>2 DEF IsPath
<1>5. ASSUME Does("reduce"), ~ IsEpsilonRule(reducedRule)
      PROVE  LET n == Len(reducedRule.development)
             IN /\ Len(stack) - bottom >= 2 * n
                /\ \A k \in 1 .. n :
                     Spells(stack[Len(stack) - 2 * (n - k) - 1],
                            reducedRule.development[k])
  <2> DEFINE n == Len(reducedRule.development)
  <2>1. /\ n \in 0 .. depth
        /\ \A l \in 1 .. n : Spells(stack[bottom + 2 * (depth - l) + 1],
                                    reducedRule.development[n - l + 1])
    BY <1>1, <1>2, <1>3, <1>5, Reduction
  <2> HIDE DEF n
  <2>2. ASSUME NEW k \in 1 .. n
        PROVE  Spells(stack[Len(stack) - 2 * (n - k) - 1], reducedRule.development[k])
    <3>1. PICK l : l = n - k + 1
      OBVIOUS
    <3>2. /\ l \in 1 .. n /\ n - l + 1 = k
          /\ Len(stack) - 2 * (n - k) - 1 = bottom + 2 * (depth - l) + 1
      BY <1>3, <1>4, <2>1, <3>1
    <3> QED
      BY <2>1, <3>2, Zenon
  <2>3. Len(stack) - bottom >= 2 * n
    BY <1>3, <1>4, <2>1
  <2> QED
    BY <2>2, <2>3, Zenon DEF n
<1> QED
  BY <1>2, <1>5, Zenon DEF IsPath

\* Whatever the grammar, the order of every iteration, the texts parsed and what
\* earlier parses left on the stack: what parse has pushed is a path of the
\* automaton from state 0, and a reduction pops the symbols of its rule.
THEOREM ParserKeepsPath == ParserSpec => []StackIsPath
<1> DEFINE Next == Build \/ Parse \/ ParserStep \/ ClientStep
           vars == <<phase, grammarVars, kernelVars, parserVars>>
<1>1. GrammarInit /\ KernelInit /\ ParserInit => IInv
  BY InitRight
<1>2. IInv /\ [Next]_vars => IInv'
  BY StepKeeps, StutterKeeps, Zenon
<1>3. IInv => StackIsPath
  BY InvImpliesPath
<1> QED
  BY <1>1, <1>2, <1>3, PTL DEF ParserSpec
-----------------------------------------------------------------------------
\* The lexer.  lexing is defined by recursion, as found is.
LEMMA LexingRecursion ==
    ASSUME NEW keywords, NEW text, Len(text) \in Nat
    PROVE  lexing(keywords, text) = [n \in 0 .. Len(text) |->
             IF n = 0
               THEN [keywords |-> keywords, tokens |-> <<>>, openString |-> <<>>,
                     inWord |-> FALSE, undefined |-> FALSE]
               ELSE Lex(lexing(keywords, text)[n - 1], text[n])]
<1> DEFINE next(l, n) == Lex(l, text[n])
           first == [keywords |-> keywords, tokens |-> <<>>, openString |-> <<>>,
                     inWord |-> FALSE, undefined |-> FALSE]
           Lexes(f, l) == f = [n \in 0 .. l |->
                                 IF n = 0 THEN first ELSE next(f[n - 1], n)]
           bad == {l \in Nat : ~ \E f : Lexes(f, l)}
<1>0. lexing(keywords, text) = CHOOSE f : Lexes(f, Len(text))
  BY DEF lexing
<1> HIDE DEF next, first
<1>1. \E f : Lexes(f, 0)
  <2> DEFINE g == [n \in 0 .. 0 |-> first]
  <2>1. \A n \in 0 .. 0 : n = 0
    OBVIOUS
  <2>2. g = [n \in 0 .. 0 |-> IF n = 0 THEN first ELSE next(g[n - 1], n)]
    BY <2>1, Zenon
  <2> QED
    BY <2>2
<1>2. ASSUME NEW l \in Nat \ {0}, NEW f, Lexes(f, l - 1)
      PROVE  \E g : Lexes(g, l)
  <2> DEFINE g == [n \in 0 .. l |-> IF n = l THEN next(f[l - 1], l) ELSE f[n]]
             h == [n \in 0 .. l |-> IF n = 0 THEN first ELSE next(g[n - 1], n)]
  <2>1. ASSUME NEW n \in 0 .. l PROVE g[n] = h[n]
    <3>1. h[n] = IF n = 0 THEN first ELSE next(g[n - 1], n)
      BY Zenon
    <3>2. CASE n = 0
      <4>1. 0 \in 0 .. l - 1 /\ n # l
        BY <3>2
      <4>2. g[n] = f[0]
        BY <3>2, <4>1
      <4>3. f[0] = first
        BY <1>2, <4>1, Zenon
      <4> QED
        BY <3>1, <3>2, <4>2, <4>3
    <3>3. CASE n # 0 /\ n = l
      <4>1. l - 1 \in 0 .. l /\ l - 1 # l
        OBVIOUS
      <4>2. g[l - 1] = f[l - 1]
        BY <4>1, Zenon
      <4>3. g[n] = next(f[l - 1], l)
        BY <3>3, Zenon
      <4> QED
        BY <3>1, <3>3, <4>2, <4>3
    <3>4. CASE n # 0 /\ n # l
      <4>1. /\ n \in 0 .. l - 1
            /\ n - 1 \in 0 .. l /\ n - 1 # l
        BY <3>4
      <4>2. g[n] = f[n] /\ g[n - 1] = f[n - 1]
        BY <3>4, <4>1, Zenon
      <4>3. f[n] = next(f[n - 1], n)
        BY <1>2, <3>4, <4>1, Zenon
      <4> QED
        BY <3>1, <3>4, <4>2, <4>3
    <3> QED
      BY <3>2, <3>3, <3>4, Zenon
  <2>2. g = h
    BY <2>1, Zenon
  <2>3. Lexes(g, l)
    BY <2>2, Zenon
  <2> HIDE DEF Lexes
  <2> QED
    BY <2>3, Zenon
<1>3. bad = {}
  <2> HIDE DEF Lexes
  <2> SUFFICES ASSUME bad # {} PROVE FALSE
    OBVIOUS
  <2>1. Min(bad) \in bad /\ \A l \in bad : Min(bad) <= l
    BY LeastOfNats
  <2>2. PICK l : l = Min(bad)
    OBVIOUS
  <2>3. l \in Nat /\ l # 0 /\ ~ \E g : Lexes(g, l)
    BY <1>1, <2>1, <2>2
  <2>4. l - 1 \in Nat /\ ~ (l <= l - 1)
    BY <2>3
  <2>5. l - 1 \notin bad
    BY <2>1, <2>2, <2>4
  <2>6. PICK f : Lexes(f, l - 1)
    BY <2>4, <2>5
  <2> QED
    BY <1>2, <2>3, <2>6
<1>4. Lexes(lexing(keywords, text), Len(text))
  <2> HIDE DEF Lexes
  <2>1. \E f : Lexes(f, Len(text))
    BY <1>3
  <2> QED
    BY <1>0, <2>1, Zenon
<1> QED
  BY <1>4 DEF next, first

AreTokens(given) ==
    /\ IsSeq(given)
    /\ \A k \in DOMAIN given : given[k] = Token(given[k].type, given[k].value)

Lexer(keywords, given, openString, inWord, undefined) ==
    [keywords |-> keywords, tokens |-> given, openString |-> openString,
     inWord |-> inWord, undefined |-> undefined]

\* A lexer between two characters: nothing but tokens is in its vector, and it
\* met a character that it had no token to append to only before the first.
IsLexer(lexer) ==
    /\ lexer = Lexer(lexer.keywords, lexer.tokens, lexer.openString,
                     lexer.inWord, lexer.undefined)
    /\ AreTokens(lexer.tokens)
    /\ lexer.undefined \in BOOLEAN
    /\ lexer.undefined => lexer.tokens = <<>>

LEMMA LexerExcept ==
    ASSUME NEW lexer, IsLexer(lexer), NEW x, NEW y
    PROVE  /\ [lexer EXCEPT !.tokens = x]
                = Lexer(lexer.keywords, x, lexer.openString, lexer.inWord,
                        lexer.undefined)
           /\ [lexer EXCEPT !.tokens = x, !.inWord = y]
                = Lexer(lexer.keywords, x, lexer.openString, y, lexer.undefined)
           /\ [lexer EXCEPT !.openString = x]
                = Lexer(lexer.keywords, lexer.tokens, x, lexer.inWord,
                        lexer.undefined)
           /\ [lexer EXCEPT !.undefined = x]
                = Lexer(lexer.keywords, lexer.tokens, lexer.openString,
                        lexer.inWord, x)
           /\ [[lexer EXCEPT !.tokens = x, !.inWord = FALSE] EXCEPT !.openString = y]
                = Lexer(lexer.keywords, x, y, FALSE, lexer.undefined)
<1>1. lexer = Lexer(lexer.keywords, lexer.tokens, lexer.openString,
                    lexer.inWord, lexer.undefined)
  BY DEF IsLexer
<1>2. [lexer EXCEPT !.tokens = x]
        = Lexer(lexer.keywords, x, lexer.openString, lexer.inWord,
                lexer.undefined)
  BY <1>1 DEF Lexer
<1>3. [lexer EXCEPT !.openString = x]
        = Lexer(lexer.keywords, lexer.tokens, x, lexer.inWord, lexer.undefined)
  BY <1>1 DEF Lexer
<1>4. [lexer EXCEPT !.undefined = x]
        = Lexer(lexer.keywords, lexer.tokens, lexer.openString, lexer.inWord, x)
  BY <1>1 DEF Lexer
<1>5. PICK l : l = [lexer EXCEPT !.tokens = x]
  OBVIOUS
<1>6. l = Lexer(lexer.keywords, x, lexer.openString, lexer.inWord,
                lexer.undefined)
  BY <1>2, <1>5
<1>7. \A z : [l EXCEPT !.inWord = z]
                = Lexer(lexer.keywords, x, lexer.openString, z, lexer.undefined)
  <2> SUFFICES ASSUME NEW z
               PROVE  [l EXCEPT !.inWord = z] = Lexer(lexer.keywords, x,
                        lexer.openString, z, lexer.undefined)
    OBVIOUS
  <2> QED
    BY <1>6 DEF Lexer
<1>8. \A z : [lexer EXCEPT !.tokens = x, !.inWord = z] = [l EXCEPT !.inWord = z]
  BY <1>5
<1>9. ASSUME NEW f, NEW m,
             m = Lexer(lexer.keywords, x, lexer.openString, f, lexer.undefined)
      PROVE  [m EXCEPT !.openString = y]
               = Lexer(lexer.keywords, x, y, f, lexer.undefined)
  BY <1>9 DEF Lexer
<1>10. PICK m : m = [lexer EXCEPT !.tokens = x, !.inWord = FALSE]
  OBVIOUS
<1>11. m = Lexer(lexer.keywords, x, lexer.openString, FALSE, lexer.undefined)
  BY <1>7, <1>8, <1>10, Zenon
<1>12. [[lexer EXCEPT !.tokens = x, !.inWord = FALSE] EXCEPT !.openString = y]
         = Lexer(lexer.keywords, x, y, FALSE, lexer.undefined)
  <2>1. [m EXCEPT !.openString = y]
          = Lexer(lexer.keywords, x, y, FALSE, lexer.undefined)
    BY <1>9, <1>11, Zenon
  <2> QED
    BY <1>10, <2>1
<1>13. [lexer EXCEPT !.tokens = x, !.inWord = y]
         = Lexer(lexer.keywords, x, lexer.openString, y, lexer.undefined)
  BY <1>7, <1>8, Zenon
<1> QED
  BY <1>2, <1>3, <1>4, <1>12, <1>13, Zenon

LEMMA AppendedToken ==
    ASSUME NEW given, AreTokens(given), NEW type, NEW value
    PROVE  AreTokens(Append(given, Token(type, value)))
<1> DEFINE t == Token(type, value)
<1>1. /\ IsSeq(Append(given, t))
      /\ Len(Append(given, t)) = Len(given) + 1
      /\ \A k \in 1 .. Len(given) : Append(given, t)[k] = given[k]
      /\ Append(given, t)[Len(given) + 1] = t
  BY Appended DEF AreTokens
<1>2. t = Token(t.type, t.value)
  BY DEF Token
<1>3. /\ Len(given) \in Nat /\ DOMAIN given = 1 .. Len(given)
      /\ DOMAIN Append(given, t) = 1 .. Len(given) + 1
  BY <1>1, SeqFacts DEF AreTokens
<1> HIDE DEF t
<1>4. ASSUME NEW k \in 1 .. Len(given) + 1
      PROVE  \/ Append(given, t)[k] = t
             \/ k \in DOMAIN given /\ Append(given, t)[k] = given[k]
  BY <1>1, <1>3
<1>5. ASSUME NEW k \in DOMAIN Append(given, t)
      PROVE  Append(given, t)[k] = Token(Append(given, t)[k].type, Append(given, t)[k].value)
  BY <1>2, <1>3, <1>4, Zenon DEF AreTokens
<1> QED
  BY <1>1, <1>5, Zenon DEF AreTokens, t

\* A longer last token is a token.
LEMMA LengthenedTokens ==
    ASSUME NEW given, AreTokens(given), NEW c
    PROVE  AreTokens(Lengthened(given, c))
<1> DEFINE longer == Lengthened(given, c)
<1>1. /\ DOMAIN longer = DOMAIN given
      /\ longer = [k \in DOMAIN longer |-> longer[k]]
      /\ \A k \in DOMAIN given : longer[k] =
           IF k = Len(given)
             THEN [given[k] EXCEPT !.value = Append(given[k].value, c)]
             ELSE given[k]
  BY DEF Lengthened
<1> HIDE DEF longer
<1>2. IsSeq(longer)
  BY <1>1, Renewed DEF AreTokens
<1>3. ASSUME NEW k \in DOMAIN given
      PROVE  longer[k] = Token(longer[k].type, longer[k].value)
  <2>1. given[k] = Token(given[k].type, given[k].value)
    BY DEF AreTokens
  <2>2. CASE k = Len(given)
    <3>1. longer[k] = [given[k] EXCEPT !.value = Append(given[k].value, c)]
      BY <1>1, <2>2
    <3> QED
      BY <2>1, <3>1 DEF Token
  <2>3. CASE k # Len(given)
    BY <1>1, <2>1, <2>3
  <2> QED
    BY <2>2, <2>3
<1> QED
  BY <1>1, <1>2, <1>3, Zenon DEF AreTokens, longer

\* All tokens but the last.
LEMMA FrontTokens ==
    ASSUME NEW given, AreTokens(given) PROVE AreTokens(Front(given))
<1> DEFINE n == Len(given) - 1
<1>1. Len(given) \in Nat /\ DOMAIN given = 1 .. Len(given) /\ IsSeq(given)
  BY SeqFacts DEF AreTokens
<1>2. CASE given = <<>>
  <2>1. Front(given) = SubSeq(given, 1, Len(given) - 1)
    BY DEF Front
  <2>2. Len(given) = 0
    BY <1>2, EmptyIsSeq
  <2>3. Front(given) = <<>>
    BY <1>2, <2>1, <2>2
  <2> QED
    BY <1>2, <2>3
<1>3. CASE given # <<>>
  <2>1. n \in 0 .. Len(given)
    <3>1. Len(given) # 0
      BY <1>1, <1>3, EmptySeq DEF IsSeq
    <3> QED
      BY <1>1, <3>1
  <2>2. Front(given) = SubSeq(given, 1, n)
    BY DEF Front
  <2> HIDE DEF n
  <2>3. /\ IsSeq(Front(given)) /\ Len(Front(given)) = n
        /\ \A k \in 1 .. n : Front(given)[k] = given[k]
    BY <1>1, <2>1, <2>2, Prefix
  <2>4. DOMAIN Front(given) = 1 .. n /\ \A k \in 1 .. n : k \in DOMAIN given
    BY <1>1, <2>1, <2>3, SeqFacts
  <2> QED
    BY <2>3, <2>4, Zenon DEF AreTokens
<1> QED
  BY <1>2, <1>3

\* Every character keeps the lexer what it should be.
LEMMA LexKeeps ==
    ASSUME NEW lexer, IsLexer(lexer), NEW c
    PROVE  IsLexer(Lex(lexer, c))
<1> DEFINE given == lexer.tokens
           quote == lexer.openString
           keywords == lexer.keywords
           word == lexer.inWord
           same == lexer.undefined
<1>1. /\ AreTokens(given)
      /\ same => given = <<>>
      /\ lexer = Lexer(keywords, given, quote, word, same)
      /\ ~ same => same = FALSE
  BY DEF IsLexer
<1>2. \A more, q, w : AreTokens(more) => IsLexer(Lexer(keywords, more, q, w, FALSE))
  BY DEF IsLexer, Lexer
<1>3. \A more, q, w : more = <<>> /\ AreTokens(more) =>
        IsLexer(Lexer(keywords, more, q, w, TRUE))
  BY DEF IsLexer, Lexer
<1> DEFINE lexed == Lex(lexer, c)
<1> SUFFICES IsLexer(lexed)
  OBVIOUS
<1>5. CASE same
  <2>1. lexed = lexer
    BY <1>5, Zenon DEF Lex
  <2> QED
    BY <2>1, Zenon
<1>a. ASSUME ~ same, NEW more, AreTokens(more), NEW q, NEW w,
             lexed = Lexer(keywords, more, q, w, same)
      PROVE  IsLexer(lexed)
  <2>1. lexed = Lexer(keywords, more, q, w, FALSE)
    BY <1>1, <1>a, Zenon
  <2> HIDE DEF lexed
  <2> QED
    BY <1>2, <1>a, <2>1, Zenon
<1>b. ASSUME NEW more, lexed = [lexer EXCEPT !.tokens = more, !.inWord = FALSE]
      PROVE  lexed = Lexer(keywords, more, quote, FALSE, same)
  BY <1>b, LexerExcept, Zenon
<1>6. CASE ~ same /\ quote = <<c>>
  <2>1. lexed = [lexer EXCEPT !.openString = <<>>]
    BY <1>6, Zenon DEF Lex
  <2>2. lexed = Lexer(keywords, given, <<>>, word, same)
    BY <2>1, LexerExcept, Zenon
  <2> HIDE DEF lexed
  <2> QED
    BY <1>1, <1>6, <1>a, <2>2, Zenon
<1>7. CASE ~ same /\ quote # <<c>> /\ quote # <<>>
  <2>1. lexed = [lexer EXCEPT !.tokens = Lengthened(given, c), !.inWord = FALSE]
    BY <1>7, Zenon DEF Lex
  <2>2. AreTokens(Lengthened(given, c))
    BY <1>1, LengthenedTokens
  <2> HIDE DEF lexed
  <2> QED
    BY <1>7, <1>a, <1>b, <2>1, <2>2, Zenon
<1>8. CASE ~ same /\ quote = <<>> /\ word /\ c \in Letter \cup {UNDERSCORE}
  <2> DEFINE more == Append(Front(given),
                            Word(keywords, Append(Last(given).value, c)))
  <2>0. quote # <<c>>
    BY <1>8
  <2>1. lexed = [lexer EXCEPT !.tokens = more]
    BY <1>8, <2>0, Zenon DEF Lex
  <2>2. AreTokens(Front(given))
    BY <1>1, FrontTokens
  <2>3. AreTokens(more)
    BY <2>2, AppendedToken DEF Word
  <2> HIDE DEF more
  <2>4. lexed = Lexer(keywords, more, quote, word, same)
    BY <2>1, LexerExcept, Zenon
  <2> HIDE DEF lexed
  <2> QED
    BY <1>8, <1>a, <2>3, <2>4, Zenon
<1>9. CASE ~ same /\ quote = <<>> /\ ~ (word /\ c \in Letter \cup {UNDERSCORE})
  <2>1. quote # <<c>>
    BY <1>9
  <2>2. CASE c \in Letter
    <3> DEFINE more == Append(given, Word(keywords, <<c>>))
    <3>1. lexed = [lexer EXCEPT !.tokens = more, !.inWord = TRUE]
      BY <1>9, <2>1, <2>2, Zenon DEF Lex
    <3>2. AreTokens(more)
      BY <1>1, AppendedToken DEF Word
    <3> HIDE DEF more
    <3>3. lexed = Lexer(keywords, more, quote, TRUE, same)
      BY <3>1, LexerExcept, Zenon
    <3> HIDE DEF lexed
    <3> QED
      BY <1>9, <1>a, <3>2, <3>3, Zenon
  <2>3. CASE c \notin Letter /\ c \in Space
    <3>1. lexed = [lexer EXCEPT !.tokens = given, !.inWord = FALSE]
      BY <1>9, <2>1, <2>3, Zenon DEF Lex
    <3> HIDE DEF lexed
    <3> QED
      BY <1>1, <1>9, <1>a, <1>b, <3>1, Zenon
  <2>4. CASE c \notin Letter /\ c \notin Space /\ c \in STRING_SYMBOL
    <3> DEFINE more == Append(given, Token("IDENTIFIER", <<>>))
    <3>1. lexed = [[lexer EXCEPT !.tokens = more, !.inWord = FALSE]
                     EXCEPT !.openString = <<c>>]
      BY <1>9, <2>1, <2>4, Zenon DEF Lex
    <3>2. AreTokens(more)
      BY <1>1, AppendedToken
    <3> HIDE DEF more
    <3>4. lexed = Lexer(keywords, more, <<c>>, FALSE, same)
      BY <3>1, LexerExcept, Zenon
    <3> HIDE DEF lexed
    <3> QED
      BY <1>9, <1>a, <3>2, <3>4, Zenon
  <2>5. CASE /\ c \notin Letter /\ c \notin Space /\ c \notin STRING_SYMBOL
             /\ c \in TOKENSYMBOL
    <3> DEFINE more == Append(given, Token("SYMBOL", <<c>>))
    <3>1. lexed = [lexer EXCEPT !.tokens = more, !.inWord = FALSE]
      BY <1>9, <2>1, <2>5, Zenon DEF Lex
    <3>2. AreTokens(more)
      BY <1>1, AppendedToken
    <3> HIDE DEF more, lexed
    <3> QED
      BY <1>9, <1>a, <1>b, <3>1, <3>2, Zenon
  <2>6. CASE /\ c \notin Letter /\ c \notin Space /\ c \notin STRING_SYMBOL
             /\ c \notin TOKENSYMBOL
    <3>1. CASE given = <<>>
      <4>1. lexed = [lexer EXCEPT !.undefined = TRUE]
        BY <1>9, <2>1, <2>6, <3>1, Zenon DEF Lex
      <4>2. lexed = Lexer(keywords, given, quote, word, TRUE)
        BY <4>1, LexerExcept, Zenon
      <4> HIDE DEF lexed
      <4> QED
        BY <1>1, <1>3, <3>1, <4>2, Zenon
    <3>2. CASE given # <<>>
      <4>1. lexed = [lexer EXCEPT !.tokens = Lengthened(given, c), !.inWord = FALSE]
        BY <1>9, <2>1, <2>6, <3>2, Zenon DEF Lex
      <4>2. AreTokens(Lengthened(given, c))
        BY <1>1, LengthenedTokens
      <4> HIDE DEF lexed
      <4> QED
        BY <1>9, <1>a, <1>b, <4>1, <4>2, Zenon
    <3> QED
      BY <3>1, <3>2, Zenon
  <2> QED
    BY <2>2, <2>3, <2>4, <2>5, <2>6, Zenon
<1> QED
  BY <1>5, <1>6, <1>7, <1>8, <1>9, Zenon

\* So at the end of a text.
LEMMA LexingRight ==
    ASSUME NEW keywords, NEW text, IsSeq(text)
    PROVE  IsLexer(lexing(keywords, text)[Len(text)])
<1> DEFINE L == lexing(keywords, text)
           N == Len(text)
           bad == {n \in 0 .. N : ~ IsLexer(L[n])}
<1>1. N \in Nat
  BY SeqFacts
<1>2. /\ L[0] = [keywords |-> keywords, tokens |-> <<>>, openString |-> <<>>,
                 inWord |-> FALSE, undefined |-> FALSE]
      /\ \A n \in 1 .. N : L[n] = Lex(L[n - 1], text[n])
  <2>1. L = [n \in 0 .. N |->
          IF n = 0
            THEN [keywords |-> keywords, tokens |-> <<>>, openString |-> <<>>,
                  inWord |-> FALSE, undefined |-> FALSE]
            ELSE Lex(L[n - 1], text[n])]
    BY <1>1, LexingRecursion
  <2> HIDE DEF L
  <2>2. 0 \in 0 .. N /\ \A n \in 1 .. N : n \in 0 .. N /\ n # 0
    BY <1>1
  <2> QED
    BY <2>1, <2>2, Zenon
<1> HIDE DEF L
<1>3. IsLexer(L[0])
  BY <1>2, EmptyIsSeq DEF IsLexer, Lexer, AreTokens
<1>4. bad = {}
  <2> SUFFICES ASSUME bad # {} PROVE FALSE
    OBVIOUS
  <2>1. bad \subseteq Nat
    BY <1>1
  <2>2. PICK l \in bad : \A n \in bad : l <= n
    BY <2>1, LeastOfNats
  <2>3. l \in 1 .. N /\ l - 1 \in 0 .. N /\ ~ (l <= l - 1)
    BY <1>1, <1>3, <2>2
  <2>4. IsLexer(L[l - 1])
    BY <2>2, <2>3
  <2>5. IsLexer(L[l])
    BY <1>2, <2>3, <2>4, LexKeeps, Zenon
  <2> QED
    BY <2>2, <2>5
<1>5. N \in 0 .. N
  BY <1>1
<1> QED
  BY <1>4, <1>5 DEF L

-----------------------------------------------------------------------------
\* The last token is the end marker, or looks like it.
Ends(t) == keyOf(t) = END \/ t = Token("IDENTIFIER", <<END>>)

LEMMA TokenizeRight ==
    ASSUME NEW keywords, NEW text, IsSeq(text)
    PROVE  LET lexed == tokenize(keywords, text)
           IN /\ lexed.undefined => lexed.tokens = <<>>
              /\ IsSeq(lexed.tokens)
              /\ lexed.tokens # <<>> => Ends(Last(lexed.tokens))
<1> DEFINE lexer == lexing(keywords, text)[Len(text)]
           given == lexer.tokens
           lexed == tokenize(keywords, text)
<1>1. lexed = [tokens |-> Ended(given), undefined |-> lexer.undefined]
  BY DEF tokenize
<1>2. AreTokens(given) /\ (lexer.undefined => given = <<>>)
  BY LexingRight DEF IsLexer
<1> HIDE DEF lexer
<1>3. lexed.tokens = Ended(given) /\ lexed.undefined = lexer.undefined
  BY <1>1
<1> HIDE DEF lexed, given
<1>4. CASE given # <<>> /\ Last(given).value # <<END>>
  <2> DEFINE t == Token("SYMBOL", <<END>>)
  <2>1. Ended(given) = Append(given, t)
    BY <1>4, Zenon DEF Ended
  <2>2. keyOf(t) = END
    BY DEF keyOf, Token
  <2> HIDE DEF t
  <2>3. IsSeq(Append(given, t)) /\ Last(Append(given, t)) = t
    BY <1>2, Appended DEF AreTokens, Last
  <2> QED
    BY <1>2, <1>3, <1>4, <2>1, <2>2, <2>3 DEF Ends, lexed
<1>5. CASE given # <<>> /\ Last(given).value = <<END>>
  <2>1. Ended(given) = given
    BY <1>5, Zenon DEF Ended
  <2>2. Len(given) \in DOMAIN given
    <3>1. Len(given) \in Nat /\ DOMAIN given = 1 .. Len(given)
      BY <1>2, SeqFacts DEF AreTokens
    <3>2. Len(given) # 0
      BY <1>2, <1>5, EmptySeq DEF AreTokens, IsSeq
    <3> QED
      BY <3>1, <3>2
  <2>3. PICK t : t = Last(given)
    OBVIOUS
  <2>4. t = Token(t.type, <<END>>)
    BY <1>2, <1>5, <2>2, <2>3 DEF AreTokens, Last
  <2>5. Ends(t)
    BY <2>4 DEF Ends, keyOf, Token
  <2> QED
    BY <1>2, <1>3, <2>1, <2>3, <2>5, <1>5 DEF AreTokens, lexed
<1>6. CASE given = <<>>
  <2>1. Ended(given) = <<>>
    BY <1>6, Zenon DEF Ended
  <2> QED
    BY <1>3, <2>1, EmptyIsSeq DEF lexed
<1> QED
  BY <1>4, <1>5, <1>6, Zenon

\* While a parse runs its tokens end as they should, and what was shifted last
\* was no end marker.
Read ==
    /\ TokensSuffice
    /\ outcome = "parsing" =>
         /\ IsSeq(tokens) /\ tokens # <<>>
         /\ Ends(Last(tokens))
         /\ currIndex \in 1 .. Len(tokens) + 1
         /\ currIndex = Len(tokens) + 1 => keyOf(Last(tokens)) # END

\* A list as a text is a sequence of characters.
LEMMA SpacedIsSeq ==
    ASSUME NEW list, IsSeq(list)
    PROVE  /\ IsSeq(Spaced(list)) /\ Len(Spaced(list)) = 2 * Len(list)
           /\ \A k \in 1 .. 2 * Len(list) : Spaced(list)[k] =
                IF k % 2 = 0 THEN space
                ELSE IF list[(k + 1) \div 2] = ID THEN NAME
                     ELSE list[(k + 1) \div 2]
<1> DEFINE s == Spaced(list)
           n == 2 * Len(list)
<1>1. Len(list) \in Nat /\ n \in Nat
  BY SeqFacts
<1>2. s = [k \in 1 .. n |->
             IF k % 2 = 0 THEN space
             ELSE IF list[(k + 1) \div 2] = ID THEN NAME
                  ELSE list[(k + 1) \div 2]]
  BY DEF Spaced
<1> HIDE DEF s
<1>3. DOMAIN s = 1 .. n /\ s = [k \in 1 .. n |-> s[k]]
  BY <1>2
<1> HIDE DEF n
<1>4. s \in [1 .. n -> ToSet(s)]
  BY <1>3 DEF ToSet
<1>5. IsSeq(s) /\ Len(s) = n
  BY <1>1, <1>3, <1>4, SeqDef, LenProperties DEF IsSeq
<1> QED
  BY <1>2, <1>5, Zenon DEF s, n

\* What the texts given to the parser are.
LEMMA TextsAreSeqs ==
    ASSUME rules \in Grammars, NEW lexed \in LexedOf[rules]
    PROVE  /\ lexed.undefined => lexed.tokens = <<>>
           /\ IsSeq(lexed.tokens)
           /\ lexed.tokens # <<>> => Ends(Last(lexed.tokens))
<1>1. PICK text \in {Spaced(list) : list \in Lists(rules)} \cup Texts(rules) :
        lexed = tokenize(TerminalsOf(rules), text)
  BY DEF LexedOf
<1>2. IsSeq(text)
  <2>1. CASE text \in Texts(rules)
    BY <2>1, TextsAssumption, Zenon DEF IsSeq
  <2>2. ASSUME NEW list \in Lists(rules), text = Spaced(list) PROVE IsSeq(text)
    <3>1. IsSeq(list)
      BY TextsAssumption, SeqOfAny
    <3> QED
      BY <2>2, <3>1, SpacedIsSeq, Zenon
  <2> QED
    BY <1>1, <2>1, <2>2
<1> QED
  BY <1>1, <1>2, TokenizeRight

\* No terminal is the end marker.
LEMMA EndIsNoTerminal == \A R \in Grammars : END \notin TerminalsOf(R)
<1> SUFFICES ASSUME NEW R \in Grammars PROVE END \notin TerminalsOf(R)
  OBVIOUS
<1>1. \A r \in DOMAIN R : END \notin ToSet(R[r].development)
  BY GrammarsAssumption
<1> QED
  BY <1>1 DEF TerminalsOf

\* What the parser shifts is a terminal, and no end marker.
LEMMA ShiftsTerminal ==
    ASSUME IInv, shift PROVE token \in terminals /\ token # END
<1>1. /\ phase = "ready" /\ outcome = "parsing" /\ Graph /\ Table /\ Pushed
      /\ bottom \in Nat \ {0} /\ IsSeq(stack) /\ Len(stack) \in Nat
  <2>1. Pushed /\ outcome = "parsing"
    BY DEF IInv, shift, Does, Reads
  <2>2. Len(stack) \in Nat
    BY <2>1, SeqFacts DEF Pushed
  <2> QED
    BY <2>1, <2>2 DEF IInv, Pushed
<1>2. PICK depth \in 0 .. Len(stack) : IsPath(depth)
  BY <1>1 DEF Pushed
<1>3. depth \in Nat /\ depth \in 0 .. depth
  BY <1>1
<1> DEFINE k == stack[bottom + 2 * depth].state
<1>4. k \in DOMAIN kernels
  BY <1>2, <1>3, StateAt
<1>5. state = states[k]
  BY <1>1, <1>2, <1>3, TopIs DEF state
<1>6. RowRight(k)
  BY <1>1, <1>4, RowAt
<1>7. token \in DOMAIN kernels[k].gotos \cap terminals
  BY <1>5, <1>6, Zenon DEF RowRight, shift, Does
<1>8. token \in terminals
  BY <1>7, Zenon
<1> QED
  BY <1>1, <1>8, EndIsNoTerminal DEF Graph, terminals

LEMMA ReadKept ==
    ASSUME IInv, Read, Build \/ Parse \/ ParserStep \/ ClientStep
    PROVE  Read'
<1>1. CASE Build
  <2>1. tokens' = tokens /\ currIndex' = currIndex /\ outcome' = outcome
    BY <1>1 DEF Build, parserVars
  <2> QED
    BY <2>1 DEF Read, TokensSuffice, Ends, keyOf, Token
<1>2. CASE Parse
  <2>1. PICK lexed \in LexedOf[rules] : parse(lexed)
    BY <1>2 DEF Parse
  <2>2. /\ lexed.undefined => lexed.tokens = <<>>
        /\ IsSeq(lexed.tokens)
        /\ lexed.tokens # <<>> => Ends(Last(lexed.tokens))
    BY <2>1, TextsAreSeqs DEF IInv, Graph
  <2>3. /\ tokens' = lexed.tokens /\ currIndex' = 1
        /\ outcome' = IF lexed.undefined THEN "undefined"
                      ELSE IF lexed.tokens = <<>> THEN "thrown" ELSE "parsing"
    BY <2>1 DEF parse
  <2>4. lexed.tokens # <<>> => Len(lexed.tokens) \in Nat \ {0}
    BY <2>2, SeqFacts, EmptySeq DEF IsSeq
  <2>5. TokensSuffice'
    BY <2>2, <2>3 DEF TokensSuffice
  <2>6. ASSUME outcome' = "parsing"
        PROVE  /\ IsSeq(tokens') /\ tokens' # <<>>
               /\ Ends(Last(tokens'))
               /\ currIndex' \in 1 .. Len(tokens') + 1
               /\ currIndex' # Len(tokens') + 1
    BY <2>2, <2>3, <2>4, <2>6
  <2> QED
    BY <2>5, <2>6 DEF Read, Ends, keyOf, Token
<1>3. CASE shift
  <2>1. /\ outcome = "parsing" /\ currIndex <= Len(tokens)
        /\ tokens' = tokens /\ outcome' = outcome /\ currIndex' = currIndex + 1
    BY <1>3 DEF shift, Does, Reads
  <2>2. Len(tokens) \in Nat /\ currIndex \in 1 .. Len(tokens) + 1
    BY <2>1, SeqFacts DEF Read
  <2>3. currIndex' \in 1 .. Len(tokens) + 1
    BY <2>1, <2>2
  <2>4. ASSUME currIndex' = Len(tokens) + 1 PROVE keyOf(Last(tokens)) # END
    <3>1. currIndex = Len(tokens)
      BY <2>1, <2>2, <2>4
    <3>2. token = keyOf(Last(tokens))
      BY <3>1 DEF token, Last
    <3> QED
      BY <1>3, <3>2, ShiftsTerminal
  <2> QED
    BY <2>1, <2>3, <2>4 DEF Read, TokensSuffice, Ends, keyOf, Token
<1>4. CASE reduce
  BY <1>4 DEF reduce, Does, Reads, Read, TokensSuffice, Ends, keyOf, Token
<1>5. CASE accept \/ throw
  BY <1>5 DEF accept, throw, Read, TokensSuffice
<1>6. CASE ReadPastEnd
  BY <1>6 DEF ReadPastEnd, Read, TokensSuffice, Ends
<1>7. CASE ClientStep
  BY <1>7 DEF ClientStep, Read, TokensSuffice
<1> QED
  BY <1>1, <1>2, <1>3, <1>4, <1>5, <1>6, <1>7 DEF ParserStep

\* For every grammar and every text: tokenize has a token to append to, and
\* parse one to read, unless the text begins with a character of no kind or
\* its last token only looks like the end marker.
THEOREM TokensAlwaysSuffice == ParserSpec => []TokensSuffice
<1> DEFINE Next == Build \/ Parse \/ ParserStep \/ ClientStep
           vars == <<phase, grammarVars, kernelVars, parserVars>>
<1>1. GrammarInit /\ KernelInit /\ ParserInit => IInv /\ Read
  BY InitRight DEF ParserInit, Read, TokensSuffice
<1>2. IInv /\ Read /\ [Next]_vars => IInv' /\ Read'
  <2>1. ASSUME IInv, Read, Next PROVE IInv' /\ Read'
    BY <2>1, StepKeeps, ReadKept
  <2>2. ASSUME IInv, Read, UNCHANGED vars PROVE IInv' /\ Read'
    <3>1. Read'
      BY <2>2 DEF Read, TokensSuffice, Ends, keyOf, Token, vars, parserVars
    <3> QED
      BY <2>2, <3>1, StutterKeeps
  <2> QED
    BY <2>1, <2>2, Zenon
<1>3. Read => TokensSuffice
  BY DEF Read
<1> QED
  BY <1>1, <1>2, <1>3, PTL DEF ParserSpec
-----------------------------------------------------------------------------
\* The fields of a lexer, and two of them changed.
LexerIs(lexer, keywords, given, q, word, u) ==
    /\ lexer.keywords = keywords /\ lexer.tokens = given
    /\ lexer.openString = q /\ lexer.inWord = word /\ lexer.undefined = u
    /\ \A x, y : [lexer EXCEPT !.tokens = x, !.inWord = y]
                   = Lexer(keywords, x, q, y, u)

LEMMA LexerFields ==
    ASSUME NEW keywords, NEW given, NEW q, NEW word, NEW u
    PROVE  LexerIs(Lexer(keywords, given, q, word, u), keywords, given, q, word, u)
<1> SUFFICES ASSUME NEW lexer, lexer = Lexer(keywords, given, q, word, u)
             PROVE  LexerIs(lexer, keywords, given, q, word, u)
  OBVIOUS
<1>1. \A x : [lexer EXCEPT !.tokens = x] = Lexer(keywords, x, q, word, u)
  BY DEF Lexer
<1>2. ASSUME NEW x, NEW y, NEW l, l = Lexer(keywords, x, q, word, u)
      PROVE  [l EXCEPT !.inWord = y] = Lexer(keywords, x, q, y, u)
  BY <1>2 DEF Lexer
<1>3. ASSUME NEW x, NEW y
      PROVE  [lexer EXCEPT !.tokens = x, !.inWord = y]
               = Lexer(keywords, x, q, y, u)
  <2>1. PICK l : l = [lexer EXCEPT !.tokens = x]
    OBVIOUS
  <2>2. [l EXCEPT !.inWord = y] = Lexer(keywords, x, q, y, u)
    BY <1>1, <1>2, <2>1, Zenon
  <2> QED
    BY <2>1, <2>2
<1>4. /\ lexer.keywords = keywords /\ lexer.tokens = given
      /\ lexer.openString = q /\ lexer.inWord = word /\ lexer.undefined = u
  BY DEF Lexer
<1> QED
  BY <1>3, <1>4, Zenon DEF LexerIs

\* A word or a symbol before a space is one token.
LEMMA WordLexed ==
    ASSUME NEW keywords, NEW given, NEW w \in Letter \cup TOKENSYMBOL
    PROVE  LET t == IF w \in Letter THEN Word(keywords, <<w>>)
                    ELSE Token("SYMBOL", <<w>>)
           IN Lex(Lex(Lexer(keywords, given, <<>>, FALSE, FALSE), w), space)
                = Lexer(keywords, Append(given, t), <<>>, FALSE, FALSE)
<1> DEFINE t == IF w \in Letter THEN Word(keywords, <<w>>)
                ELSE Token("SYMBOL", <<w>>)
           more == Append(given, t)
<1>1. space \in Space
  BY TextsAssumption DEF space
<1>2. /\ space \notin Letter \cup {UNDERSCORE}
      /\ w \notin Space /\ w \notin STRING_SYMBOL
      /\ w \notin Letter => w \in TOKENSYMBOL
      /\ \A c : <<c>> # <<>>
  BY <1>1, CharactersAssumption
<1>3. PICK lexer : lexer = Lexer(keywords, given, <<>>, FALSE, FALSE)
  OBVIOUS
<1>4. /\ lexer.keywords = keywords /\ lexer.tokens = given
      /\ lexer.openString = <<>> /\ lexer.inWord = FALSE
      /\ lexer.undefined = FALSE
      /\ \A x, y : [lexer EXCEPT !.tokens = x, !.inWord = y]
                     = Lexer(keywords, x, <<>>, y, FALSE)
  <2>1. LexerIs(Lexer(keywords, given, <<>>, FALSE, FALSE),
                keywords, given, <<>>, FALSE, FALSE)
    BY LexerFields, Zenon
  <2> QED
    BY <1>3, <2>1, Zenon DEF LexerIs
<1>5. \E word : Lex(lexer, w) = Lexer(keywords, more, <<>>, word, FALSE)
  <2> DEFINE lexed == Lex(lexer, w)
  <2>1. CASE w \in Letter
    <3>1. more = Append(given, Word(keywords, <<w>>))
      BY <2>1, Zenon
    <3>2. lexed = [lexer EXCEPT !.tokens = Append(given, Word(keywords, <<w>>)),
                                !.inWord = TRUE]
      BY <1>2, <1>4, <2>1, Zenon DEF Lex
    <3> HIDE DEF lexed, more
    <3>3. lexed = Lexer(keywords, more, <<>>, TRUE, FALSE)
      BY <1>4, <3>1, <3>2, Zenon
    <3> QED
      BY <3>3, Zenon DEF lexed
  <2>2. CASE w \notin Letter
    <3>1. more = Append(given, Token("SYMBOL", <<w>>))
      BY <2>2, Zenon
    <3>2. lexed = [lexer EXCEPT !.tokens = Append(given, Token("SYMBOL", <<w>>)),
                                !.inWord = FALSE]
      BY <1>2, <1>4, <2>2, Zenon DEF Lex
    <3> HIDE DEF lexed, more
    <3>3. lexed = Lexer(keywords, more, <<>>, FALSE, FALSE)
      BY <1>4, <3>1, <3>2, Zenon
    <3> QED
      BY <3>3, Zenon DEF lexed
  <2> QED
    BY <2>1, <2>2, Zenon
<1> HIDE DEF t, more
<1>6. PICK word : Lex(lexer, w) = Lexer(keywords, more, <<>>, word, FALSE)
  BY <1>5
<1>7. PICK later : later = Lexer(keywords, more, <<>>, word, FALSE)
  OBVIOUS
<1>8. /\ later.tokens = more /\ later.openString = <<>>
      /\ later.undefined = FALSE
      /\ \A x, y : [later EXCEPT !.tokens = x, !.inWord = y]
                     = Lexer(keywords, x, <<>>, y, FALSE)
  <2>1. LexerIs(Lexer(keywords, more, <<>>, word, FALSE),
                keywords, more, <<>>, word, FALSE)
    BY LexerFields, Zenon
  <2> QED
    BY <1>7, <2>1, Zenon DEF LexerIs
<1>9. Lex(later, space) = [later EXCEPT !.tokens = more, !.inWord = FALSE]
  BY <1>1, <1>2, <1>8, Zenon DEF Lex
<1>10. Lex(later, space) = Lexer(keywords, more, <<>>, FALSE, FALSE)
  BY <1>8, <1>9, Zenon
<1> QED
  BY <1>3, <1>6, <1>7, <1>10, Zenon DEF t, more

\* What is left of a list that is read to its entry m.
LEMMA ListLexed ==
    ASSUME NEW keywords, NEW list, NAME \notin keywords,
           list \in Seq({ID} \cup (keywords \cap (Letter \cup TOKENSYMBOL))),
           NEW m \in 0 .. Len(list)
    PROVE  \E given :
             /\ lexing(keywords, Spaced(list))[2 * m]
                  = Lexer(keywords, given, <<>>, FALSE, FALSE)
             /\ AreTokens(given) /\ Len(given) = m
             /\ \A k \in 1 .. m : /\ keyOf(given[k]) = list[k]
                                  /\ \/ given[k].value = <<NAME>>
                                     \/ given[k].value = <<list[k]>>
                                        /\ list[k] \in keywords
<1> DEFINE N == Len(list)
           text == Spaced(list)
           L == lexing(keywords, text)
           IsRead(n, given) ==
             /\ L[2 * n] = Lexer(keywords, given, <<>>, FALSE, FALSE)
             /\ AreTokens(given) /\ Len(given) = n
             /\ \A k \in 1 .. n : /\ keyOf(given[k]) = list[k]
                                  /\ \/ given[k].value = <<NAME>>
                                     \/ given[k].value = <<list[k]>>
                                        /\ list[k] \in keywords
           bad == {n \in 0 .. N : ~ \E given : IsRead(n, given)}
           word(k) == IF list[k] = ID THEN NAME ELSE list[k]
<1>1. IsSeq(list) /\ N \in Nat
      /\ \A k \in 1 .. N : list[k] \in {ID} \cup (keywords \cap (Letter \cup TOKENSYMBOL))
  BY SeqOfAny, LenProperties, ElementOfSeq
<1>2. /\ L[0] = Lexer(keywords, <<>>, <<>>, FALSE, FALSE)
      /\ \A n \in 1 .. 2 * N : L[n] = Lex(L[n - 1], text[n])
  <2>1. IsSeq(text) /\ Len(text) = 2 * N
    BY <1>1, SpacedIsSeq, Zenon
  <2>2. L = [n \in 0 .. 2 * N |->
          IF n = 0
            THEN [keywords |-> keywords, tokens |-> <<>>, openString |-> <<>>,
                  inWord |-> FALSE, undefined |-> FALSE]
            ELSE Lex(L[n - 1], text[n])]
    <3>1. Len(text) \in Nat
      BY <1>1, <2>1
    <3> HIDE DEF text, N
    <3> QED
      BY <2>1, <3>1, LexingRecursion
  <2> HIDE DEF L
  <2>3. 0 \in 0 .. 2 * N /\ \A n \in 1 .. 2 * N : n \in 0 .. 2 * N /\ n # 0
    BY <1>1
  <2> QED
    BY <2>2, <2>3, Zenon DEF Lexer
<1>3. \A n \in 1 .. N : text[2 * n - 1] = word(n) /\ text[2 * n] = space
  <2> SUFFICES ASSUME NEW n \in 1 .. N
               PROVE  text[2 * n - 1] = word(n) /\ text[2 * n] = space
    OBVIOUS
  <2>1. /\ 2 * n - 1 \in 1 .. 2 * N /\ 2 * n \in 1 .. 2 * N
        /\ (2 * n - 1) % 2 # 0 /\ (2 * n) % 2 = 0
        /\ ((2 * n - 1) + 1) \div 2 = n
    BY <1>1
  <2> HIDE DEF N
  <2>2. \A k \in 1 .. 2 * N : text[k] =
          IF k % 2 = 0 THEN space
          ELSE IF list[(k + 1) \div 2] = ID THEN NAME ELSE list[(k + 1) \div 2]
    BY <1>1, SpacedIsSeq DEF N
  <2> HIDE DEF text
  <2> QED
    BY <2>1, <2>2, Zenon
<1> HIDE DEF L, text
<1>4. IsRead(0, <<>>)
  <2>1. 2 * 0 = 0 /\ 1 .. 0 = {}
    OBVIOUS
  <2>2. AreTokens(<<>>)
    BY EmptyIsSeq DEF AreTokens
  <2> QED
    BY <1>2, <2>1, <2>2, EmptyIsSeq
<1>5. ASSUME NEW n \in 1 .. N, NEW given, IsRead(n - 1, given)
      PROVE  \E more : IsRead(n, more)
  <2> DEFINE w == word(n)
             t == IF w \in Letter THEN Word(keywords, <<w>>)
                  ELSE Token("SYMBOL", <<w>>)
             more == Append(given, t)
  <2>1. w \in Letter \cup TOKENSYMBOL
    BY <1>1, TextsAssumption
  <2>2. /\ 2 * n - 1 \in 1 .. 2 * N /\ 2 * n \in 1 .. 2 * N
        /\ (2 * n - 1) - 1 = 2 * (n - 1) /\ n - 1 \in Nat /\ n - 1 + 1 = n
    BY <1>1
  <2>3. L[2 * n] = Lexer(keywords, more, <<>>, FALSE, FALSE)
    <3>1. L[2 * n - 1] = Lex(Lexer(keywords, given, <<>>, FALSE, FALSE), w)
      <4>1. L[2 * n - 1] = Lex(L[(2 * n - 1) - 1], text[2 * n - 1])
        BY <1>2, <2>2, Zenon
      <4>2. L[(2 * n - 1) - 1] = Lexer(keywords, given, <<>>, FALSE, FALSE)
        BY <1>5, <2>2
      <4> QED
        BY <1>3, <4>1, <4>2
    <3>2. L[2 * n] = Lex(L[2 * n - 1], space)
      BY <1>2, <1>3, <2>2
    <3> HIDE DEF w
    <3>3. Lex(Lex(Lexer(keywords, given, <<>>, FALSE, FALSE), w), space)
            = Lexer(keywords, more, <<>>, FALSE, FALSE)
      BY <2>1, WordLexed, Zenon
    <3> HIDE DEF t, more
    <3> QED
      BY <3>1, <3>2, <3>3, Zenon
  <2>4. t.value = <<w>> /\ \E type : t = Token(type, <<w>>)
    BY DEF Word, Token
  <2>5. keyOf(t) = list[n]
    <3>1. CASE list[n] = ID
      <4>1. w = NAME
        BY <3>1
      <4>2. ~ isTerminal(keywords, <<NAME>>)
        BY DEF isTerminal
      <4>3. t = Token("IDENTIFIER", <<NAME>>)
        BY <4>1, <4>2, TextsAssumption, Zenon DEF Word
      <4> QED
        BY <3>1, <4>3 DEF keyOf, Token
    <3>2. CASE list[n] # ID
      <4>1. w = list[n] /\ w \in keywords
        BY <1>1, <3>2
      <4> HIDE DEF w
      <4>2. isTerminal(keywords, <<w>>)
        BY <4>1 DEF isTerminal
      <4>3. t = Token("KEYWORD", <<w>>) \/ t = Token("SYMBOL", <<w>>)
        BY <4>2, Zenon DEF Word
      <4> HIDE DEF t
      <4>4. keyOf(t) = w
        BY <4>3 DEF keyOf, Token
      <4> QED
        BY <4>1, <4>4
    <3> QED
      BY <3>1, <3>2, Zenon
  <2>6. w = NAME \/ (w = list[n] /\ list[n] \in keywords)
    BY <1>1
  <2> HIDE DEF t, w
  <2>7. AreTokens(more)
    BY <1>5, <2>4, AppendedToken
  <2>8. /\ Len(more) = n
        /\ \A k \in 1 .. n - 1 : more[k] = given[k]
        /\ more[n] = t
    <3>1. IsSeq(given) /\ Len(given) = n - 1
      BY <1>5 DEF AreTokens
    <3>2. /\ Len(more) = Len(given) + 1
          /\ \A k \in 1 .. Len(given) : more[k] = given[k]
          /\ more[Len(given) + 1] = t
      BY <3>1, Appended
    <3> QED
      BY <2>2, <3>1, <3>2
  <2> HIDE DEF more
  <2>9. ASSUME NEW k \in 1 .. n
        PROVE  /\ keyOf(more[k]) = list[k]
               /\ \/ more[k].value = <<NAME>>
                  \/ more[k].value = <<list[k]>> /\ list[k] \in keywords
    <3>1. CASE k = n
      <4>1. more[k] = t
        BY <2>8, <3>1
      <4> QED
        BY <2>4, <2>5, <2>6, <3>1, <4>1
    <3>2. CASE k # n
      <4>1. k \in 1 .. n - 1
        BY <3>2
      <4> QED
        BY <1>5, <2>8, <4>1
    <3> QED
      BY <3>1, <3>2
  <2> QED
    BY <2>3, <2>7, <2>8, <2>9, Zenon
<1> HIDE DEF IsRead
<1>6. bad = {}
  <2> SUFFICES ASSUME bad # {} PROVE FALSE
    OBVIOUS
  <2>1. bad \subseteq Nat
    BY <1>1
  <2>2. PICK n \in bad : \A k \in bad : n <= k
    BY <2>1, LeastOfNats
  <2>3. n \in 1 .. N /\ n - 1 \in 0 .. N /\ ~ (n <= n - 1)
    BY <1>1, <1>4, <2>2
  <2>4. PICK given : IsRead(n - 1, given)
    BY <2>2, <2>3
  <2> QED
    BY <1>5, <2>2, <2>3, <2>4
<1>7. m \notin bad
  BY <1>6
<1>8. PICK given : IsRead(m, given)
  BY <1>7
<1> QED
  BY <1>8, Zenon DEF IsRead, L, text

LEMMA InvImpliesSpaced == IInv => SpacedListsExact
<1> SUFFICES ASSUME IInv, NEW list \in Lists(rules)
             PROVE  LET lexed == tokenize(terminals, Spaced(list))
                    IN /\ ~ lexed.undefined
                       /\ [k \in DOMAIN lexed.tokens |-> keyOf(lexed.tokens[k])]
                            = IF list = <<>> THEN <<>> ELSE Append(list, END)
  BY DEF SpacedListsExact
<1> DEFINE N == Len(list)
           lexer == lexing(terminals, Spaced(list))[Len(Spaced(list))]
           lexed == tokenize(terminals, Spaced(list))
           keysRead == [k \in DOMAIN lexed.tokens |-> keyOf(lexed.tokens[k])]
<1>1. /\ rules \in Grammars
      /\ list \in Seq({ID} \cup (terminals \cap (Letter \cup TOKENSYMBOL)))
      /\ NAME \notin terminals /\ END \notin terminals
  <2>1. rules \in Grammars
    BY DEF IInv, Graph
  <2> QED
    BY <2>1, TextsAssumption, EndIsNoTerminal DEF terminals
<1>2. IsSeq(list) /\ N \in Nat /\ Len(Spaced(list)) = 2 * N /\ N \in 0 .. N
  <2>1. IsSeq(list)
    BY <1>1, SeqOfAny
  <2> QED
    BY <2>1, SeqFacts, SpacedIsSeq
<1>3. PICK given :
        /\ lexing(terminals, Spaced(list))[2 * N]
             = Lexer(terminals, given, <<>>, FALSE, FALSE)
        /\ AreTokens(given) /\ Len(given) = N
        /\ \A k \in 1 .. N : /\ keyOf(given[k]) = list[k]
                             /\ \/ given[k].value = <<NAME>>
                                \/ given[k].value = <<list[k]>>
                                   /\ list[k] \in terminals
  BY <1>1, <1>2, ListLexed
<1>4. lexed = [tokens |-> Ended(given), undefined |-> FALSE]
  <2>1. lexer = Lexer(terminals, given, <<>>, FALSE, FALSE)
    BY <1>2, <1>3
  <2>2. lexed = [tokens |-> Ended(lexer.tokens), undefined |-> lexer.undefined]
    BY DEF tokenize
  <2> HIDE DEF lexer, lexed
  <2>3. lexer.tokens = given /\ lexer.undefined = FALSE
    BY <2>1 DEF Lexer
  <2> QED
    BY <2>2, <2>3
<1> HIDE DEF lexer, lexed
<1>5. ~ lexed.undefined /\ lexed.tokens = Ended(given)
  BY <1>4
<1>6. IsSeq(given) /\ DOMAIN given = 1 .. N
  <2>1. IsSeq(given) /\ Len(given) = N
    BY <1>3 DEF AreTokens
  <2> QED
    BY <2>1, SeqFacts
<1>7. CASE list = <<>>
  <2>1. N = 0
    BY <1>7, EmptyIsSeq
  <2>2. given = <<>>
    BY <1>3, <1>6, <2>1, EmptySeq DEF IsSeq
  <2>3. lexed.tokens = <<>>
    BY <1>5, <2>2, Zenon DEF Ended
  <2>4. keysRead = <<>>
    BY <2>3
  <2> QED
    BY <1>5, <1>7, <2>4 DEF lexed
<1>8. CASE list # <<>>
  <2> DEFINE t == Token("SYMBOL", <<END>>)
  <2>1. N # 0 /\ N \in 1 .. N
    BY <1>2, <1>8, EmptySeq DEF IsSeq
  <2>2. given # <<>>
    BY <1>3, <2>1, EmptyIsSeq
  <2>3. Last(given).value # <<END>>
    <3>1. NAME # END
      BY CharactersAssumption, TextsAssumption
    <3>2. PICK v : given[N].value = <<v>> /\ v # END
      BY <1>1, <1>3, <2>1, <3>1
    <3>3. Last(given) = given[N]
      BY <1>3 DEF Last
    <3> QED
      BY <3>2, <3>3
  <2>4. lexed.tokens = Append(given, t)
    BY <1>5, <2>2, <2>3, Zenon DEF Ended
  <2>5. keyOf(t) = END
    BY DEF keyOf, Token
  <2> HIDE DEF t
  <2>6. /\ IsSeq(Append(given, t)) /\ Len(Append(given, t)) = N + 1
        /\ \A k \in 1 .. N : Append(given, t)[k] = given[k]
        /\ Append(given, t)[N + 1] = t
    <3>1. Len(given) = N
      BY <1>3
    <3> QED
      BY <1>6, <3>1, Appended
  <2>7. /\ IsSeq(Append(list, END)) /\ Len(Append(list, END)) = N + 1
        /\ \A k \in 1 .. N : Append(list, END)[k] = list[k]
        /\ Append(list, END)[N + 1] = END
    BY <1>2, Appended
  <2>8. /\ DOMAIN Append(given, t) = 1 .. N + 1
        /\ Append(list, END) = [k \in 1 .. N + 1 |-> Append(list, END)[k]]
    <3>1. /\ Append(list, END) \in [1 .. Len(Append(list, END)) -> ToSet(Append(list, END))]
          /\ DOMAIN Append(given, t) = 1 .. Len(Append(given, t))
      BY <2>6, <2>7, SeqFacts
    <3> QED
      BY <2>6, <2>7, <3>1
  <2>9. \A k \in 1 .. N + 1 : k \in 1 .. N \/ k = N + 1
    BY <1>2
  <2>10. ASSUME NEW k \in 1 .. N + 1
         PROVE  keyOf(Append(given, t)[k]) = Append(list, END)[k]
    BY <1>3, <2>5, <2>6, <2>7, <2>9
  <2>11. keysRead = [k \in 1 .. N + 1 |-> keyOf(Append(given, t)[k])]
    BY <2>4, <2>8
  <2>12. keysRead = Append(list, END)
    BY <2>8, <2>10, <2>11
  <2> QED
    BY <1>5, <1>8, <2>12 DEF lexed
<1> QED
  BY <1>7, <1>8, Zenon

\* For every grammar and every list of its terminals: the lexer makes that list
\* of the words and symbols with spaces between them, and ends it.
THEOREM SpacedListsAlwaysExact == ParserSpec => []SpacedListsExact
<1> DEFINE Next == Build \/ Parse \/ ParserStep \/ ClientStep
           vars == <<phase, grammarVars, kernelVars, parserVars>>
<1>1. GrammarInit /\ KernelInit /\ ParserInit => IInv
  BY InitRight
<1>2. IInv /\ [Next]_vars => IInv'
  BY StepKeeps, StutterKeeps, Zenon
<1>3. IInv => SpacedListsExact
  BY InvImpliesSpaced
<1> QED
  BY <1>1, <1>2, <1>3, PTL DEF ParserSpec
-----------------------------------------------------------------------------
\* FIRST and FOLLOW.  What is inferred is defined by recursion, as found is.
Concluded(inferences, facts) ==
    {i[1] : i \in {i \in inferences : i[2] \subseteq facts}}

IsKnown(known, inferences, n) ==
    known = [m \in 0 .. n |->
               IF m = 0 THEN {} ELSE Concluded(inferences, known[m - 1])]

LEMMA InferredRecursion ==
    ASSUME NEW inferences, Cardinality({i[1] : i \in inferences}) \in Nat
    PROVE  \E known :
             /\ IsKnown(known, inferences, Cardinality({i[1] : i \in inferences}))
             /\ Inferred(inferences) = known[Cardinality({i[1] : i \in inferences})]
<1> DEFINE N == Cardinality({i[1] : i \in inferences})
           next(l) == Concluded(inferences, l)
           Is(f, l) == f = [n \in 0 .. l |-> IF n = 0 THEN {} ELSE next(f[n - 1])]
           bad == {l \in Nat : ~ \E f : Is(f, l)}
           K == CHOOSE f : Is(f, N)
<1>0. Inferred(inferences) = K[N]
  BY DEF Inferred, Concluded
<1> HIDE DEF next
<1>1. \E f : Is(f, 0)
  <2> DEFINE g == [n \in 0 .. 0 |-> {}]
  <2>1. \A n \in 0 .. 0 : n = 0
    OBVIOUS
  <2>2. g = [n \in 0 .. 0 |-> IF n = 0 THEN {} ELSE next(g[n - 1])]
    BY <2>1, Zenon
  <2> QED
    BY <2>2
<1>2. ASSUME NEW l \in Nat \ {0}, NEW f, Is(f, l - 1)
      PROVE  \E g : Is(g, l)
  <2> DEFINE g == [n \in 0 .. l |-> IF n = l THEN next(f[l - 1]) ELSE f[n]]
             h == [n \in 0 .. l |-> IF n = 0 THEN {} ELSE next(g[n - 1])]
  <2>1. ASSUME NEW n \in 0 .. l PROVE g[n] = h[n]
    <3>1. h[n] = IF n = 0 THEN {} ELSE next(g[n - 1])
      BY Zenon
    <3>2. CASE n = 0
      <4>1. 0 \in 0 .. l - 1 /\ n # l
        BY <3>2
      <4>2. g[n] = f[0]
        BY <3>2, <4>1
      <4>3. f[0] = {}
        BY <1>2, <4>1, Zenon
      <4> QED
        BY <3>1, <3>2, <4>2, <4>3
    <3>3. CASE n # 0 /\ n = l
      <4>1. l - 1 \in 0 .. l /\ l - 1 # l
        OBVIOUS
      <4>2. g[l - 1] = f[l - 1]
        BY <4>1, Zenon
      <4>3. g[n] = next(f[l - 1])
        BY <3>3, Zenon
      <4> QED
        BY <3>1, <3>3, <4>2, <4>3
    <3>4. CASE n # 0 /\ n # l
      <4>1. /\ n \in 0 .. l - 1
            /\ n - 1 \in 0 .. l /\ n - 1 # l
        BY <3>4
      <4>2. g[n] = f[n] /\ g[n - 1] = f[n - 1]
        BY <3>4, <4>1, Zenon
      <4>3. f[n] = next(f[n - 1])
        BY <1>2, <3>4, <4>1, Zenon
      <4> QED
        BY <3>1, <3>4, <4>2, <4>3
    <3> QED
      BY <3>2, <3>3, <3>4, Zenon
  <2>2. g = h
    BY <2>1, Zenon
  <2>3. Is(g, l)
    BY <2>2, Zenon
  <2> HIDE DEF Is
  <2> QED
    BY <2>3, Zenon
<1>3. bad = {}
  <2> HIDE DEF Is
  <2> SUFFICES ASSUME bad # {} PROVE FALSE
    OBVIOUS
  <2>1. Min(bad) \in bad /\ \A l \in bad : Min(bad) <= l
    BY LeastOfNats
  <2>2. PICK l : l = Min(bad)
    OBVIOUS
  <2>3. l \in Nat /\ l # 0 /\ ~ \E g : Is(g, l)
    BY <1>1, <2>1, <2>2
  <2>4. l - 1 \in Nat /\ ~ (l <= l - 1)
    BY <2>3
  <2>5. l - 1 \notin bad
    BY <2>1, <2>2, <2>4
  <2>6. PICK f : Is(f, l - 1)
    BY <2>4, <2>5
  <2> QED
    BY <1>2, <2>3, <2>6
<1>4. Is(K, N)
  <2> HIDE DEF Is, N
  <2>1. \E f : Is(f, N)
    BY <1>3 DEF N
  <2> QED
    BY <2>1, Zenon
<1>5. IsKnown(K, inferences, N)
  BY <1>4, Zenon DEF IsKnown, next
<1> HIDE DEF K
<1> QED
  BY <1>0, <1>5, Zenon

\* The image of a finite set under a function.
LEMMA ImageFinite ==
    ASSUME NEW S, IsFiniteSet(S), NEW f, DOMAIN f = S
    PROVE  IsFiniteSet({f[x] : x \in S})
<1>1. [x \in S |-> f[x]] \in Surjection(S, {f[x] : x \in S})
  BY DEF Surjection
<1> QED
  BY <1>1, FS_Surjection

LEMMA ConclusionsFinite ==
    ASSUME NEW inferences, IsFiniteSet(inferences)
    PROVE  IsFiniteSet({i[1] : i \in inferences})
<1> DEFINE f == [i \in inferences |-> i[1]]
<1>1. {f[i] : i \in inferences} = {i[1] : i \in inferences}
  BY Zenon
<1>2. DOMAIN f = inferences
  OBVIOUS
<1> HIDE DEF f
<1> QED
  BY <1>1, <1>2, ImageFinite

\* Induction up to N: what fails somewhere, but not for 0, fails first after an l.
LEMMA FailsFirst ==
    ASSUME NEW N \in Nat, NEW S, S \subseteq 0 .. N, S # {}, 0 \notin S
    PROVE  \E l \in S : l # 0 /\ l - 1 \in 0 .. N /\ l - 1 \notin S
<1>1. S \subseteq Nat
  OBVIOUS
<1>2. Min(S) \in S /\ \A n \in S : Min(S) <= n
  BY <1>1, LeastOfNats
<1>3. \A l \in 0 .. N : l # 0 => l - 1 \in 0 .. N /\ ~ (l <= l - 1)
  OBVIOUS
<1> QED
  BY <1>2, <1>3

\* The least set that the inferences lead to.
LEMMA InferredWithin ==
    ASSUME NEW inferences, IsFiniteSet(inferences),
           NEW S, \A i \in inferences : i[2] \subseteq S => i[1] \in S
    PROVE  Inferred(inferences) \subseteq S
<1> DEFINE N == Cardinality({i[1] : i \in inferences})
<1>1. N \in Nat
  BY ConclusionsFinite, FS_CardinalityType
<1>2. PICK known : IsKnown(known, inferences, N) /\ Inferred(inferences) = known[N]
  BY <1>1, InferredRecursion
<1> HIDE DEF N
<1> DEFINE bad == {n \in 0 .. N : ~ (known[n] \subseteq S)}
<1>0. \A n \in 0 .. N :
        known[n] = IF n = 0 THEN {} ELSE Concluded(inferences, known[n - 1])
  BY <1>2, Zenon DEF IsKnown
<1>3. bad = {}
  <2> SUFFICES ASSUME bad # {} PROVE FALSE
    OBVIOUS
  <2>1. bad \subseteq 0 .. N /\ 0 \notin bad
    BY <1>0, <1>1
  <2> HIDE DEF bad
  <2>2. PICK l \in bad : l # 0 /\ l - 1 \in 0 .. N /\ l - 1 \notin bad
    BY <1>1, <2>1, FailsFirst
  <2>3. /\ l \in 0 .. N /\ ~ (known[l] \subseteq S)
        /\ known[l - 1] \subseteq S
    BY <2>2 DEF bad
  <2>4. Concluded(inferences, known[l - 1]) \subseteq S
    BY <2>3 DEF Concluded
  <2> QED
    BY <1>0, <2>2, <2>3, <2>4
<1>4. N \in 0 .. N
  BY <1>1
<1> QED
  BY <1>2, <1>3, <1>4

\* It is closed: every round before that concludes something new.
LEMMA InferredClosed ==
    ASSUME NEW inferences, IsFiniteSet(inferences),
           NEW i \in inferences, i[2] \subseteq Inferred(inferences)
    PROVE  i[1] \in Inferred(inferences)
<1> DEFINE conclusions == {j[1] : j \in inferences}
           N == Cardinality(conclusions)
<1>0. IsFiniteSet(conclusions)
  BY ConclusionsFinite
<1>1. N \in Nat
  BY <1>0, FS_CardinalityType
<1>2. PICK known : IsKnown(known, inferences, N) /\ Inferred(inferences) = known[N]
  BY <1>1, InferredRecursion
<1> HIDE DEF N
<1>3. \A n \in 0 .. N :
        known[n] = IF n = 0 THEN {} ELSE Concluded(inferences, known[n - 1])
  BY <1>2, Zenon DEF IsKnown
<1>4. \A n \in 0 .. N : known[n] \subseteq conclusions
  <2>1. \A facts : Concluded(inferences, facts) \subseteq conclusions
    BY DEF Concluded
  <2> HIDE DEF conclusions
  <2> QED
    BY <1>3, <2>1
<1> HIDE DEF conclusions
\* Every round keeps what the one before it concluded.
<1> DEFINE Kept(n) == known[n] \subseteq Concluded(inferences, known[n])
<1>5. \A n \in 0 .. N : Kept(n)
  <2> DEFINE bad == {n \in 0 .. N : ~ Kept(n)}
  <2> SUFFICES ASSUME bad # {} PROVE FALSE
    OBVIOUS
  <2>1. bad \subseteq 0 .. N /\ 0 \notin bad
    BY <1>1, <1>3
  <2> HIDE DEF bad
  <2>2. PICK l \in bad : l # 0 /\ l - 1 \in 0 .. N /\ l - 1 \notin bad
    BY <1>1, <2>1, FailsFirst
  <2>3. l \in 0 .. N /\ ~ Kept(l) /\ Kept(l - 1)
    BY <2>2 DEF bad
  <2>4. known[l] = Concluded(inferences, known[l - 1])
    BY <1>3, <2>2, <2>3
  <2>5. Concluded(inferences, known[l - 1])
          \subseteq Concluded(inferences, Concluded(inferences, known[l - 1]))
    BY <2>3 DEF Concluded
  <2> QED
    BY <2>3, <2>4, <2>5
<1>6. \A n \in 0 .. N : IsFiniteSet(known[n]) /\ Cardinality(known[n]) \in 0 .. N
  <2> SUFFICES ASSUME NEW n \in 0 .. N
               PROVE  IsFiniteSet(known[n]) /\ Cardinality(known[n]) \in 0 .. N
    OBVIOUS
  <2>1. known[n] \in SUBSET conclusions
    BY <1>4
  <2>2. IsFiniteSet(known[n]) /\ Cardinality(known[n]) <= N
    BY <1>0, <2>1, FS_Subset, Zenon DEF N
  <2>3. Cardinality(known[n]) \in Nat
    BY <2>2, FS_CardinalityType
  <2> QED
    BY <1>1, <2>2, <2>3
\* A round that adds nothing is the last one.
<1> DEFINE LastRound(n) == Concluded(inferences, known[n]) = known[n]
           Enough(n) == LastRound(n) \/ Cardinality(known[n]) >= n
<1>7. \A n \in 0 .. N : Enough(n)
  <2> DEFINE bad == {n \in 0 .. N : ~ Enough(n)}
  <2> SUFFICES ASSUME bad # {} PROVE FALSE
    OBVIOUS
  <2>0. \A n \in 0 .. N : Cardinality(known[n]) >= 0
    BY <1>1, <1>6
  <2>1. bad \subseteq 0 .. N /\ 0 \notin bad
    BY <1>1, <2>0
  <2> HIDE DEF bad
  <2>2. PICK l \in bad : l # 0 /\ l - 1 \in 0 .. N /\ l - 1 \notin bad
    BY <1>1, <2>1, FailsFirst
  <2>3. l \in 0 .. N /\ ~ LastRound(l) /\ ~ (Cardinality(known[l]) >= l)
    BY <2>2 DEF bad
  <2>4. Enough(l - 1)
    BY <2>2 DEF bad
  <2>5. known[l] = Concluded(inferences, known[l - 1])
    BY <1>3, <2>2, <2>3
  <2>6. ~ LastRound(l - 1)
    BY <2>3, <2>5
  <2>7. known[l - 1] \in SUBSET known[l] /\ known[l - 1] # known[l]
    BY <1>5, <2>2, <2>5, <2>6
  <2>8. /\ Cardinality(known[l - 1]) <= Cardinality(known[l])
        /\ Cardinality(known[l - 1]) # Cardinality(known[l])
    BY <1>6, <2>3, <2>7, FS_Subset, Zenon
  <2> HIDE DEF LastRound
  <2>9. Cardinality(known[l - 1]) >= l - 1
    BY <2>4, <2>6
  <2>10. Cardinality(known[l - 1]) \in Int /\ Cardinality(known[l]) \in Int
    BY <1>1, <1>6, <2>2, <2>3
  <2> QED
    BY <1>1, <2>3, <2>8, <2>9, <2>10
<1>8. N \in 0 .. N
  BY <1>1
<1>9. LastRound(N)
  <2>1. CASE Cardinality(known[N]) >= N
    <3>1. known[N] \in SUBSET conclusions /\ Cardinality(known[N]) = N
      BY <1>1, <1>4, <1>6, <1>8, <2>1
    <3>2. known[N] = conclusions
      BY <1>0, <3>1, FS_Subset, Zenon DEF N
    <3>3. Concluded(inferences, known[N]) \subseteq conclusions
      BY DEF Concluded, conclusions
    <3> QED
      BY <1>5, <1>8, <3>2, <3>3
  <2> QED
    BY <1>7, <1>8, <2>1
<1>10. i[1] \in Concluded(inferences, known[N])
  BY <1>2 DEF Concluded
<1> QED
  BY <1>2, <1>9, <1>10
-----------------------------------------------------------------------------
\* What the assumptions say of any grammar.
LEMMA GrammarFacts ==
    ASSUME NEW R \in Grammars
    PROVE  /\ Len(R) \in Nat \ {0} /\ DOMAIN R = 1 .. Len(R)
           /\ \A r \in DOMAIN R :
                /\ R[r].nonTerminal # EPSILON
                /\ Len(R[r].development) \in Nat \ {0}
                /\ DOMAIN R[r].development = 1 .. Len(R[r].development)
                /\ \A k \in DOMAIN R[r].development :
                     /\ R[r].development[k] # END
                     /\ R[r].development[k] = EPSILON => IsEpsilonRule(R[r])
<1>1. \A s : IsSeq(s) /\ s # <<>> => Len(s) \in Nat \ {0} /\ DOMAIN s = 1 .. Len(s)
  <2> TAKE s
  <2> HAVE IsSeq(s) /\ s # <<>>
  <2>1. Len(s) \in Nat /\ DOMAIN s = 1 .. Len(s)
    BY SeqFacts
  <2>2. Len(s) # 0
    BY EmptySeq DEF IsSeq
  <2> QED
    BY <2>1, <2>2
<1>2. IsSeq(R) /\ R # <<>>
  BY GrammarsAssumption DEF IsSeq
<1>3. ASSUME NEW r \in DOMAIN R
      PROVE  /\ R[r].nonTerminal # EPSILON
             /\ IsSeq(R[r].development) /\ R[r].development # <<>>
             /\ END \notin ToSet(R[r].development)
             /\ EPSILON \in ToSet(R[r].development) => IsEpsilonRule(R[r])
  BY GrammarsAssumption, EpsilonAssumption, Zenon DEF IsSeq, IsEpsilonRule
<1>4. \A s : \A k \in DOMAIN s : s[k] \in ToSet(s)
  BY DEF ToSet
<1> QED
  BY <1>1, <1>2, <1>3, <1>4, Zenon

\* A place is a position in a rule that is no EPSILON rule.
LEMMA PlaceFacts ==
    ASSUME NEW R \in Grammars, NEW p \in Places(R)
    PROVE  /\ p[1] \in DOMAIN R /\ ~ IsEpsilonRule(R[p[1]])
           /\ Body(R[p[1]]) = R[p[1]].development
           /\ p[2] \in 1 .. Len(R[p[1]].development)
           /\ p = <<p[1], p[2]>>
           /\ LeftSide(R, p) = R[p[1]].nonTerminal
           /\ SymbolAt(R, p) = R[p[1]].development[p[2]]
<1>1. PICK r \in DOMAIN R : p \in {r} \X DOMAIN Body(R[r])
  BY DEF Places
<1>2. p[1] = r /\ p[2] \in DOMAIN Body(R[r]) /\ p = <<p[1], p[2]>>
  BY <1>1
<1>3. ~ IsEpsilonRule(R[r])
  BY <1>2, EmptyIsSeq DEF IsEpsilonRule, Body
<1>4. Body(R[r]) = R[r].development
  BY <1>3 DEF IsEpsilonRule, Body
<1> QED
  BY <1>1, <1>2, <1>3, <1>4, GrammarFacts DEF LeftSide, SymbolAt

LEMMA IsPlace ==
    ASSUME NEW R \in Grammars, NEW r \in DOMAIN R, ~ IsEpsilonRule(R[r]),
           NEW k \in 1 .. Len(R[r].development)
    PROVE  <<r, k>> \in Places(R)
<1>1. Body(R[r]) = R[r].development
  BY DEF IsEpsilonRule, Body
<1>2. k \in DOMAIN Body(R[r])
  BY <1>1, GrammarFacts
<1>3. <<r, k>> \in {r} \X DOMAIN Body(R[r])
  BY <1>2
<1> QED
  BY <1>3, Zenon DEF Places

\* The code's terminals are those of the grammar.
LEMMA SameTerminals ==
    ASSUME NEW R \in Grammars
    PROVE  TerminalsOf(R) = Terminals(R)
<1>1. TerminalsOf(R) \subseteq Terminals(R)
  <2> SUFFICES ASSUME NEW t \in TerminalsOf(R) PROVE t \in Terminals(R)
    OBVIOUS
  <2>1. /\ t \notin LeftSides(R) /\ t # EPSILON
        /\ \E r \in DOMAIN R : t \in ToSet(R[r].development)
    BY DEF TerminalsOf, LeftSides
  <2>2. PICK r \in DOMAIN R : t \in ToSet(R[r].development)
    BY <2>1
  <2>3. ~ IsEpsilonRule(R[r])
    <3> SUFFICES ASSUME IsEpsilonRule(R[r]) PROVE FALSE
      OBVIOUS
    <3>1. t \in ToSet(<<EPSILON>>)
      BY <2>2 DEF IsEpsilonRule
    <3>2. t = EPSILON
      BY <3>1 DEF ToSet
    <3> QED
      BY <2>1, <3>2
  <2>4. t \in ToSet(Body(R[r]))
    BY <2>2, <2>3 DEF Body, IsEpsilonRule
  <2> QED
    BY <2>1, <2>4 DEF Terminals
<1>2. Terminals(R) \subseteq TerminalsOf(R)
  <2> SUFFICES ASSUME NEW t \in Terminals(R) PROVE t \in TerminalsOf(R)
    OBVIOUS
  <2>1. PICK r \in DOMAIN R : t \in ToSet(Body(R[r]))
    BY DEF Terminals
  <2>2. t \notin LeftSides(R)
    BY DEF Terminals
  <2>3. ~ IsEpsilonRule(R[r])
    BY <2>1, EmptyIsSeq DEF IsEpsilonRule, Body, ToSet
  <2>4. t \in ToSet(R[r].development)
    BY <2>1, <2>3 DEF Body, IsEpsilonRule
  <2>5. t # EPSILON
    BY <2>3, <2>4, GrammarFacts DEF ToSet
  <2> QED
    BY <2>2, <2>4, <2>5 DEF TerminalsOf, LeftSides
<1> QED
  BY <1>1, <1>2

LEMMA SymbolAtIs ==
    ASSUME NEW R \in Grammars, NEW p \in Places(R)
    PROVE  /\ LeftSide(R, p) \in LeftSides(R)
           /\ SymbolAt(R, p) \in LeftSides(R) \cup Terminals(R)
           /\ SymbolAt(R, p) # EPSILON
<1>1. /\ p[1] \in DOMAIN R /\ ~ IsEpsilonRule(R[p[1]])
      /\ Body(R[p[1]]) = R[p[1]].development
      /\ p[2] \in DOMAIN R[p[1]].development
      /\ LeftSide(R, p) = R[p[1]].nonTerminal
      /\ SymbolAt(R, p) = R[p[1]].development[p[2]]
  BY PlaceFacts, GrammarFacts
<1>2. SymbolAt(R, p) \in ToSet(Body(R[p[1]]))
  BY <1>1 DEF ToSet
<1>3. SymbolAt(R, p) # EPSILON
  BY <1>1, GrammarFacts, Zenon
<1> QED
  BY <1>1, <1>2, <1>3, Zenon DEF LeftSides, Terminals
-----------------------------------------------------------------------------
\* Grammars are finite, and so are the inferences about them.
LEMMA PlacesFinite ==
    ASSUME NEW R \in Grammars
    PROVE  /\ IsFiniteSet(DOMAIN R) /\ IsFiniteSet(Places(R))
           /\ IsFiniteSet(Terminals(R))
<1>1. IsFiniteSet(DOMAIN R)
  <2>1. DOMAIN R = 1 .. Len(R) /\ Len(R) \in Nat
    BY GrammarFacts
  <2> QED
    BY <2>1, FS_Interval
<1> DEFINE row == [r \in DOMAIN R |-> {r} \X DOMAIN Body(R[r])]
           word == [r \in DOMAIN R |-> ToSet(Body(R[r]))]
<1>2. ASSUME NEW r \in DOMAIN R
      PROVE  IsFiniteSet(DOMAIN Body(R[r])) /\ IsFiniteSet(ToSet(Body(R[r])))
  <2>1. IsFiniteSet(DOMAIN Body(R[r]))
    <3>1. CASE IsEpsilonRule(R[r])
      BY <3>1, EmptyIsSeq, FS_EmptySet DEF Body, IsEpsilonRule
    <3>2. CASE ~ IsEpsilonRule(R[r])
      <4>1. Body(R[r]) = R[r].development
        BY <3>2 DEF Body, IsEpsilonRule
      <4>2. \A n \in Nat : IsFiniteSet(1 .. n)
        BY FS_Interval
      <4>3. DOMAIN R[r].development = 1 .. Len(R[r].development)
            /\ Len(R[r].development) \in Nat
        BY GrammarFacts
      <4> QED
        BY <4>1, <4>2, <4>3, Zenon
    <3> QED
      BY <3>1, <3>2
  <2>2. ToSet(Body(R[r])) = {Body(R[r])[k] : k \in DOMAIN Body(R[r])}
    BY Zenon DEF ToSet
  <2> QED
    BY <2>1, <2>2, ImageFinite
<1>3. IsFiniteSet(Places(R))
  <2>1. \A r \in DOMAIN R : IsFiniteSet(row[r])
    BY <1>2, FS_Singleton, FS_Product
  <2>2. Places(R) = UNION {row[r] : r \in DOMAIN R}
    BY Zenon DEF Places
  <2>3. DOMAIN row = DOMAIN R
    OBVIOUS
  <2> HIDE DEF row
  <2>4. IsFiniteSet({row[r] : r \in DOMAIN R})
    BY <1>1, <2>3, ImageFinite
  <2> QED
    BY <2>1, <2>2, <2>4, FS_UNION
<1>4. IsFiniteSet(Terminals(R))
  <2>1. \A r \in DOMAIN R : IsFiniteSet(word[r])
    BY <1>2
  <2>2. Terminals(R) \subseteq UNION {word[r] : r \in DOMAIN R}
    BY Zenon DEF Terminals
  <2>3. DOMAIN word = DOMAIN R
    OBVIOUS
  <2> HIDE DEF word
  <2>4. IsFiniteSet({word[r] : r \in DOMAIN R})
    BY <1>1, <2>3, ImageFinite
  <2> QED
    <3>1. IsFiniteSet(UNION {word[r] : r \in DOMAIN R})
      BY <2>1, <2>4, FS_UNION
    <3>2. Terminals(R) \in SUBSET UNION {word[r] : r \in DOMAIN R}
      BY <2>2
    <3> QED
      BY <3>1, <3>2, FS_Subset, Zenon
<1> QED
  BY <1>1, <1>3, <1>4

\* Only nonterminals can be empty, and none is without an empty rule.
LEMMA NullableLeft ==
    ASSUME NEW R \in Grammars
    PROVE  /\ Nullable(R) \subseteq LeftSides(R)
           /\ (\A r \in DOMAIN R : ~ IsEpsilonRule(R[r])) => Nullable(R) = {}
<1> DEFINE f == [r \in DOMAIN R |-> <<R[r].nonTerminal, ToSet(Body(R[r]))>>]
           inferences == {<<R[r].nonTerminal, ToSet(Body(R[r]))>> : r \in DOMAIN R}
<1>1. IsFiniteSet(inferences)
  <2>1. inferences = {f[r] : r \in DOMAIN R}
    BY Zenon
  <2>2. DOMAIN f = DOMAIN R
    OBVIOUS
  <2> HIDE DEF f
  <2> QED
    BY <2>1, <2>2, PlacesFinite, ImageFinite
<1>2. Nullable(R) \subseteq LeftSides(R)
  <2>1. \A i \in inferences : i[2] \subseteq LeftSides(R) => i[1] \in LeftSides(R)
    BY DEF LeftSides
  <2> HIDE DEF inferences
  <2> QED
    BY <1>1, <2>1, InferredWithin DEF Nullable, inferences
<1>3. ASSUME \A r \in DOMAIN R : ~ IsEpsilonRule(R[r])
      PROVE  Nullable(R) = {}
  <2>1. ASSUME NEW r \in DOMAIN R PROVE ToSet(Body(R[r])) # {}
    <3>1. Body(R[r]) = R[r].development
      BY <1>3 DEF Body, IsEpsilonRule
    <3>2. 1 \in DOMAIN R[r].development
      BY GrammarFacts
    <3> QED
      BY <3>1, <3>2 DEF ToSet
  <2>2. \A i \in inferences : i[2] \subseteq {} => i[1] \in {}
    BY <2>1
  <2> HIDE DEF inferences
  <2> QED
    <3>0. PICK S : S = {}
      OBVIOUS
    <3>1. Inferred(inferences) \subseteq S
      BY <1>1, <2>2, <3>0, InferredWithin
    <3>2. Nullable(R) = Inferred(inferences)
      BY DEF Nullable, inferences
    <3> QED
      BY <3>0, <3>1, <3>2
<1> QED
  BY <1>2, <1>3

\* The inferences First is made of.
FirstFacts(R) ==
    {<<<<t, t>>, {}>> : t \in Terminals(R)} \cup
    {<<<<LeftSide(R, pt[1]), pt[2]>>, {<<SymbolAt(R, pt[1]), pt[2]>>}>> :
       pt \in FirstPlaces(R) \X Terminals(R)}

LEMMA FirstIs ==
    ASSUME NEW R \in Grammars
    PROVE  First(R) = Inferred(FirstFacts(R)) /\ IsFiniteSet(FirstFacts(R))
<1> DEFINE X == FirstPlaces(R) \X Terminals(R)
           f == [t \in Terminals(R) |-> <<<<t, t>>, {}>>]
           g == [pt \in X |-> <<<<LeftSide(R, pt[1]), pt[2]>>,
                                {<<SymbolAt(R, pt[1]), pt[2]>>}>>]
<1>1. First(R) = Inferred(FirstFacts(R))
  BY DEF First, FirstFacts
<1>2. IsFiniteSet({f[t] : t \in Terminals(R)})
  <2>1. DOMAIN f = Terminals(R)
    OBVIOUS
  <2> HIDE DEF f
  <2> QED
    BY <2>1, PlacesFinite, ImageFinite
<1>3. IsFiniteSet({g[pt] : pt \in X})
  <2>1. DOMAIN g = X
    OBVIOUS
  <2>2. FirstPlaces(R) \in SUBSET Places(R)
    BY DEF FirstPlaces
  <2>3. IsFiniteSet(FirstPlaces(R))
    BY <2>2, PlacesFinite, FS_Subset, Zenon
  <2>4. IsFiniteSet(X)
    BY <2>3, PlacesFinite, FS_Product
  <2> HIDE DEF g, X
  <2> QED
    BY <2>1, <2>4, ImageFinite
<1>4. FirstFacts(R) = {f[t] : t \in Terminals(R)} \cup {g[pt] : pt \in X}
  BY Zenon DEF FirstFacts
<1> HIDE DEF f, g, X
<1>5. IsFiniteSet(FirstFacts(R))
  BY <1>2, <1>3, <1>4, FS_Union
<1> QED
  BY <1>1, <1>5

\* First holds pairs of a symbol and a terminal, and of a terminal only itself.
FirstPairs(R) ==
    {f \in (LeftSides(R) \cup Terminals(R)) \X Terminals(R) :
       f[1] \in Terminals(R) => f[1] = f[2]}

LEMMA FirstWithin ==
    ASSUME NEW R \in Grammars,
           NEW S, \A t \in Terminals(R) : <<t, t>> \in S,
           \A p \in FirstPlaces(R) : \A t \in Terminals(R) :
             <<SymbolAt(R, p), t>> \in S => <<LeftSide(R, p), t>> \in S
    PROVE  First(R) \subseteq S
<1>1. ASSUME NEW i \in FirstFacts(R), i[2] \subseteq S
      PROVE  i[1] \in S
  <2>1. CASE i \in {<<<<t, t>>, {}>> : t \in Terminals(R)}
    BY <2>1
  <2>2. CASE i \in {<<<<LeftSide(R, pt[1]), pt[2]>>,
                      {<<SymbolAt(R, pt[1]), pt[2]>>}>> :
                       pt \in FirstPlaces(R) \X Terminals(R)}
    <3>1. PICK pt \in FirstPlaces(R) \X Terminals(R) :
            i = <<<<LeftSide(R, pt[1]), pt[2]>>, {<<SymbolAt(R, pt[1]), pt[2]>>}>>
      BY <2>2
    <3>2. pt[1] \in FirstPlaces(R) /\ pt[2] \in Terminals(R)
      BY <3>1
    <3>3. /\ i[1] = <<LeftSide(R, pt[1]), pt[2]>>
          /\ <<SymbolAt(R, pt[1]), pt[2]>> \in i[2]
      BY <3>1
    <3> QED
      BY <1>1, <3>2, <3>3
  <2> QED
    BY <2>1, <2>2 DEF FirstFacts
<1> QED
  BY <1>1, FirstIs, InferredWithin, Zenon

LEMMA FirstClosed ==
    ASSUME NEW R \in Grammars
    PROVE  /\ \A t \in Terminals(R) : <<t, t>> \in First(R)
           /\ \A p \in FirstPlaces(R) : \A t \in Terminals(R) :
                <<SymbolAt(R, p), t>> \in First(R) => <<LeftSide(R, p), t>> \in First(R)
<1>1. \A i \in FirstFacts(R) : i[2] \subseteq First(R) => i[1] \in First(R)
  BY FirstIs, InferredClosed, Zenon
<1>2. ASSUME NEW t \in Terminals(R) PROVE <<t, t>> \in First(R)
  <2>1. <<<<t, t>>, {}>> \in FirstFacts(R)
    BY DEF FirstFacts
  <2>2. \A i : i = <<<<t, t>>, {}>> => i[1] = <<t, t>> /\ i[2] = {}
    OBVIOUS
  <2> QED
    BY <1>1, <2>1, <2>2
<1>3. ASSUME NEW p \in FirstPlaces(R), NEW t \in Terminals(R),
             <<SymbolAt(R, p), t>> \in First(R)
      PROVE  <<LeftSide(R, p), t>> \in First(R)
  <2> DEFINE pt == <<p, t>>
             i == <<<<LeftSide(R, p), t>>, {<<SymbolAt(R, p), t>>}>>
  <2>1. pt \in FirstPlaces(R) \X Terminals(R)
    OBVIOUS
  <2>2. i = <<<<LeftSide(R, pt[1]), pt[2]>>, {<<SymbolAt(R, pt[1]), pt[2]>>}>>
    OBVIOUS
  <2>3. i \in FirstFacts(R)
    BY <2>1, <2>2, Zenon DEF FirstFacts
  <2>4. i[1] = <<LeftSide(R, p), t>> /\ i[2] = {<<SymbolAt(R, p), t>>}
    OBVIOUS
  <2>5. i[2] \subseteq First(R)
    BY <1>3, <2>4
  <2> HIDE DEF i
  <2> QED
    BY <1>1, <2>3, <2>4, <2>5, Zenon
<1> QED
  BY <1>2, <1>3, Zenon

LEMMA FirstTypes ==
    ASSUME NEW R \in Grammars
    PROVE  First(R) \subseteq FirstPairs(R)
<1>1. ASSUME NEW p \in FirstPlaces(R), NEW t \in Terminals(R)
      PROVE  <<LeftSide(R, p), t>> \in FirstPairs(R)
  <2>1. LeftSide(R, p) \in LeftSides(R)
    BY SymbolAtIs DEF FirstPlaces
  <2>2. LeftSide(R, p) \notin Terminals(R)
    BY <2>1 DEF Terminals
  <2> QED
    BY <2>1, <2>2 DEF FirstPairs
<1>2. \A t \in Terminals(R) : <<t, t>> \in FirstPairs(R)
  BY DEF FirstPairs
<1> QED
  BY <1>1, <1>2, FirstWithin, Zenon

\* The values First has for a symbol.
LEMMA OfIs ==
    ASSUME NEW relation, NEW S, NEW T, relation \subseteq S \X T
    PROVE  \A A, t : t \in Of(relation, A) <=> <<A, t>> \in relation
<1> TAKE A, t
<1>1. t \in Of(relation, A) => <<A, t>> \in relation
  <2> HAVE t \in Of(relation, A)
  <2>1. PICK p \in relation : p[1] = A /\ t = p[2]
    BY DEF Of
  <2>2. p = <<p[1], p[2]>>
    BY <2>1
  <2> QED
    BY <2>1, <2>2
<1>2. <<A, t>> \in relation => t \in Of(relation, A)
  <2> HAVE <<A, t>> \in relation
  <2>1. PICK p : p = <<A, t>>
    OBVIOUS
  <2>2. p \in relation /\ p[1] = A /\ p[2] = t
    BY <2>1
  <2> QED
    BY <2>2 DEF Of
<1> QED
  BY <1>1, <1>2

LEMMA OfFirst ==
    ASSUME NEW R \in Grammars
    PROVE  \A A, t : t \in Of(First(R), A) <=> <<A, t>> \in First(R)
<1>1. First(R) \subseteq (LeftSides(R) \cup Terminals(R)) \X Terminals(R)
  BY FirstTypes DEF FirstPairs
<1> QED
  BY <1>1, OfIs, Zenon
-----------------------------------------------------------------------------
\* The inferences Follow is made of.
Together(R) ==
    UNION {{<<SymbolAt(R, pq[1]), t>> : t \in Of(First(R), SymbolAt(R, pq[2]))} :
             pq \in NextPlaces(R)}

FollowFacts(R) ==
    {<<f, {}>> : f \in Together(R) \cup {<<R[1].nonTerminal, END>>}} \cup
    {<<<<SymbolAt(R, pt[1]), pt[2]>>, {<<LeftSide(R, pt[1]), pt[2]>>}>> :
       pt \in LastPlaces(R) \X (Terminals(R) \cup {END})}

LEMMA TogetherAre ==
    ASSUME NEW R \in Grammars
    PROVE  Together(R) \subseteq (LeftSides(R) \cup Terminals(R)) \X Terminals(R)
<1> SUFFICES ASSUME NEW pq \in NextPlaces(R),
                    NEW t \in Of(First(R), SymbolAt(R, pq[2]))
             PROVE  /\ SymbolAt(R, pq[1]) \in LeftSides(R) \cup Terminals(R)
                    /\ t \in Terminals(R)
  BY DEF Together
<1>1. pq[1] \in Places(R)
  BY DEF NextPlaces
<1>2. <<SymbolAt(R, pq[2]), t>> \in First(R)
  BY OfFirst
<1>3. t \in Terminals(R)
  BY <1>2, FirstTypes DEF FirstPairs
<1> QED
  BY <1>1, <1>3, SymbolAtIs

LEMMA FollowIs ==
    ASSUME NEW R \in Grammars
    PROVE  Follow(R) = Inferred(FollowFacts(R)) /\ IsFiniteSet(FollowFacts(R))
<1> DEFINE T == Terminals(R) \cup {END}
           X == LastPlaces(R) \X T
           Y == Together(R) \cup {<<R[1].nonTerminal, END>>}
           f == [y \in Y |-> <<y, {}>>]
           g == [pt \in X |-> <<<<SymbolAt(R, pt[1]), pt[2]>>,
                                {<<LeftSide(R, pt[1]), pt[2]>>}>>]
           h == [r \in DOMAIN R |-> R[r].nonTerminal]
<1>1. Follow(R) = Inferred(FollowFacts(R))
  BY DEF Follow, FollowFacts, Together
<1>2. IsFiniteSet({f[y] : y \in Y})
  <2>1. DOMAIN f = Y
    OBVIOUS
  <2>2. IsFiniteSet(LeftSides(R))
    <3>1. DOMAIN h = DOMAIN R /\ LeftSides(R) = {h[r] : r \in DOMAIN R}
      BY DEF LeftSides
    <3> HIDE DEF h
    <3> QED
      BY <3>1, PlacesFinite, ImageFinite
  <2>3. IsFiniteSet((LeftSides(R) \cup Terminals(R)) \X Terminals(R))
    <3>1. IsFiniteSet(LeftSides(R) \cup Terminals(R))
      BY <2>2, PlacesFinite, FS_Union
    <3> QED
      BY <3>1, PlacesFinite, FS_Product
  <2>4. IsFiniteSet(Together(R))
    <3>1. Together(R) \in SUBSET ((LeftSides(R) \cup Terminals(R)) \X Terminals(R))
      BY TogetherAre, Zenon
    <3> QED
      BY <2>3, <3>1, FS_Subset, Zenon
  <2>5. IsFiniteSet(Y)
    BY <2>4, FS_Singleton, FS_Union, Zenon
  <2> HIDE DEF f, Y
  <2> QED
    BY <2>1, <2>5, ImageFinite
<1>3. IsFiniteSet({g[pt] : pt \in X})
  <2>1. DOMAIN g = X
    OBVIOUS
  <2>2. LastPlaces(R) \in SUBSET Places(R)
    BY DEF LastPlaces
  <2>3. IsFiniteSet(LastPlaces(R))
    BY <2>2, PlacesFinite, FS_Subset, Zenon
  <2>4. IsFiniteSet(T)
    BY PlacesFinite, FS_Singleton, FS_Union, Zenon
  <2>5. IsFiniteSet(X)
    BY <2>3, <2>4, FS_Product
  <2> HIDE DEF g, X
  <2> QED
    BY <2>1, <2>5, ImageFinite
<1>4. FollowFacts(R) = {f[y] : y \in Y} \cup {g[pt] : pt \in X}
  BY Zenon DEF FollowFacts
<1> HIDE DEF f, g, h, X, Y
<1>5. IsFiniteSet(FollowFacts(R))
  BY <1>2, <1>3, <1>4, FS_Union
<1> QED
  BY <1>1, <1>5

LEMMA FollowWithin ==
    ASSUME NEW R \in Grammars,
           NEW S, <<R[1].nonTerminal, END>> \in S,
           \A pq \in NextPlaces(R) : \A t \in Of(First(R), SymbolAt(R, pq[2])) :
             <<SymbolAt(R, pq[1]), t>> \in S,
           \A p \in LastPlaces(R) : \A t \in Terminals(R) \cup {END} :
             <<LeftSide(R, p), t>> \in S => <<SymbolAt(R, p), t>> \in S
    PROVE  Follow(R) \subseteq S
<1>1. ASSUME NEW i \in FollowFacts(R), i[2] \subseteq S
      PROVE  i[1] \in S
  <2>1. CASE i \in {<<f, {}>> : f \in Together(R) \cup {<<R[1].nonTerminal, END>>}}
    <3>1. PICK f \in Together(R) \cup {<<R[1].nonTerminal, END>>} : i = <<f, {}>>
      BY <2>1
    <3>2. f \in S
      BY DEF Together
    <3> QED
      BY <3>1, <3>2
  <2>2. CASE i \in {<<<<SymbolAt(R, pt[1]), pt[2]>>,
                      {<<LeftSide(R, pt[1]), pt[2]>>}>> :
                       pt \in LastPlaces(R) \X (Terminals(R) \cup {END})}
    <3>1. PICK pt \in LastPlaces(R) \X (Terminals(R) \cup {END}) :
            i = <<<<SymbolAt(R, pt[1]), pt[2]>>, {<<LeftSide(R, pt[1]), pt[2]>>}>>
      BY <2>2
    <3>2. pt[1] \in LastPlaces(R) /\ pt[2] \in Terminals(R) \cup {END}
      BY <3>1
    <3>3. /\ i[1] = <<SymbolAt(R, pt[1]), pt[2]>>
          /\ <<LeftSide(R, pt[1]), pt[2]>> \in i[2]
      BY <3>1
    <3> QED
      BY <1>1, <3>2, <3>3, Zenon
  <2> QED
    BY <2>1, <2>2 DEF FollowFacts
<1> QED
  BY <1>1, FollowIs, InferredWithin, Zenon
-----------------------------------------------------------------------------
\* The code's sets.  What getSquenceFirsts finds after the symbol at k.
Right(r) == rules[r].development

SymbolFirsts(s) == IF s \in terminals THEN {s} ELSE firsts[s]

MaybeEmpty(s) == s \notin terminals /\ (EPSILON \in firsts[s] \/ firsts[s] = {})

RestFirsts(r, k) == SquenceFirsts(SubSeq(Right(r), k + 1, Len(Right(r))))

LEMMA RestIs ==
    ASSUME rules \in Grammars, NEW r \in DOMAIN rules, NEW k \in DOMAIN Right(r)
    PROVE  \A x : x \in RestFirsts(r, k) <=>
             \/ \E l \in k + 1 .. Len(Right(r)) :
                  /\ x \in SymbolFirsts(Right(r)[l])
                  /\ \A m \in k + 1 .. l - 1 : MaybeEmpty(Right(r)[m])
             \/ /\ x = EPSILON
                /\ \A l \in k + 1 .. Len(Right(r)) : MaybeEmpty(Right(r)[l])
<1> DEFINE dev == Right(r)
           L == Len(dev)
           rest == SubSeq(dev, k + 1, L)
<1>1. L \in Nat \ {0} /\ k \in 1 .. L
  BY GrammarFacts DEF Right
<1>2. DOMAIN rest = 1 .. L - k /\ \A i \in 1 .. L - k : rest[i] = dev[i + k]
  <2>1. \A i \in k + 1 .. L : dev[i] \in ToSet(dev)
    <3>1. \A i \in k + 1 .. L : i \in DOMAIN dev
      BY <1>1, GrammarFacts DEF Right
    <3> QED
      BY <3>1, Zenon DEF ToSet
  <2>2. k + 1 \in Int /\ L \in Int
    BY <1>1
  <2> HIDE DEF L, dev
  <2>3. PICK p : p = SubSeq(dev, k + 1, L)
    OBVIOUS
  <2>4. /\ p \in Seq(ToSet(dev))
        /\ Len(p) = IF k + 1 <= L THEN L - (k + 1) + 1 ELSE 0
        /\ \A i \in 1 .. L - (k + 1) + 1 : p[i] = dev[k + 1 + i - 1]
    BY <2>1, <2>2, <2>3, SubSeqProperties
  <2>5. Len(p) = L - k /\ \A i \in 1 .. L - k : p[i] = dev[i + k]
    BY <1>1, <2>4
  <2>6. DOMAIN p = 1 .. L - k
    BY <2>4, <2>5, LenProperties
  <2> QED
    BY <2>3, <2>5, <2>6, Zenon
<1> HIDE DEF rest, L, dev
<1>4. \A x : x \in SquenceFirsts(rest) <=>
        \/ \E i \in 1 .. L - k :
             /\ x \in SymbolFirsts(rest[i])
             /\ \A j \in 1 .. i - 1 : MaybeEmpty(rest[j])
        \/ x = EPSILON /\ \A i \in 1 .. L - k : MaybeEmpty(rest[i])
  <2> DEFINE seen == {i \in DOMAIN rest : \A j \in 1 .. i - 1 : MaybeEmpty(rest[j])}
  <2>1. SquenceFirsts(rest)
          = (UNION {SymbolFirsts(rest[i]) : i \in seen})
              \cup (IF \A i \in DOMAIN rest : MaybeEmpty(rest[i]) THEN {EPSILON} ELSE {})
    BY Zenon DEF SquenceFirsts, SymbolFirsts, MaybeEmpty
  <2>2. \A x : x \in UNION {SymbolFirsts(rest[i]) : i \in seen} <=>
          \E i \in DOMAIN rest :
            /\ x \in SymbolFirsts(rest[i])
            /\ \A j \in 1 .. i - 1 : MaybeEmpty(rest[j])
    OBVIOUS
  <2>3. \A x : x \in (IF \A i \in DOMAIN rest : MaybeEmpty(rest[i])
                      THEN {EPSILON} ELSE {}) <=>
          x = EPSILON /\ \A i \in DOMAIN rest : MaybeEmpty(rest[i])
    OBVIOUS
  <2> HIDE DEF seen
  <2> QED
    BY <1>2, <2>1, <2>2, <2>3, Zenon
<1>5. \A i \in 1 .. L - k :
        (\A j \in 1 .. i - 1 : MaybeEmpty(rest[j])) <=>
        (\A m \in k + 1 .. i + k - 1 : MaybeEmpty(dev[m]))
  <2> SUFFICES ASSUME NEW i \in 1 .. L - k
               PROVE  (\A j \in 1 .. i - 1 : MaybeEmpty(rest[j])) <=>
                      (\A m \in k + 1 .. i + k - 1 : MaybeEmpty(dev[m]))
    OBVIOUS
  <2>1. \A j \in 1 .. i - 1 : j \in 1 .. L - k /\ j + k \in k + 1 .. i + k - 1
    BY <1>1
  <2>2. \A m \in k + 1 .. i + k - 1 : m - k \in 1 .. i - 1 /\ m - k \in 1 .. L - k
                                      /\ (m - k) + k = m
    BY <1>1
  <2>3. ASSUME \A j \in 1 .. i - 1 : MaybeEmpty(rest[j]),
               NEW m \in k + 1 .. i + k - 1
        PROVE  MaybeEmpty(dev[m])
    BY <1>2, <2>2, <2>3, Zenon
  <2>4. ASSUME \A m \in k + 1 .. i + k - 1 : MaybeEmpty(dev[m]),
               NEW j \in 1 .. i - 1
        PROVE  MaybeEmpty(rest[j])
    BY <1>2, <2>1, <2>4, Zenon
  <2> QED
    BY <2>3, <2>4, Zenon
<1>6. \A i \in 1 .. L - k : i + k \in k + 1 .. L
  BY <1>1
<1>7. \A l \in k + 1 .. L : l - k \in 1 .. L - k /\ (l - k) + k = l
  BY <1>1
<1>8. ASSUME NEW x
      PROVE  (\E i \in 1 .. L - k :
                /\ x \in SymbolFirsts(rest[i])
                /\ \A j \in 1 .. i - 1 : MaybeEmpty(rest[j]))
             <=> (\E l \in k + 1 .. L :
                    /\ x \in SymbolFirsts(dev[l])
                    /\ \A m \in k + 1 .. l - 1 : MaybeEmpty(dev[m]))
  <2>1. ASSUME NEW i \in 1 .. L - k, x \in SymbolFirsts(rest[i]),
               \A j \in 1 .. i - 1 : MaybeEmpty(rest[j])
        PROVE  \E l \in k + 1 .. L :
                 /\ x \in SymbolFirsts(dev[l])
                 /\ \A m \in k + 1 .. l - 1 : MaybeEmpty(dev[m])
    <3>1. PICK l \in k + 1 .. L : l = i + k
      BY <1>6, Zenon
    <3>2. x \in SymbolFirsts(dev[l])
      BY <1>2, <2>1, <3>1, Zenon
    <3>3. \A m \in k + 1 .. l - 1 : MaybeEmpty(dev[m])
      BY <1>1, <1>5, <2>1, <3>1
    <3> QED
      BY <3>2, <3>3, Zenon
  <2>2. ASSUME NEW l \in k + 1 .. L, x \in SymbolFirsts(dev[l]),
               \A m \in k + 1 .. l - 1 : MaybeEmpty(dev[m])
        PROVE  \E i \in 1 .. L - k :
                 /\ x \in SymbolFirsts(rest[i])
                 /\ \A j \in 1 .. i - 1 : MaybeEmpty(rest[j])
    <3>1. PICK i \in 1 .. L - k : i = l - k /\ i + k = l
      BY <1>7, Zenon
    <3>2. rest[i] = dev[l]
      BY <1>2, <3>1, Zenon
    <3>3. \A m \in k + 1 .. i + k - 1 : MaybeEmpty(dev[m])
      BY <1>1, <2>2, <3>1
    <3> QED
      BY <1>5, <2>2, <3>2, <3>3, Zenon
  <2> QED
    BY <2>1, <2>2, Zenon
<1>9. (\A i \in 1 .. L - k : MaybeEmpty(rest[i]))
        <=> (\A l \in k + 1 .. L : MaybeEmpty(dev[l]))
  <2>1. ASSUME \A i \in 1 .. L - k : MaybeEmpty(rest[i]), NEW l \in k + 1 .. L
        PROVE  MaybeEmpty(dev[l])
    BY <1>2, <1>7, <2>1, Zenon
  <2>2. ASSUME \A l \in k + 1 .. L : MaybeEmpty(dev[l]), NEW i \in 1 .. L - k
        PROVE  MaybeEmpty(rest[i])
    BY <1>2, <1>6, <2>2, Zenon
  <2> QED
    BY <2>1, <2>2, Zenon
<1>10. RestFirsts(r, k) = SquenceFirsts(rest)
  BY DEF RestFirsts, rest, L, dev
<1>11. \A x : x \in SquenceFirsts(rest) <=>
         \/ \E l \in k + 1 .. L :
              /\ x \in SymbolFirsts(dev[l])
              /\ \A m \in k + 1 .. l - 1 : MaybeEmpty(dev[m])
         \/ x = EPSILON /\ \A l \in k + 1 .. L : MaybeEmpty(dev[l])
  BY <1>4, <1>8, <1>9, Zenon
<1> QED
  BY <1>10, <1>11, Zenon DEF L, dev
-----------------------------------------------------------------------------
\* The loops over the rules.
IsFunction(f) == f = [s \in DOMAIN f |-> f[s]]

Loops ==
    /\ rules \in Grammars
    /\ phase \in {"firsts", "follows"} => ruleIndex \in Nat \ {0}
    /\ phase = "firsts" => position = 1
    /\ phase = "follows" =>
         position \in Nat \ {0} /\ (ruleIndex > Len(rules) => position = 1)
    /\ IsFunction(follows) /\ DOMAIN follows = alphabet

\* What a pass over the rules for FOLLOW has made true of a place it passed, and
\* what cannot become false again before the next pass.
Passed(r, k) == r < ruleIndex \/ (r = ruleIndex /\ k < position)

CanEnd(r, k) == \A l \in k + 1 .. Len(Right(r)) : Right(r)[l] \in Nullable(rules)

Served(r, k) ==
    /\ RestFirsts(r, k) \ {EPSILON} \subseteq follows[Right(r)[k]]
    /\ CanEnd(r, k) => follows[rules[r].nonTerminal] \subseteq follows[Right(r)[k]]

FollowsServed ==
    phase # "firsts" /\ ListedTopDown /\ FirstsComplete =>
      /\ END \in follows[axiom]
      /\ \A r \in DOMAIN rules : \A k \in DOMAIN Right(r) :
           /\ Right(r)[k] \in nonTerminals
           /\ phase = "follows" => Passed(r, k)
           => Served(r, k)

LEMMA NullableMaybeEmpty ==
    ASSUME rules \in Grammars, FirstsComplete, NEW A \in Nullable(rules)
    PROVE  MaybeEmpty(A) /\ A \in nonTerminals /\ A \notin terminals
<1>1. A \in nonTerminals
  BY NullableLeft DEF LeftSides, nonTerminals
<1>2. A \notin terminals
  BY <1>1 DEF terminals, TerminalsOf, nonTerminals
<1>3. EPSILON \in firsts[A]
  BY <1>1 DEF FirstsComplete
<1> QED
  BY <1>1, <1>2, <1>3 DEF MaybeEmpty

\* What can follow a symbol late in a rule can follow one before it, if all that
\* is between them and after them can be empty.
LEMMA LaterFirsts ==
    ASSUME rules \in Grammars, FirstsComplete,
           NEW r \in DOMAIN rules, NEW k \in DOMAIN Right(r),
           NEW j \in DOMAIN Right(r), k < j, CanEnd(r, k)
    PROVE  RestFirsts(r, j) \ {EPSILON} \subseteq RestFirsts(r, k)
<1> SUFFICES ASSUME NEW x \in RestFirsts(r, j), x # EPSILON
             PROVE  x \in RestFirsts(r, k)
  OBVIOUS
<1>0. k \in Nat /\ j \in Nat /\ Len(Right(r)) \in Nat
  BY GrammarFacts DEF Right
<1>1. PICK l \in j + 1 .. Len(Right(r)) : x \in SymbolFirsts(Right(r)[l])
  BY RestIs
<1>2. l \in k + 1 .. Len(Right(r))
  BY <1>0
<1>3. \A m \in k + 1 .. l - 1 : m \in k + 1 .. Len(Right(r))
  BY <1>0
<1>4. \A m \in k + 1 .. l - 1 : MaybeEmpty(Right(r)[m])
  BY <1>3, NullableMaybeEmpty, Zenon DEF CanEnd
<1> QED
  BY <1>1, <1>2, <1>4, RestIs, Zenon

LEMMA CanEndFirsts ==
    ASSUME rules \in Grammars, FirstsComplete,
           NEW r \in DOMAIN rules, NEW k \in DOMAIN Right(r), CanEnd(r, k)
    PROVE  EPSILON \in RestFirsts(r, k)
<1>1. \A l \in k + 1 .. Len(Right(r)) : MaybeEmpty(Right(r)[l])
  BY NullableMaybeEmpty, Zenon DEF CanEnd
<1> QED
  BY <1>1, RestIs, Zenon

\* The rules and FIRST are the same in all passes.
LEMMA SameFirsts ==
    ASSUME rules' = rules, firsts' = firsts
    PROVE  /\ ListedTopDown' = ListedTopDown /\ FirstsComplete' = FirstsComplete
           /\ nonTerminals' = nonTerminals /\ terminals' = terminals
           /\ alphabet' = alphabet /\ axiom' = axiom
           /\ \A r, k : Right(r)' = Right(r) /\ RestFirsts(r, k)' = RestFirsts(r, k)
                          /\ CanEnd(r, k)' = CanEnd(r, k)
  BY DEF ListedTopDown, FirstsComplete, nonTerminals, terminals, TerminalsOf,
         alphabet, axiom, Right, RestFirsts, CanEnd, SquenceFirsts

LEMMA FollowsOfSymbolKeeps ==
    ASSUME Loops, FollowsServed, FollowsOfSymbol
    PROVE  FollowsServed'
<1>1. /\ phase = "follows" /\ phase' = "follows"
      /\ ruleIndex \in DOMAIN rules /\ position \in DOMAIN Right(ruleIndex)
      /\ rules' = rules /\ firsts' = firsts /\ ruleIndex' = ruleIndex
      /\ position' = position + 1 /\ position \in Nat /\ ruleIndex \in Nat
  <2>1. /\ phase = "follows" /\ ruleIndex <= Len(rules)
        /\ position <= Len(rules[ruleIndex].development)
        /\ rules' = rules /\ firsts' = firsts /\ ruleIndex' = ruleIndex
        /\ position' = position + 1 /\ phase' = phase
    BY DEF FollowsOfSymbol, rule
  <2>2. rules \in Grammars /\ ruleIndex \in Nat \ {0} /\ position \in Nat \ {0}
    BY <2>1 DEF Loops
  <2>3. ruleIndex \in DOMAIN rules
    BY <2>1, <2>2, GrammarFacts
  <2>4. position \in DOMAIN rules[ruleIndex].development
    BY <2>1, <2>2, <2>3, GrammarFacts
  <2> QED
    BY <2>1, <2>2, <2>3, <2>4 DEF Right
<1>0. rules \in Grammars
  BY DEF Loops
<1>2. SUFFICES ASSUME ListedTopDown, FirstsComplete
               PROVE  /\ END \in follows'[axiom]
                      /\ \A r \in DOMAIN rules : \A k \in DOMAIN Right(r) :
                           Right(r)[k] \in nonTerminals /\ Passed(r, k)' => Served(r, k)'
  BY <1>1, SameFirsts, Zenon DEF FollowsServed
<1>3. /\ END \in follows[axiom]
      /\ \A r \in DOMAIN rules : \A k \in DOMAIN Right(r) :
           Right(r)[k] \in nonTerminals /\ Passed(r, k) => Served(r, k)
  BY <1>1, <1>2, Zenon DEF FollowsServed
<1> DEFINE X == Right(ruleIndex)[position]
           A == rules[ruleIndex].nonTerminal
           new == RestFirsts(ruleIndex, position)
           gain == (new \ {EPSILON})
                     \cup (IF EPSILON \in new THEN follows[A] ELSE {})
<1>4. symbol = X /\ rule.nonTerminal = A /\ after = new
  BY DEF symbol, rule, after, Right, RestFirsts
<1>5. follows' = IF X \in nonTerminals
                   THEN [follows EXCEPT ![X] = @ \cup gain] ELSE follows
  BY <1>4, Zenon DEF FollowsOfSymbol, direct, inherited
<1>6. \A s \in nonTerminals :
        follows'[s] = IF s = X THEN follows[s] \cup gain ELSE follows[s]
  <2>1. \A s \in nonTerminals : s \in DOMAIN follows
    BY DEF Loops, alphabet
  <2> HIDE DEF X, gain
  <2>2. CASE X \in nonTerminals
    BY <1>5, <2>1, <2>2
  <2>3. CASE X \notin nonTerminals
    BY <1>5, <2>3
  <2> QED
    BY <2>2, <2>3
<1>7. A \in nonTerminals /\ axiom \in nonTerminals
  <2>1. 1 \in DOMAIN rules
    BY <1>0, GrammarFacts
  <2> QED
    BY <1>1, <2>1 DEF nonTerminals, axiom
<1>8. \A s \in nonTerminals : follows[s] \subseteq follows'[s]
  BY <1>6
<1>9. END \in follows'[axiom]
  BY <1>3, <1>7, <1>8
<1> HIDE DEF X, gain, new
<1>10. ASSUME NEW r \in DOMAIN rules, NEW k \in DOMAIN Right(r),
              Right(r)[k] \in nonTerminals, Passed(r, k)'
       PROVE  Served(r, k)'
  <2> DEFINE Y == Right(r)[k]
             B == rules[r].nonTerminal
  <2>0. B \in nonTerminals
    BY DEF nonTerminals
  <2>1. SUFFICES /\ RestFirsts(r, k) \ {EPSILON} \subseteq follows'[Y]
                 /\ CanEnd(r, k) => follows'[B] \subseteq follows'[Y]
    BY <1>1, SameFirsts, Zenon DEF Served
  <2>2. CASE Passed(r, k)
    <3>1. /\ RestFirsts(r, k) \ {EPSILON} \subseteq follows[Y]
          /\ CanEnd(r, k) => follows[B] \subseteq follows[Y]
      BY <1>3, <1>10, <2>2, Zenon DEF Served
    <3>2. ASSUME CanEnd(r, k)
          PROVE  follows'[B] \subseteq follows'[Y]
      <4>1. CASE B = Y
        BY <4>1, Zenon
      <4>2. CASE B # X
        BY <1>6, <1>8, <1>10, <2>0, <3>1, <3>2, <4>2
      <4>3. CASE B # Y /\ B = X
        \* The symbol is the left side of the rule that was passed: with the
        \* rules listed top-down it is further on in the same rule.
        <5>1. X \in ToSet(Right(ruleIndex))
          BY <1>1, Zenon DEF ToSet, X
        <5>2. ruleIndex <= r
          <6>1. \A l \in k + 1 .. Len(rules[r].development) :
                  rules[r].development[l] \in Nullable(rules)
            BY <3>2 DEF CanEnd, Right
          <6>2. /\ k \in DOMAIN rules[r].development
                /\ rules[r].development[k] \in nonTerminals \ {rules[r].nonTerminal}
            BY <1>10, <4>3 DEF Right
          <6>3. rules[r].nonTerminal \in ToSet(rules[ruleIndex].development)
            BY <4>3, <5>1 DEF Right
          <6> QED
            BY <1>1, <1>2, <6>1, <6>2, <6>3, Zenon DEF ListedTopDown
        <5>3. r \in Nat
          BY <1>0, GrammarFacts
        <5>4. r = ruleIndex /\ k < position
          BY <1>1, <2>2, <5>2, <5>3 DEF Passed
        <5>5. new \ {EPSILON} \subseteq RestFirsts(r, k)
          BY <1>0, <1>1, <1>2, <3>2, <5>4, LaterFirsts DEF new
        <5>6. A = B
          BY <5>4
        <5>7. gain \subseteq follows[Y]
          BY <3>1, <3>2, <5>5, <5>6 DEF gain
        <5>8. follows'[B] \subseteq follows[Y]
          BY <1>6, <2>0, <3>1, <3>2, <4>3, <5>7
        <5> QED
          BY <1>8, <1>10, <5>8
      <4> QED
        BY <4>1, <4>2, <4>3
    <3> QED
      BY <1>8, <1>10, <3>1, <3>2
  <2>3. CASE ~ Passed(r, k)
    <3>1. r = ruleIndex /\ k = position
      <4>1. r \in Nat /\ k \in Nat
        BY <1>0, GrammarFacts DEF Right
      <4> QED
        BY <1>1, <1>10, <2>3, <4>1 DEF Passed
    <3>2. Y = X /\ B = A /\ RestFirsts(r, k) = new
      BY <3>1 DEF X, new
    <3>3. follows'[Y] = follows[Y] \cup gain
      BY <1>6, <1>10, <3>2
    <3>4. ASSUME CanEnd(r, k)
          PROVE  follows'[B] \subseteq follows'[Y]
      <4>1. EPSILON \in new
        BY <1>0, <1>2, <3>2, <3>4, CanEndFirsts
      <4>2. follows[A] \subseteq gain
        BY <4>1 DEF gain
      <4>3. CASE B = Y
        BY <4>3, Zenon
      <4>4. CASE B # Y
        BY <1>6, <2>0, <3>2, <3>3, <4>2, <4>4
      <4> QED
        BY <4>3, <4>4
    <3>5. new \ {EPSILON} \subseteq gain
      BY DEF gain
    <3> QED
      BY <3>2, <3>3, <3>4, <3>5
  <2> QED
    BY <2>2, <2>3
<1> QED
  BY <1>9, <1>10

LEMMA PassEndsKeeps ==
    ASSUME Loops, FollowsServed,
           \/ FirstsOfEpsilonRule \/ FirstsOfRule \/ FirstsPassEnds
           \/ FollowsRuleEnds \/ FollowsPassEnds
    PROVE  FollowsServed'
<1>0. rules \in Grammars
  BY DEF Loops
<1>1. CASE phase' = "firsts"
  BY <1>1 DEF FollowsServed
<1>2. CASE FollowsRuleEnds
  <2>1. /\ phase = "follows" /\ phase' = "follows"
        /\ rules' = rules /\ firsts' = firsts /\ follows' = follows
        /\ ruleIndex' = ruleIndex + 1 /\ position' = 1
        /\ position > Len(Right(ruleIndex)) /\ ruleIndex \in DOMAIN rules
        /\ ruleIndex \in Nat /\ position \in Nat
    BY <1>0, <1>2, GrammarFacts DEF FollowsRuleEnds, Right, rule, Loops
  <2>2. ASSUME NEW r \in DOMAIN rules, NEW k \in DOMAIN Right(r), Passed(r, k)'
        PROVE  Passed(r, k)
    <3>1. r \in Nat /\ k \in 1 .. Len(Right(r)) /\ Len(Right(r)) \in Nat
      BY <1>0, GrammarFacts DEF Right
    <3>2. r < ruleIndex + 1 \/ (r = ruleIndex + 1 /\ k < 1)
      BY <2>1, <2>2 DEF Passed
    <3>3. r < ruleIndex \/ r = ruleIndex
      BY <2>1, <3>1, <3>2
    <3>4. r = ruleIndex => k < position
      BY <2>1, <3>1
    <3> QED
      BY <3>3, <3>4 DEF Passed
  <2> QED
    BY <2>1, <2>2, SameFirsts, Zenon DEF FollowsServed, Served
<1>3. CASE (FollowsPassEnds \/ FirstsPassEnds) /\ phase' = "follows"
  <2>1. /\ rules' = rules /\ firsts' = firsts /\ ruleIndex' = 1 /\ position' = 1
        /\ FollowsPass
    BY <1>3 DEF FollowsPassEnds, FirstsPassEnds, Loops
  <2>2. END \in follows'[axiom]
    <3>1. axiom \in DOMAIN follows
      <4>1. 1 \in DOMAIN rules
        BY <1>0, GrammarFacts
      <4> QED
        BY <4>1 DEF Loops, alphabet, nonTerminals, axiom
    <3> QED
      BY <2>1, <3>1 DEF FollowsPass
  <2>3. ASSUME NEW r \in DOMAIN rules, NEW k \in DOMAIN Right(r)
        PROVE  ~ Passed(r, k)'
    <3>1. r \in 1 .. Len(rules) /\ k \in 1 .. Len(Right(r))
      BY <1>0, GrammarFacts DEF Right
    <3> QED
      BY <2>1, <3>1 DEF Passed
  <2> QED
    BY <1>3, <2>1, <2>2, <2>3, SameFirsts, Zenon DEF FollowsServed
<1>4. CASE FollowsPassEnds /\ phase' # "follows"
  <2>1. /\ rules' = rules /\ firsts' = firsts /\ follows' = follows
        /\ phase = "follows" /\ ruleIndex > Len(rules) /\ ruleIndex \in Nat
        /\ phase' = "closure"
    BY <1>4 DEF FollowsPassEnds, Loops
  <2>2. ASSUME NEW r \in DOMAIN rules, NEW k \in DOMAIN Right(r)
        PROVE  Passed(r, k)
    <3>1. r \in 1 .. Len(rules) /\ Len(rules) \in Nat
      BY <1>0, GrammarFacts
    <3> QED
      BY <2>1, <3>1 DEF Passed
  <2> QED
    BY <2>1, <2>2, SameFirsts, Zenon DEF FollowsServed, Served
<1>5. \/ phase' = "firsts" \/ FollowsRuleEnds
      \/ (FollowsPassEnds \/ FirstsPassEnds) /\ phase' = "follows"
      \/ FollowsPassEnds /\ phase' # "follows"
  BY DEF FirstsOfEpsilonRule, FirstsOfRule, FirstsPassEnds
<1> QED
  BY <1>1, <1>2, <1>3, <1>4, <1>5

\* At the end, what is true of every place is true of all that Follow infers.
LEMMA ServedIsComplete ==
    ASSUME Loops, FollowsServed
    PROVE  FollowsReachTopDown
<1> SUFFICES ASSUME phase \notin {"firsts", "follows"}, ListedTopDown, FirstsComplete,
                    NEW A \in nonTerminals
             PROVE  Of(Follow(rules), A) \subseteq follows[A]
  BY Zenon DEF FollowsReachTopDown, FollowsComplete, FollowOf, Loops
<1>1. rules \in Grammars
  BY DEF Loops
<1>2. /\ END \in follows[axiom]
      /\ \A r \in DOMAIN rules : \A k \in DOMAIN Right(r) :
           Right(r)[k] \in nonTerminals => Served(r, k)
  BY Zenon DEF FollowsServed
<1>3. nonTerminals = LeftSides(rules) /\ terminals = Terminals(rules)
  BY <1>1, SameTerminals, Zenon DEF nonTerminals, LeftSides, terminals
<1> DEFINE N == LeftSides(rules)
           T == Terminals(rules) \cup {END}
           S == {f \in (N \cup Terminals(rules)) \X T :
                   f[1] \in nonTerminals => f[2] \in follows[f[1]]}
<1>4. <<rules[1].nonTerminal, END>> \in S
  <2>1. 1 \in DOMAIN rules
    BY <1>1, GrammarFacts
  <2>2. rules[1].nonTerminal \in N
    BY <2>1 DEF LeftSides
  <2> QED
    BY <1>2, <2>2 DEF axiom
<1>5. ASSUME NEW pq \in NextPlaces(rules),
             NEW t \in Of(First(rules), SymbolAt(rules, pq[2]))
      PROVE  <<SymbolAt(rules, pq[1]), t>> \in S
  <2> DEFINE p == pq[1]
             q == pq[2]
             r == p[1]
             s == SymbolAt(rules, q)
  <2>1. /\ p \in Places(rules) /\ q \in Places(rules)
        /\ q[1] = r /\ p[2] < q[2]
        /\ Vanish(rules, r, p[2], q[2])
    BY DEF NextPlaces
  <2>2. /\ r \in DOMAIN rules /\ Body(rules[r]) = Right(r)
        /\ p[2] \in 1 .. Len(Right(r)) /\ q[2] \in 1 .. Len(Right(r))
        /\ SymbolAt(rules, p) = Right(r)[p[2]]
        /\ s = Right(r)[q[2]]
    BY <1>1, <2>1, PlaceFacts, Zenon DEF Right
  <2>3. <<s, t>> \in First(rules)
    BY <1>1, OfFirst
  <2>4. /\ s \in LeftSides(rules) \cup Terminals(rules) /\ t \in Terminals(rules)
        /\ s \in Terminals(rules) => s = t
    BY <1>1, <2>3, FirstTypes DEF FirstPairs
  <2>5. SymbolAt(rules, p) \in N \cup Terminals(rules)
    BY <1>1, <2>1, SymbolAtIs
  <2> HIDE DEF p, q, r, s
  <2>6. ASSUME SymbolAt(rules, p) \in nonTerminals
        PROVE  t \in follows[SymbolAt(rules, p)]
    <3>1. t \in SymbolFirsts(s)
      <4>1. CASE s \in terminals
        BY <1>3, <2>4, <4>1 DEF SymbolFirsts
      <4>2. CASE s \notin terminals
        <5>1. s \in nonTerminals
          BY <1>3, <2>4, <4>2
        <5>2. t \in Of(First(rules), s)
          BY <1>1, <2>3, OfFirst
        <5>3. t \in firsts[s]
          BY <1>1, <5>1, <5>2 DEF FirstsComplete, FirstOf
        <5> QED
          BY <4>2, <5>3 DEF SymbolFirsts
      <4> QED
        BY <4>1, <4>2
    <3>2. \A m \in p[2] + 1 .. q[2] - 1 : MaybeEmpty(Right(r)[m])
      BY <1>1, <2>1, <2>2, NullableMaybeEmpty, Zenon DEF Vanish
    <3>3. q[2] \in p[2] + 1 .. Len(Right(r)) /\ p[2] \in DOMAIN Right(r)
      <4>1. Len(Right(r)) \in Nat /\ DOMAIN Right(r) = 1 .. Len(Right(r))
        BY <1>1, <2>2, GrammarFacts DEF Right
      <4> QED
        BY <2>1, <2>2, <4>1
    <3>4. t \in RestFirsts(r, p[2])
      BY <1>1, <2>2, <3>1, <3>2, <3>3, RestIs, Zenon
    <3>5. t # EPSILON
      <4>1. TerminalsOf(rules) = Terminals(rules)
        BY <1>1, SameTerminals
      <4> QED
        BY <2>4, <4>1 DEF TerminalsOf
    <3>6. Served(r, p[2])
      BY <1>2, <2>2, <2>6, <3>3, Zenon
    <3> QED
      BY <2>2, <3>4, <3>5, <3>6 DEF Served
  <2>7. SymbolAt(rules, pq[1]) = SymbolAt(rules, p)
    BY DEF p
  <2> QED
    BY <2>4, <2>5, <2>6, <2>7
<1>6. ASSUME NEW p \in LastPlaces(rules), NEW t \in T,
             <<LeftSide(rules, p), t>> \in S
      PROVE  <<SymbolAt(rules, p), t>> \in S
  <2> DEFINE r == p[1]
  <2>1. /\ p \in Places(rules)
        /\ Vanish(rules, r, p[2], Len(Body(rules[r])) + 1)
    BY DEF LastPlaces
  <2>2. /\ r \in DOMAIN rules /\ Body(rules[r]) = Right(r)
        /\ p[2] \in 1 .. Len(Right(r))
        /\ SymbolAt(rules, p) = Right(r)[p[2]]
        /\ LeftSide(rules, p) = rules[r].nonTerminal
    BY <1>1, <2>1, PlaceFacts, Zenon DEF Right
  <2>3. SymbolAt(rules, p) \in N \cup Terminals(rules)
    BY <1>1, <2>1, SymbolAtIs
  <2>4. t \in follows[rules[r].nonTerminal]
    <3>1. rules[r].nonTerminal \in nonTerminals
      BY <2>2 DEF nonTerminals
    <3> QED
      BY <1>6, <2>2, <3>1
  <2> HIDE DEF r
  <2>5. Len(Right(r)) \in Nat /\ DOMAIN Right(r) = 1 .. Len(Right(r))
    BY <1>1, <2>2, GrammarFacts DEF Right
  <2>6. CanEnd(r, p[2])
    <3>1. Len(Right(r)) + 1 - 1 = Len(Right(r))
      BY <2>5
    <3> QED
      BY <2>1, <2>2, <3>1 DEF Vanish, CanEnd, r
  <2>7. SymbolAt(rules, p) \in nonTerminals => t \in follows[SymbolAt(rules, p)]
    <3> HAVE SymbolAt(rules, p) \in nonTerminals
    <3>1. Served(r, p[2])
      BY <1>2, <2>2, <2>5, Zenon
    <3> QED
      BY <2>2, <2>4, <2>6, <3>1 DEF Served
  <2> QED
    BY <2>3, <2>7
<1> HIDE DEF S
<1>7. Follow(rules) \subseteq S
  BY <1>1, <1>4, <1>5, <1>6, FollowWithin
<1>8. ASSUME NEW t \in Of(Follow(rules), A) PROVE t \in follows[A]
  <2>1. PICK f \in Follow(rules) : f[1] = A /\ t = f[2]
    BY DEF Of
  <2> QED
    BY <1>7, <2>1 DEF S
<1> QED
  BY <1>8

\* Nothing but the loops changes the grammar and its sets.
LEMMA BuiltLater ==
    ASSUME KernelStep
    PROVE  /\ phase \notin {"firsts", "follows"} /\ phase' \notin {"firsts", "follows"}
           /\ UNCHANGED grammarVars
  BY DEF KernelStep, updateClosure, addGoto, NextKernel, GraphEnds, buildState, StatesEnd

LEMMA LoopsKept ==
    ASSUME Loops, GrammarStep
    PROVE  Loops'
<1>1. /\ rules' = rules /\ rules \in Grammars /\ alphabet' = alphabet
  BY DEF Loops, GrammarStep, FirstsOfEpsilonRule, FirstsOfRule, FirstsPassEnds,
         FollowsOfSymbol, FollowsRuleEnds, FollowsPassEnds, alphabet,
         nonTerminals, terminals, TerminalsOf
<1>2. /\ phase' \in {"firsts", "follows"} => ruleIndex' \in Nat \ {0}
      /\ phase' = "firsts" => position' = 1
      /\ phase' = "follows" =>
           position' \in Nat \ {0} /\ (ruleIndex' > Len(rules) => position' = 1)
  <2>1. /\ phase \in {"firsts", "follows"}
        /\ ruleIndex \in Nat \ {0} /\ position \in Nat \ {0} /\ Len(rules) \in Nat \ {0}
    BY <1>1, GrammarFacts DEF Loops, GrammarStep, FirstsOfEpsilonRule, FirstsOfRule,
         FirstsPassEnds, FollowsOfSymbol, FollowsRuleEnds, FollowsPassEnds
  <2>2. CASE FirstsOfEpsilonRule \/ FirstsOfRule
    BY <2>1, <2>2 DEF Loops, FirstsOfEpsilonRule, FirstsOfRule
  <2>3. CASE FirstsPassEnds \/ FollowsPassEnds
    BY <2>1, <2>3 DEF Loops, FirstsPassEnds, FollowsPassEnds
  <2>4. CASE FollowsOfSymbol \/ FollowsRuleEnds
    BY <2>1, <2>4 DEF Loops, FollowsOfSymbol, FollowsRuleEnds
  <2> QED
    BY <2>2, <2>3, <2>4 DEF GrammarStep
<1>3. IsFunction(follows)' /\ (DOMAIN follows = alphabet)'
  <2>1. \/ follows' = follows
        \/ \E s, g : follows' = [follows EXCEPT ![s] = g]
    BY DEF GrammarStep, FirstsOfEpsilonRule, FirstsOfRule, FirstsPassEnds,
           FollowsOfSymbol, FollowsRuleEnds, FollowsPassEnds, FollowsPass
  <2> QED
    BY <1>1, <2>1 DEF Loops, IsFunction
<1> QED
  BY <1>1, <1>2, <1>3 DEF Loops

LEMMA LoopsInit ==
    ASSUME GrammarInit
    PROVE  Loops /\ FollowsServed
<1>1. rules \in Grammars /\ phase = "firsts" /\ ruleIndex = 1 /\ position = 1
  BY DEF GrammarInit
<1>2. IsFunction(follows) /\ DOMAIN follows = alphabet
  BY DEF GrammarInit, IsFunction
<1> QED
  BY <1>1, <1>2 DEF Loops, FollowsServed

\* What is said of the sets is said of the grammar's variables and of the phase.
LEMMA SetsKept ==
    ASSUME Loops, FollowsServed, UNCHANGED grammarVars,
           phase' = phase \/ {phase, phase'} \cap {"firsts", "follows"} = {}
    PROVE  Loops' /\ FollowsServed'
<1>1. /\ rules' = rules /\ firsts' = firsts /\ follows' = follows
      /\ ruleIndex' = ruleIndex /\ position' = position
  BY DEF grammarVars
<1>2. alphabet' = alphabet
  BY <1>1, SameFirsts
<1>3. Loops'
  BY <1>1, <1>2 DEF Loops, IsFunction
<1>4. FollowsServed'
  <2>1. \A r, k : Served(r, k)' = Served(r, k) /\ Passed(r, k)' = Passed(r, k)
    BY <1>1, SameFirsts, Zenon DEF Served, Passed
  <2>2. phase' # "firsts" => phase # "firsts"
    OBVIOUS
  <2>3. phase = "follows" => phase' = "follows"
    OBVIOUS
  <2> QED
    BY <1>1, <2>1, <2>2, <2>3, SameFirsts, Zenon DEF FollowsServed
<1> QED
  BY <1>3, <1>4

LEMMA OthersKeepSets ==
    ASSUME Parse \/ ParserStep \/ ClientStep
           \/ UNCHANGED <<phase, grammarVars, kernelVars, parserVars>>
    PROVE  phase' = phase /\ UNCHANGED grammarVars
  BY DEF Parse, parse, ParserStep, shift, reduce, accept, throw, ReadPastEnd, ClientStep

\* Whatever notDone forgets: if no rule that ends in another nonterminal comes
\* before one that mentions its left side, and FIRST is complete, so is FOLLOW.
THEOREM FollowsCompleteTopDown == ParserSpec => []FollowsReachTopDown
<1> DEFINE Next == Build \/ Parse \/ ParserStep \/ ClientStep
           vars == <<phase, grammarVars, kernelVars, parserVars>>
           Inv == Loops /\ FollowsServed
<1>1. GrammarInit /\ KernelInit /\ ParserInit => Inv
  BY LoopsInit
<1>2. Inv /\ [Next]_vars => Inv'
  <2> SUFFICES ASSUME Loops, FollowsServed, [Next]_vars PROVE Loops' /\ FollowsServed'
    OBVIOUS
  <2>1. CASE GrammarStep
    BY <2>1, LoopsKept, FollowsOfSymbolKeeps, PassEndsKeeps DEF GrammarStep
  <2>2. CASE KernelStep
    BY <2>2, BuiltLater, SetsKept
  <2>3. CASE Parse \/ ParserStep \/ ClientStep \/ UNCHANGED vars
    BY <2>3, OthersKeepSets, SetsKept
  <2> QED
    BY <2>1, <2>2, <2>3 DEF Build
<1>3. Inv => FollowsReachTopDown
  BY ServedIsComplete
<1> QED
  BY <1>1, <1>2, <1>3, PTL DEF ParserSpec
-----------------------------------------------------------------------------
\* FIRST without empty rules: every rule adds what its first symbol begins with.
NoEpsilon == \A r \in DOMAIN rules : ~ IsEpsilonRule(rules[r])

Starts(r) == SymbolFirsts(Right(r)[1])

FirstsServed ==
    NoEpsilon =>
      /\ IsFunction(firsts) /\ DOMAIN firsts = alphabet \cup {EPSILON}
      /\ \A A \in nonTerminals : firsts[A] \subseteq Of(First(rules), A)
      /\ phase # "firsts" \/ ~ notDone =>
           \A r \in DOMAIN rules :
             (phase = "firsts" => r < ruleIndex)
               => Starts(r) \subseteq firsts[rules[r].nonTerminal]

LEMMA FirstSymbol ==
    ASSUME rules \in Grammars, NoEpsilon, NEW r \in DOMAIN rules
    PROVE  /\ <<r, 1>> \in FirstPlaces(rules)
           /\ LeftSide(rules, <<r, 1>>) = rules[r].nonTerminal
           /\ SymbolAt(rules, <<r, 1>>) = Right(r)[1]
           /\ Right(r)[1] \in nonTerminals \cup terminals
           /\ terminals = Terminals(rules) /\ nonTerminals = LeftSides(rules)
           /\ EPSILON \notin terminals
<1>1. 1 \in 1 .. Len(rules[r].development)
  BY GrammarFacts
<1>2. <<r, 1>> \in Places(rules)
  BY <1>1, IsPlace DEF NoEpsilon
<1>3. Vanish(rules, r, 0, 1)
  BY DEF Vanish
<1>4. PICK p : p = <<r, 1>>
  OBVIOUS
<1>5. p[1] = r /\ p[2] = 1
  BY <1>4
<1>6. p \in FirstPlaces(rules)
  BY <1>2, <1>3, <1>4, <1>5 DEF FirstPlaces
<1>7. /\ LeftSide(rules, p) = rules[r].nonTerminal
      /\ SymbolAt(rules, p) = Right(r)[1]
      /\ SymbolAt(rules, p) \in LeftSides(rules) \cup Terminals(rules)
  BY <1>2, <1>4, <1>5, PlaceFacts, SymbolAtIs DEF Right
<1>8. /\ terminals = Terminals(rules) /\ nonTerminals = LeftSides(rules)
      /\ EPSILON \notin terminals
  BY SameTerminals, Zenon DEF terminals, nonTerminals, LeftSides, TerminalsOf
<1> QED
  BY <1>4, <1>6, <1>7, <1>8

\* All that a rule can add is in First.
LEMMA StartsWithin ==
    ASSUME rules \in Grammars, NoEpsilon, NEW r \in DOMAIN rules,
           \A A \in nonTerminals : firsts[A] \subseteq Of(First(rules), A)
    PROVE  /\ Starts(r) \subseteq Of(First(rules), rules[r].nonTerminal)
           /\ EPSILON \notin Starts(r)
<1> DEFINE s == Right(r)[1]
<1>1. /\ <<r, 1>> \in FirstPlaces(rules)
      /\ LeftSide(rules, <<r, 1>>) = rules[r].nonTerminal
      /\ SymbolAt(rules, <<r, 1>>) = s
      /\ s \in nonTerminals \cup terminals
      /\ terminals = Terminals(rules) /\ EPSILON \notin terminals
  BY FirstSymbol
<1> HIDE DEF s
<1>2. ASSUME NEW t \in Starts(r)
      PROVE  t \in Terminals(rules) /\ t \in Of(First(rules), rules[r].nonTerminal)
  <2>1. t \in Terminals(rules) /\ <<s, t>> \in First(rules)
    <3>1. CASE s \in terminals
      <4>1. t = s
        BY <3>1 DEF Starts, SymbolFirsts, s
      <4> QED
        BY <1>1, <3>1, <4>1, FirstClosed
    <3>2. CASE s \notin terminals
      <4>1. t \in Of(First(rules), s)
        BY <1>1, <3>2 DEF Starts, SymbolFirsts, s
      <4>2. <<s, t>> \in First(rules)
        BY <4>1, OfFirst
      <4>3. t \in Terminals(rules)
        BY <4>2, FirstTypes DEF FirstPairs
      <4> QED
        BY <4>2, <4>3
    <3> QED
      BY <3>1, <3>2
  <2>2. <<rules[r].nonTerminal, t>> \in First(rules)
    BY <1>1, <2>1, FirstClosed, Zenon
  <2> QED
    BY <2>1, <2>2, OfFirst
<1> QED
  BY <1>1, <1>2

\* collected is defined by recursion, as found is; here nothing comes after the
\* first symbol.
LEMMA CollectedIs ==
    ASSUME rules \in Grammars, ruleIndex \in DOMAIN rules,
           EPSILON \notin Starts(ruleIndex)
    PROVE  LET A == rules[ruleIndex].nonTerminal
           IN /\ collected.firsts = [firsts EXCEPT ![A] = firsts[A] \cup Starts(ruleIndex)]
              /\ collected.result <=> ~ (Starts(ruleIndex) \subseteq firsts[A])
<1> DEFINE A == rules[ruleIndex].nonTerminal
           dev == rule.development
           L == Len(dev)
           a == [firsts |-> firsts, result |-> FALSE, more |-> TRUE]
           b == [firsts |-> [firsts EXCEPT ![A] = firsts[A] \cup Starts(ruleIndex)],
                 result |-> (~ (Starts(ruleIndex) \subseteq firsts[A]))
                              \/ (FALSE /\ dev[1] \notin terminals),
                 more |-> EPSILON \in Starts(ruleIndex)]
           Is(f) == f = [k \in 0 .. L |-> IF k = 0 THEN a
                                            ELSE CollectSymbol(f[k - 1], dev[k])]
           K == CHOOSE f : Is(f)
<1>1. dev = Right(ruleIndex) /\ L \in Nat \ {0} /\ rule.nonTerminal = A
  BY GrammarFacts DEF rule, Right
<1>2. collected = K[L]
  BY DEF collected
<1>3. CollectSymbol(a, dev[1]) = b
  <2>1. /\ a.firsts = firsts /\ a.result = FALSE /\ a.more = TRUE
    OBVIOUS
  <2> HIDE DEF a
  <2>2. (IF dev[1] \in terminals THEN {dev[1]} ELSE a.firsts[dev[1]]) = Starts(ruleIndex)
    BY <1>1, <2>1, Zenon DEF Starts, SymbolFirsts
  <2>3. CollectSymbol(a, dev[1])
          = [firsts |-> [firsts EXCEPT ![A] = firsts[A] \cup Starts(ruleIndex)],
             result |-> (~ (Starts(ruleIndex) \subseteq firsts[A]))
                          \/ (FALSE /\ dev[1] \notin terminals),
             more |-> EPSILON \in Starts(ruleIndex)]
    BY <1>1, <2>1, <2>2 DEF CollectSymbol
  <2> QED
    BY <2>3, Zenon
<1>4. \A s : CollectSymbol(b, s) = b
  <2>1. ~ b.more
    OBVIOUS
  <2> HIDE DEF b
  <2> QED
    BY <2>1 DEF CollectSymbol
<1> HIDE DEF a, b, dev, L
<1>5. \E f : Is(f)
  <2> DEFINE f == [k \in 0 .. L |-> IF k = 0 THEN a ELSE b]
             g == [k \in 0 .. L |-> IF k = 0 THEN a ELSE CollectSymbol(f[k - 1], dev[k])]
  <2>1. ASSUME NEW k \in 0 .. L PROVE f[k] = g[k]
    <3>1. CASE k = 0
      BY <3>1
    <3>2. CASE k = 1
      <4>1. 0 \in 0 .. L /\ k - 1 = 0 /\ k # 0
        BY <1>1, <3>2
      <4>2. f[k - 1] = a /\ f[k] = b /\ g[k] = CollectSymbol(f[k - 1], dev[k])
        BY <4>1, Zenon
      <4> QED
        BY <1>3, <3>2, <4>2
    <3>3. CASE k # 0 /\ k # 1
      <4>1. k - 1 \in 0 .. L /\ k - 1 # 0
        BY <1>1, <3>3
      <4>2. f[k - 1] = b /\ f[k] = b /\ g[k] = CollectSymbol(f[k - 1], dev[k])
        BY <3>3, <4>1, Zenon
      <4> QED
        BY <1>4, <4>2
    <3> QED
      BY <3>1, <3>2, <3>3
  <2>2. f = g
    BY <2>1, Zenon
  <2> QED
    BY <2>2, Zenon
<1>6. K = [k \in 0 .. L |-> IF k = 0 THEN a ELSE CollectSymbol(K[k - 1], dev[k])]
  BY <1>5, Zenon
<1> HIDE DEF K
<1>7. \A k \in 0 .. L : K[k] = IF k = 0 THEN a ELSE CollectSymbol(K[k - 1], dev[k])
  BY <1>6, Zenon
<1>8. \A k \in 0 .. L : k = 0 \/ K[k] = b
  <2> DEFINE bad == {k \in 0 .. L : ~ (k = 0 \/ K[k] = b)}
  <2> SUFFICES ASSUME bad # {} PROVE FALSE
    OBVIOUS
  <2>1. bad \subseteq 0 .. L /\ 0 \notin bad
    OBVIOUS
  <2> HIDE DEF bad
  <2>2. PICK k \in bad : k # 0 /\ k - 1 \in 0 .. L /\ k - 1 \notin bad
    BY <1>1, <2>1, FailsFirst
  <2>3. k \in 0 .. L /\ K[k] # b /\ (k - 1 = 0 \/ K[k - 1] = b)
    BY <2>2 DEF bad
  <2>4. K[k] = CollectSymbol(K[k - 1], dev[k])
    BY <1>7, <2>2, <2>3
  <2>5. CASE k - 1 = 0
    <3>1. k = 1 /\ 0 \in 0 .. L
      BY <2>3, <2>5, <1>1
    <3>2. K[0] = a
      BY <1>7, <3>1
    <3> QED
      BY <1>3, <2>3, <2>4, <2>5, <3>1, <3>2
  <2>6. CASE K[k - 1] = b
    BY <1>4, <2>3, <2>4, <2>6
  <2> QED
    BY <2>3, <2>5, <2>6
<1>9. collected = b
  BY <1>1, <1>2, <1>8
<1> QED
  BY <1>9 DEF b

LEMMA FirstsOfRuleKeeps ==
    ASSUME Loops, FirstsServed, NoEpsilon, FirstsOfRule
    PROVE  FirstsServed'
<1>0. rules \in Grammars
  BY DEF Loops
<1>1. /\ phase = "firsts" /\ phase' = "firsts" /\ rules' = rules
      /\ ruleIndex' = ruleIndex + 1 /\ ruleIndex \in Nat \ {0}
      /\ firsts' = collected.firsts /\ notDone' = (collected.result \/ notDone)
      /\ ruleIndex <= Len(rules)
  BY DEF FirstsOfRule, Loops
<1>2. ruleIndex \in DOMAIN rules
  BY <1>0, <1>1, GrammarFacts
<1>3. /\ IsFunction(firsts) /\ DOMAIN firsts = alphabet \cup {EPSILON}
      /\ \A A \in nonTerminals : firsts[A] \subseteq Of(First(rules), A)
      /\ ~ notDone => \A r \in DOMAIN rules :
           r < ruleIndex => Starts(r) \subseteq firsts[rules[r].nonTerminal]
  BY <1>1 DEF FirstsServed
<1> DEFINE A == rules[ruleIndex].nonTerminal
<1>4. /\ firsts' = [firsts EXCEPT ![A] = firsts[A] \cup Starts(ruleIndex)]
      /\ collected.result <=> ~ (Starts(ruleIndex) \subseteq firsts[A])
      /\ Starts(ruleIndex) \subseteq Of(First(rules), A)
  BY <1>0, <1>1, <1>2, <1>3, StartsWithin, CollectedIs
<1>5. /\ nonTerminals' = nonTerminals /\ alphabet' = alphabet
      /\ terminals' = terminals
  BY <1>1 DEF nonTerminals, alphabet, terminals, TerminalsOf
<1>6. A \in nonTerminals
  BY <1>2 DEF nonTerminals
<1>7. IsFunction(firsts)' /\ DOMAIN firsts' = alphabet' \cup {EPSILON}
  BY <1>3, <1>4, <1>5 DEF IsFunction
<1>8. \A B \in nonTerminals : firsts'[B] \subseteq Of(First(rules), B)
  <2>1. A \in DOMAIN firsts
    BY <1>3, <1>6 DEF alphabet
  <2> QED
    BY <1>3, <1>4, <1>7, <2>1 DEF IsFunction
<1>9. ASSUME ~ notDone', NEW r \in DOMAIN rules, r < ruleIndex'
      PROVE  Starts(r)' \subseteq firsts'[rules[r].nonTerminal]
  <2>1. ~ notDone /\ Starts(ruleIndex) \subseteq firsts[A]
    BY <1>1, <1>4, <1>9
  <2>2. firsts' = firsts
    <3>1. firsts[A] \cup Starts(ruleIndex) = firsts[A]
      BY <2>1
    <3>2. firsts' = [firsts EXCEPT ![A] = firsts[A]]
      BY <1>4, <3>1, Zenon
    <3> QED
      BY <1>3, <3>2 DEF IsFunction
  <2>3. Starts(r)' = Starts(r)
    BY <1>1, <1>5, <2>2 DEF Starts, SymbolFirsts, Right
  <2>4. r \in Nat
    BY <1>0, GrammarFacts
  <2>5. r < ruleIndex \/ r = ruleIndex
    BY <1>1, <1>9, <2>4
  <2> QED
    BY <1>3, <2>1, <2>2, <2>3, <2>5
<1> QED
  BY <1>1, <1>5, <1>7, <1>8, <1>9 DEF FirstsServed

\* The rest leaves FIRST alone, and begins no other pass before it.
LEMMA FirstsServedKept ==
    ASSUME Loops, FirstsServed, rules' = rules, firsts' = firsts,
           \/ FirstsPassEnds
           \/ phase # "firsts" /\ phase' # "firsts"
           \/ phase' = phase /\ ruleIndex' = ruleIndex /\ notDone' = notDone
    PROVE  FirstsServed'
<1>1. /\ nonTerminals' = nonTerminals /\ alphabet' = alphabet
      /\ NoEpsilon' = NoEpsilon /\ \A r : Starts(r)' = Starts(r)
  BY DEF nonTerminals, alphabet, terminals, TerminalsOf, NoEpsilon, Starts,
         SymbolFirsts, Right, IsEpsilonRule
<1> SUFFICES ASSUME NoEpsilon
             PROVE  phase' # "firsts" \/ ~ notDone' =>
                      \A r \in DOMAIN rules :
                        (phase' = "firsts" => r < ruleIndex')
                          => Starts(r) \subseteq firsts[rules[r].nonTerminal]
  BY <1>1, Zenon DEF FirstsServed, IsFunction
<1>2. phase # "firsts" \/ ~ notDone =>
        \A r \in DOMAIN rules :
          (phase = "firsts" => r < ruleIndex)
            => Starts(r) \subseteq firsts[rules[r].nonTerminal]
  BY DEF FirstsServed
<1>3. rules \in Grammars
  BY DEF Loops
<1>4. CASE FirstsPassEnds
  <2>1. /\ phase = "firsts" /\ ruleIndex > Len(rules) /\ ruleIndex' = 1
        /\ ruleIndex \in Nat
    BY <1>4 DEF FirstsPassEnds, Loops
  <2>2. \A r \in DOMAIN rules : r < ruleIndex /\ ~ (r < 1)
    <3>1. DOMAIN rules = 1 .. Len(rules) /\ Len(rules) \in Nat
      BY <1>3, GrammarFacts
    <3> QED
      BY <2>1, <3>1
  <2>3. CASE notDone
    BY <1>4, <2>1, <2>2, <2>3 DEF FirstsPassEnds
  <2>4. CASE ~ notDone
    BY <1>2, <2>2, <2>4
  <2> QED
    BY <2>3, <2>4
<1>5. CASE phase # "firsts" /\ phase' # "firsts"
  BY <1>2, <1>5
<1>6. CASE phase' = phase /\ ruleIndex' = ruleIndex /\ notDone' = notDone
  BY <1>2, <1>6
<1> QED
  BY <1>4, <1>5, <1>6

\* At the end, FIRST holds what First infers, and nothing else.
LEMMA FirstsServedIsExact ==
    ASSUME Loops, FirstsServed
    PROVE  FirstsExact
<1> SUFFICES ASSUME phase # "firsts", NoEpsilon, NEW A \in nonTerminals
             PROVE  firsts[A] = Of(First(rules), A)
  BY Zenon DEF FirstsExact, NoEpsilon, FirstOf, Loops
<1>1. rules \in Grammars
  BY DEF Loops
<1>2. /\ firsts[A] \subseteq Of(First(rules), A)
      /\ \A r \in DOMAIN rules : Starts(r) \subseteq firsts[rules[r].nonTerminal]
  BY DEF FirstsServed
<1>3. /\ terminals = Terminals(rules) /\ nonTerminals = LeftSides(rules)
      /\ Nullable(rules) = {}
  BY <1>1, SameTerminals, NullableLeft, Zenon
     DEF terminals, nonTerminals, LeftSides, NoEpsilon
<1> DEFINE N == LeftSides(rules)
           S == {f \in FirstPairs(rules) : f[1] \in N => f[2] \in firsts[f[1]]}
<1>4. \A t \in Terminals(rules) : <<t, t>> \in S
  BY DEF FirstPairs, Terminals
<1>5. ASSUME NEW p \in FirstPlaces(rules), NEW t \in Terminals(rules),
             <<SymbolAt(rules, p), t>> \in S
      PROVE  <<LeftSide(rules, p), t>> \in S
  <2> DEFINE r == p[1]
  <2>1. p \in Places(rules) /\ Vanish(rules, r, 0, p[2])
    BY DEF FirstPlaces
  <2>2. /\ r \in DOMAIN rules /\ p[2] \in 1 .. Len(Right(r))
        /\ Len(Right(r)) \in Nat
        /\ SymbolAt(rules, p) = Right(r)[p[2]]
        /\ LeftSide(rules, p) = rules[r].nonTerminal
    BY <1>1, <2>1, PlaceFacts, GrammarFacts DEF Right
  <2>3. LeftSide(rules, p) \in N
    BY <1>1, <2>1, SymbolAtIs
  <2> HIDE DEF r
  <2>4. p[2] = 1
    <3> SUFFICES ASSUME p[2] # 1 PROVE FALSE
      OBVIOUS
    <3>1. 1 \in 0 + 1 .. p[2] - 1
      BY <2>2
    <3> QED
      BY <1>3, <2>1, <3>1 DEF Vanish
  <2>5. t \in Starts(r)
    <3> DEFINE s == Right(r)[1]
    <3>1. <<s, t>> \in S
      BY <1>5, <2>2, <2>4
    <3>2. /\ s \in Terminals(rules) => s = t
          /\ s \in N => t \in firsts[s]
          /\ s \in N \cup Terminals(rules)
      BY <3>1 DEF FirstPairs
    <3> QED
      BY <1>3, <3>2 DEF Starts, SymbolFirsts
  <2>6. t \in firsts[LeftSide(rules, p)]
    BY <1>2, <2>2, <2>5
  <2>7. LeftSide(rules, p) \notin Terminals(rules)
    BY <2>3 DEF Terminals
  <2> QED
    BY <2>3, <2>6, <2>7 DEF FirstPairs
<1> HIDE DEF S
<1>6. First(rules) \subseteq S
  BY <1>1, <1>4, <1>5, FirstWithin
<1>7. ASSUME NEW t \in Of(First(rules), A) PROVE t \in firsts[A]
  <2>1. <<A, t>> \in S
    BY <1>1, <1>6, OfFirst
  <2> QED
    BY <1>3, <2>1 DEF S
<1> QED
  BY <1>2, <1>7

LEMMA FirstsServedInit ==
    ASSUME GrammarInit
    PROVE  FirstsServed
<1>1. rules \in Grammars /\ phase = "firsts" /\ ruleIndex = 1
      /\ firsts = [s \in alphabet \cup {EPSILON} |-> {}]
  BY DEF GrammarInit
<1>2. \A A \in nonTerminals : firsts[A] = {}
  BY <1>1 DEF alphabet
<1>3. \A r \in DOMAIN rules : ~ (r < 1)
  BY <1>1, GrammarFacts
<1>4. IsFunction(firsts) /\ DOMAIN firsts = alphabet \cup {EPSILON}
  BY <1>1 DEF IsFunction
<1> QED
  BY <1>1, <1>2, <1>3, <1>4 DEF FirstsServed

\* The FIRST sets of a grammar without empty rules are exact, in whatever order
\* its rules are listed.
THEOREM FirstsAlwaysExact == ParserSpec => []FirstsExact
<1> DEFINE Next == Build \/ Parse \/ ParserStep \/ ClientStep
           vars == <<phase, grammarVars, kernelVars, parserVars>>
           Inv == Loops /\ FollowsServed /\ FirstsServed
<1>1. GrammarInit /\ KernelInit /\ ParserInit => Inv
  BY LoopsInit, FirstsServedInit
<1>2. Inv /\ [Next]_vars => Inv'
  <2> SUFFICES ASSUME Inv, [Next]_vars PROVE Inv'
    OBVIOUS
  <2>1. CASE GrammarStep
    <3>1. Loops' /\ FollowsServed'
      BY <2>1, LoopsKept, FollowsOfSymbolKeeps, PassEndsKeeps DEF GrammarStep
    <3>2. CASE FirstsOfEpsilonRule
      <4>1. ~ NoEpsilon'
        <5>1. /\ rules' = rules /\ ruleIndex <= Len(rules)
              /\ IsEpsilonRule(rules[ruleIndex]) /\ ruleIndex \in Nat \ {0}
              /\ rules \in Grammars
          BY <3>2 DEF FirstsOfEpsilonRule, rule, Loops
        <5>2. ruleIndex \in DOMAIN rules
          BY <5>1, GrammarFacts
        <5> QED
          BY <5>1, <5>2 DEF NoEpsilon, IsEpsilonRule
      <4> QED
        BY <3>1, <4>1 DEF FirstsServed
    <3>3. CASE FirstsOfRule
      <4>1. NoEpsilon' = NoEpsilon
        BY <3>3 DEF FirstsOfRule, NoEpsilon, IsEpsilonRule
      <4> QED
        BY <3>1, <3>3, <4>1, FirstsOfRuleKeeps DEF FirstsServed
    <3>4. CASE FirstsPassEnds
      BY <3>1, <3>4, FirstsServedKept DEF FirstsPassEnds
    <3>5. CASE FollowsOfSymbol \/ FollowsRuleEnds \/ FollowsPassEnds
      <4>1. rules' = rules /\ firsts' = firsts /\ phase # "firsts" /\ phase' # "firsts"
        BY <3>5 DEF FollowsOfSymbol, FollowsRuleEnds, FollowsPassEnds
      <4> QED
        BY <3>1, <4>1, FirstsServedKept
    <3> QED
      BY <2>1, <3>2, <3>3, <3>4, <3>5 DEF GrammarStep
  <2>2. CASE KernelStep
    <3>1. UNCHANGED grammarVars /\ {phase, phase'} \cap {"firsts", "follows"} = {}
      BY <2>2, BuiltLater
    <3>2. Loops' /\ FollowsServed'
      BY <3>1, SetsKept
    <3>3. FirstsServed'
      BY <3>1, FirstsServedKept DEF grammarVars
    <3> QED
      BY <3>2, <3>3
  <2>3. CASE Parse \/ ParserStep \/ ClientStep \/ UNCHANGED vars
    <3>1. phase' = phase /\ UNCHANGED grammarVars
      BY <2>3, OthersKeepSets
    <3>2. Loops' /\ FollowsServed'
      BY <3>1, SetsKept
    <3>3. FirstsServed'
      BY <3>1, FirstsServedKept DEF grammarVars
    <3> QED
      BY <3>2, <3>3
  <2> QED
    BY <2>1, <2>2, <2>3 DEF Build
<1>3. Inv => FirstsExact
  BY FirstsServedIsExact
<1> QED
  BY <1>1, <1>2, <1>3, PTL DEF ParserSpec
-----------------------------------------------------------------------------
\* What Joined and Sentences define by recursion, and the recursions exist.
Extended(L, X, max, S) ==
    {s \in {p[1] \o p[2] : p \in S \X Of(L, X)} : Len(s) <= max}

IsJoined(joined, L, body, max) ==
    joined = [k \in 0 .. Len(body) |->
                IF k = 0 THEN {<<>>} ELSE Extended(L, body[k], max, joined[k - 1])]

LEMMA JoinedRecursion ==
    ASSUME NEW L, NEW body, NEW max, Len(body) \in Nat
    PROVE  \E joined : /\ IsJoined(joined, L, body, max)
                       /\ Joined(L, body, max) = joined[Len(body)]
<1> DEFINE N == Len(body)
           next(S, k) == Extended(L, body[k], max, S)
           Is(f, l) == f = [n \in 0 .. l |-> IF n = 0 THEN {<<>>} ELSE next(f[n - 1], n)]
           bad == {l \in 0 .. N : ~ \E f : Is(f, l)}
           K == CHOOSE f : Is(f, N)
<1>0. Joined(L, body, max) = K[N]
  BY DEF Joined, Extended
<1> HIDE DEF next
<1>1. \E f : Is(f, 0)
  <2> DEFINE g == [n \in 0 .. 0 |-> {<<>>}]
  <2>1. \A n \in 0 .. 0 : n = 0
    OBVIOUS
  <2>2. g = [n \in 0 .. 0 |-> IF n = 0 THEN {<<>>} ELSE next(g[n - 1], n)]
    BY <2>1, Zenon
  <2> QED
    BY <2>2
<1>2. ASSUME NEW l \in Nat \ {0}, NEW f, Is(f, l - 1)
      PROVE  \E g : Is(g, l)
  <2> DEFINE g == [n \in 0 .. l |-> IF n = l THEN next(f[l - 1], l) ELSE f[n]]
             h == [n \in 0 .. l |-> IF n = 0 THEN {<<>>} ELSE next(g[n - 1], n)]
  <2>1. ASSUME NEW n \in 0 .. l PROVE g[n] = h[n]
    <3>1. h[n] = IF n = 0 THEN {<<>>} ELSE next(g[n - 1], n)
      BY Zenon
    <3>2. CASE n = 0
      <4>1. 0 \in 0 .. l - 1 /\ n # l
        BY <3>2
      <4>2. g[n] = f[0] /\ f[0] = {<<>>}
        BY <1>2, <3>2, <4>1, Zenon
      <4> QED
        BY <3>1, <3>2, <4>2
    <3>3. CASE n # 0
      <4>1. n - 1 \in 0 .. l /\ n - 1 # l /\ (n # l => n \in 0 .. l - 1)
        BY <3>3
      <4>2. g[n - 1] = f[n - 1]
        BY <4>1, Zenon
      <4>3. g[n] = next(f[n - 1], n)
        BY <1>2, <3>3, <4>1, Zenon
      <4> QED
        BY <3>1, <3>3, <4>2, <4>3
    <3> QED
      BY <3>2, <3>3, Zenon
  <2>2. g = h
    BY <2>1, Zenon
  <2>3. Is(g, l)
    BY <2>2, Zenon
  <2> HIDE DEF Is
  <2> QED
    BY <2>3, Zenon
<1>3. bad = {}
  <2> HIDE DEF Is
  <2> SUFFICES ASSUME bad # {} PROVE FALSE
    OBVIOUS
  <2>1. bad \subseteq 0 .. N /\ 0 \notin bad
    BY <1>1
  <2>2. PICK l \in bad : l # 0 /\ l - 1 \in 0 .. N /\ l - 1 \notin bad
    BY <2>1, FailsFirst
  <2>3. PICK f : Is(f, l - 1)
    BY <2>2
  <2>4. l \in Nat \ {0}
    BY <2>1, <2>2
  <2> QED
    BY <1>2, <2>2, <2>3, <2>4
<1>4. Is(K, N)
  <2> HIDE DEF Is, N
  <2>1. N \in 0 .. N
    BY DEF N
  <2>2. \E f : Is(f, N)
    BY <1>3, <2>1
  <2> QED
    BY <2>2, Zenon
<1>5. IsJoined(K, L, body, max)
  BY <1>4, Zenon DEF IsJoined, next
<1> HIDE DEF K
<1> QED
  BY <1>0, <1>5, Zenon

\* The pairs that the rounds may add, and how many they are.
Pairs(R, max) == LeftSides(R) \X SeqOf(Terminals(R), max)

Alone(R) == {<<t, <<t>>>> : t \in Terminals(R)}

IsGrown(grown, R, max, N) ==
    grown = [n \in 0 .. N |->
               IF n = 0 THEN Alone(R) ELSE Grown(R, max, grown[n - 1])]

LEMMA GrownRecursion ==
    ASSUME NEW R, NEW max, NEW C \in Nat, C = Cardinality(Pairs(R, max))
    PROVE  \E grown :
             /\ IsGrown(grown, R, max, C + 1)
             /\ Sentences(R, max) =
                  grown[CHOOSE n \in 0 .. C : grown[n + 1] = grown[n]]
<1> DEFINE N == C + 1
           next(S) == Grown(R, max, S)
           Is(f, l) == f = [n \in 0 .. l |-> IF n = 0 THEN Alone(R) ELSE next(f[n - 1])]
           bad == {l \in 0 .. N : ~ \E f : Is(f, l)}
           K == CHOOSE f : Is(f, N)
<1>0. Sentences(R, max) = K[CHOOSE n \in 0 .. C : K[n + 1] = K[n]]
  BY DEF Sentences, Alone, Pairs
<1> HIDE DEF next
<1>1. \E f : Is(f, 0)
  <2> DEFINE g == [n \in 0 .. 0 |-> Alone(R)]
  <2>1. \A n \in 0 .. 0 : n = 0
    OBVIOUS
  <2>2. g = [n \in 0 .. 0 |-> IF n = 0 THEN Alone(R) ELSE next(g[n - 1])]
    BY <2>1, Zenon
  <2> QED
    BY <2>2
<1>2. ASSUME NEW l \in Nat \ {0}, NEW f, Is(f, l - 1)
      PROVE  \E g : Is(g, l)
  <2> DEFINE g == [n \in 0 .. l |-> IF n = l THEN next(f[l - 1]) ELSE f[n]]
             h == [n \in 0 .. l |-> IF n = 0 THEN Alone(R) ELSE next(g[n - 1])]
  <2>1. ASSUME NEW n \in 0 .. l PROVE g[n] = h[n]
    <3>1. h[n] = IF n = 0 THEN Alone(R) ELSE next(g[n - 1])
      BY Zenon
    <3>2. CASE n = 0
      <4>1. 0 \in 0 .. l - 1 /\ n # l
        BY <3>2
      <4>2. g[n] = f[0] /\ f[0] = Alone(R)
        BY <1>2, <3>2, <4>1, Zenon
      <4> QED
        BY <3>1, <3>2, <4>2
    <3>3. CASE n # 0
      <4>1. n - 1 \in 0 .. l /\ n - 1 # l /\ (n # l => n \in 0 .. l - 1)
        BY <3>3
      <4>2. g[n - 1] = f[n - 1]
        BY <4>1, Zenon
      <4>3. g[n] = next(f[n - 1])
        BY <1>2, <3>3, <4>1, Zenon
      <4> QED
        BY <3>1, <3>3, <4>2, <4>3
    <3> QED
      BY <3>2, <3>3, Zenon
  <2>2. g = h
    BY <2>1, Zenon
  <2>3. Is(g, l)
    BY <2>2, Zenon
  <2> HIDE DEF Is
  <2> QED
    BY <2>3, Zenon
<1>3. bad = {}
  <2> HIDE DEF Is
  <2> SUFFICES ASSUME bad # {} PROVE FALSE
    OBVIOUS
  <2>1. bad \subseteq 0 .. N /\ 0 \notin bad /\ N \in Nat
    BY <1>1
  <2> HIDE DEF N, bad
  <2>2. PICK l \in bad : l # 0 /\ l - 1 \in 0 .. N /\ l - 1 \notin bad
    BY <2>1, FailsFirst
  <2>3. PICK f : Is(f, l - 1)
    BY <2>2 DEF bad
  <2>4. l \in Nat \ {0}
    BY <2>1, <2>2
  <2> QED
    BY <1>2, <2>2, <2>3, <2>4 DEF bad
<1>4. Is(K, N)
  <2> HIDE DEF Is
  <2>1. N \in 0 .. N
    OBVIOUS
  <2>2. \E f : Is(f, N)
    BY <1>3, <2>1
  <2> HIDE DEF N
  <2> QED
    BY <2>2, Zenon
<1>5. IsGrown(K, R, max, N)
  BY <1>4, Zenon DEF IsGrown, next
<1> HIDE DEF K
<1> QED
  BY <1>0, <1>5, Zenon

\* Strings of at most max terminals are sequences, and finitely many.
LEMMA StringsAre ==
    ASSUME NEW T, NEW max \in Nat
    PROVE  SeqOf(T, max) = {s \in Seq(T) : Len(s) <= max}
<1>1. ASSUME NEW s \in SeqOf(T, max) PROVE s \in Seq(T) /\ Len(s) <= max
  <2>1. PICK m \in 0 .. max : s \in [1 .. m -> T]
    BY DEF SeqOf
  <2>2. s \in Seq(T) /\ Len(s) = m
    BY <2>1, SeqDef, LenProperties
  <2> QED
    BY <2>2
<1>2. ASSUME NEW s \in Seq(T), Len(s) <= max PROVE s \in SeqOf(T, max)
  <2>1. s \in [1 .. Len(s) -> T] /\ Len(s) \in Nat
    BY LenProperties
  <2>2. Len(s) \in 0 .. max
    BY <1>2, <2>1
  <2> QED
    BY <2>1, <2>2 DEF SeqOf
<1> QED
  BY <1>1, <1>2

LEMMA StringsFinite ==
    ASSUME NEW T, IsFiniteSet(T), NEW max \in Nat
    PROVE  IsFiniteSet(SeqOf(T, max))
<1> DEFINE S == SeqOf(T, max)
           cells == (1 .. max) \X T
           cellsOf(s) == {<<k, s[k]>> : k \in DOMAIN s}
           f == [s \in S |-> cellsOf(s)]
<1>1. IsFiniteSet(SUBSET cells)
  <2>1. IsFiniteSet(1 .. max)
    BY FS_Interval
  <2>2. IsFiniteSet(cells)
    BY <2>1, FS_Product
  <2> QED
    BY <2>2, FS_SUBSET
<1>2. \A s \in S : s \in Seq(T) /\ Len(s) <= max
  BY StringsAre
<1>3. ASSUME NEW s \in S PROVE cellsOf(s) \in SUBSET cells
  <2>1. s \in Seq(T) /\ Len(s) <= max /\ Len(s) \in Nat /\ DOMAIN s = 1 .. Len(s)
    BY <1>2, LenProperties
  <2>2. ASSUME NEW k \in DOMAIN s PROVE k \in 1 .. max /\ s[k] \in T
    BY <2>1, ElementOfSeq
  <2> QED
    BY <2>2
<1>4. ASSUME NEW s \in S, NEW t \in S, cellsOf(s) = cellsOf(t) PROVE s = t
  <2>1. s \in Seq(T) /\ t \in Seq(T)
    BY <1>2
  <2>2. s = [k \in DOMAIN s |-> s[k]] /\ t = [k \in DOMAIN t |-> t[k]]
    BY <2>1, LenProperties
  <2>3. ASSUME NEW k \in DOMAIN s PROVE k \in DOMAIN t /\ s[k] = t[k]
    <3>1. <<k, s[k]>> \in cellsOf(t)
      BY <1>4
    <3> QED
      BY <3>1
  <2>4. ASSUME NEW k \in DOMAIN t PROVE k \in DOMAIN s
    <3>1. <<k, t[k]>> \in cellsOf(s)
      BY <1>4
    <3> QED
      BY <3>1
  <2>5. DOMAIN s = DOMAIN t
    BY <2>3, <2>4
  <2> HIDE DEF cellsOf
  <2> QED
    BY <2>2, <2>3, <2>5
<1>5. f \in Injection(S, SUBSET cells)
  <2> HIDE DEF S, cells, cellsOf
  <2>1. f \in [S -> SUBSET cells]
    BY <1>3
  <2>2. \A s, t \in S : f[s] = f[t] => s = t
    BY <1>4
  <2> QED
    BY <2>1, <2>2 DEF Injection, IsInjective
<1> HIDE DEF f, S, cells
<1>6. IsFiniteSet(S)
  BY <1>1, <1>5, FS_Injection
<1> QED
  BY <1>6 DEF S

\* What is put together of strings of terminals, and is short enough, is one.
LEMMA JoinedStrings ==
    ASSUME NEW L, NEW T, NEW max \in Nat, NEW body, Len(body) \in Nat,
           \A p \in L : p[2] \in Seq(T)
    PROVE  Joined(L, body, max) \subseteq SeqOf(T, max)
<1> DEFINE N == Len(body)
           S == {s \in Seq(T) : Len(s) <= max}
<1>1. PICK joined : /\ IsJoined(joined, L, body, max)
                    /\ Joined(L, body, max) = joined[N]
  BY JoinedRecursion
<1>2. \A k \in 0 .. N :
        joined[k] = IF k = 0 THEN {<<>>} ELSE Extended(L, body[k], max, joined[k - 1])
  BY <1>1, Zenon DEF IsJoined
<1>3. ASSUME NEW X, NEW U, U \subseteq S PROVE Extended(L, X, max, U) \subseteq S
  <2> SUFFICES ASSUME NEW s \in Extended(L, X, max, U) PROVE s \in S
    OBVIOUS
  <2>1. PICK p \in U \X Of(L, X) : s = p[1] \o p[2] /\ Len(s) <= max
    BY Zenon DEF Extended
  <2>2. p[1] \in Seq(T) /\ p[2] \in Seq(T)
    BY <1>3 DEF Of
  <2> QED
    BY <2>1, <2>2, ConcatProperties
<1>4. {<<>>} \subseteq S
  BY EmptySeq
<1> DEFINE bad == {k \in 0 .. N : ~ (joined[k] \subseteq S)}
<1>5. bad = {}
  <2> HIDE DEF S
  <2> SUFFICES ASSUME bad # {} PROVE FALSE
    OBVIOUS
  <2>1. bad \subseteq 0 .. N /\ 0 \notin bad
    BY <1>2, <1>4
  <2> HIDE DEF bad
  <2>2. PICK l \in bad : l # 0 /\ l - 1 \in 0 .. N /\ l - 1 \notin bad
    BY <2>1, FailsFirst
  <2>3. l \in 0 .. N /\ ~ (joined[l] \subseteq S) /\ joined[l - 1] \subseteq S
    BY <2>2 DEF bad
  <2>4. joined[l] = Extended(L, body[l], max, joined[l - 1])
    BY <1>2, <2>2, <2>3
  <2> QED
    BY <1>3, <2>3, <2>4, Zenon
<1>6. joined[N] \subseteq S
  <2> HIDE DEF S
  <2>1. N \in 0 .. N
    OBVIOUS
  <2> QED
    BY <1>5, <2>1
<1> QED
  BY <1>1, <1>6, StringsAre

\* The rounds end before the pairs do, with nothing left to add.
LEMMA SentenceRounds ==
    ASSUME NEW R \in Grammars, NEW max \in Nat
    PROVE  \E k \in Nat : \E grown :
             /\ Sentences(R, max) = grown[k] /\ Grown(R, max, grown[k]) = grown[k]
             /\ grown[0] = Alone(R)
             /\ \A n \in 1 .. k : grown[n] = Grown(R, max, grown[n - 1])
             /\ \A n \in 0 .. k : /\ Alone(R) \subseteq grown[n]
                                 /\ grown[n] \subseteq Alone(R) \cup Pairs(R, max)
<1> DEFINE T == Terminals(R)
           P == Pairs(R, max)
           C == Cardinality(P)
<1>0. IsFiniteSet(P)
  <2>1. IsFiniteSet(SeqOf(T, max))
    BY PlacesFinite, StringsFinite
  <2>2. IsFiniteSet(LeftSides(R))
    <3> DEFINE left == [r \in DOMAIN R |-> R[r].nonTerminal]
    <3>1. LeftSides(R) = {left[r] : r \in DOMAIN R}
      BY DEF LeftSides
    <3>2. DOMAIN left = DOMAIN R
      OBVIOUS
    <3> HIDE DEF left
    <3> QED
      BY <3>1, <3>2, PlacesFinite, ImageFinite
  <2> QED
    BY <2>1, <2>2, FS_Product DEF Pairs
<1>1. C \in Nat
  BY <1>0, FS_CardinalityType
<1>2. PICK grown : /\ IsGrown(grown, R, max, C + 1)
                   /\ Sentences(R, max) =
                        grown[CHOOSE n \in 0 .. C : grown[n + 1] = grown[n]]
  BY <1>1, GrownRecursion
<1>3. \A n \in 0 .. C + 1 :
        grown[n] = IF n = 0 THEN Alone(R) ELSE Grown(R, max, grown[n - 1])
  BY <1>2, Zenon DEF IsGrown
<1>4. \A n \in 0 .. C + 1 : n # 0 => n - 1 \in 0 .. C + 1
  BY <1>1
<1>5. \A n \in 0 .. C : n + 1 \in 0 .. C + 1 /\ n \in 0 .. C + 1
                        /\ grown[n + 1] = Grown(R, max, grown[n])
  <2> SUFFICES ASSUME NEW n \in 0 .. C
               PROVE  n + 1 \in 0 .. C + 1 /\ n \in 0 .. C + 1
                      /\ grown[n + 1] = Grown(R, max, grown[n])
    OBVIOUS
  <2>1. n + 1 \in 0 .. C + 1 /\ n + 1 # 0 /\ (n + 1) - 1 = n /\ n \in 0 .. C + 1
    BY <1>1
  <2> QED
    BY <1>3, <2>1
<1> HIDE DEF C
\* Every round adds pairs to what the symbols are alone.
<1> DEFINE Within(n) == Alone(R) \subseteq grown[n] /\ grown[n] \subseteq Alone(R) \cup P
<1>6. \A n \in 0 .. C + 1 : Within(n)
  <2> DEFINE bad == {n \in 0 .. C + 1 : ~ Within(n)}
  <2> SUFFICES ASSUME bad # {} PROVE FALSE
    OBVIOUS
  <2>1. bad \subseteq 0 .. C + 1 /\ 0 \notin bad /\ C + 1 \in Nat
    BY <1>1, <1>3
  <2> HIDE DEF bad
  <2>2. PICK l \in bad : l # 0 /\ l - 1 \in 0 .. C + 1 /\ l - 1 \notin bad
    BY <2>1, FailsFirst
  <2>3. l \in 0 .. C + 1 /\ ~ Within(l) /\ Within(l - 1)
    BY <2>2 DEF bad
  <2> DEFINE G == grown[l - 1]
  <2>4. grown[l] = Grown(R, max, G)
    BY <1>3, <2>2, <2>3
  <2>5. G \subseteq Alone(R) \cup P /\ Alone(R) \subseteq G
    BY <2>3
  <2> HIDE DEF G
  <2>6. \A p \in G : p[2] \in Seq(T)
    <3>1. \A p \in Alone(R) : p[2] \in Seq(T)
      <4> SUFFICES ASSUME NEW t \in T PROVE <<t, <<t>>>>[2] \in Seq(T)
        BY DEF Alone
      <4>1. <<t>> \in Seq(T)
        OBVIOUS
      <4> HIDE DEF T
      <4> QED
        BY <4>1
    <3>2. \A p \in P : p[2] \in Seq(T)
      BY StringsAre DEF Pairs
    <3> QED
      BY <2>5, <3>1, <3>2
  <2>7. ASSUME NEW r \in DOMAIN R, NEW s \in Joined(G, Body(R[r]), max)
        PROVE  <<R[r].nonTerminal, s>> \in P
    <3>1. Len(Body(R[r])) \in Nat
      BY GrammarFacts
    <3>2. s \in SeqOf(T, max)
      BY <2>6, <2>7, <3>1, JoinedStrings
    <3>3. R[r].nonTerminal \in LeftSides(R)
      BY DEF LeftSides
    <3> QED
      BY <3>2, <3>3 DEF Pairs
  <2>8. Grown(R, max, G) \subseteq G \cup P /\ G \subseteq Grown(R, max, G)
    BY <2>7 DEF Grown
  <2> QED
    BY <2>3, <2>4, <2>5, <2>8
<1> DEFINE New(n) == grown[n] \ Alone(R)
<1>7. \A n \in 0 .. C + 1 :
        IsFiniteSet(New(n)) /\ Cardinality(New(n)) \in 0 .. C
  <2> SUFFICES ASSUME NEW n \in 0 .. C + 1
               PROVE  IsFiniteSet(New(n)) /\ Cardinality(New(n)) \in 0 .. C
    OBVIOUS
  <2>1. New(n) \in SUBSET P
    BY <1>6
  <2> HIDE DEF New
  <2>2. IsFiniteSet(New(n)) /\ Cardinality(New(n)) <= C
    BY <1>0, <2>1, FS_Subset, Zenon DEF C
  <2>3. Cardinality(New(n)) \in Nat
    BY <2>2, FS_CardinalityType
  <2> QED
    BY <1>1, <2>2, <2>3
<1>8. \E n \in 0 .. C : grown[n + 1] = grown[n]
  <2> SUFFICES ASSUME \A n \in 0 .. C : grown[n + 1] # grown[n] PROVE FALSE
    OBVIOUS
  <2> DEFINE bad == {n \in 0 .. C + 1 : ~ (Cardinality(New(n)) >= n)}
  <2>1. bad = {}
    <3> SUFFICES ASSUME bad # {} PROVE FALSE
      OBVIOUS
    <3>1. 0 \in 0 .. C + 1 /\ C + 1 \in Nat
      BY <1>1
    <3>2. bad \subseteq 0 .. C + 1 /\ 0 \notin bad
      <4>1. Cardinality(New(0)) >= 0
        BY <1>1, <1>7, <3>1
      <4> QED
        BY <4>1
    <3> HIDE DEF bad
    <3>3. PICK l \in bad : l # 0 /\ l - 1 \in 0 .. C + 1 /\ l - 1 \notin bad
      BY <3>1, <3>2, FailsFirst
    <3>4. l \in 0 .. C + 1 /\ ~ (Cardinality(New(l)) >= l)
          /\ Cardinality(New(l - 1)) >= l - 1
      BY <3>3 DEF bad
    <3>5. l - 1 \in 0 .. C /\ (l - 1) + 1 = l
      BY <1>1, <3>3, <3>4
    <3>6. grown[l] # grown[l - 1] /\ grown[l] = Grown(R, max, grown[l - 1])
      BY <1>5, <3>5
    <3>7. New(l - 1) \in SUBSET New(l) /\ New(l - 1) # New(l)
      <4>1. grown[l - 1] \subseteq grown[l]
        BY <3>6 DEF Grown
      <4>2. Alone(R) \subseteq grown[l - 1]
        BY <1>6, <3>3
      <4> QED
        BY <3>6, <4>1, <4>2
    <3> HIDE DEF New
    <3>8. /\ Cardinality(New(l - 1)) <= Cardinality(New(l))
          /\ Cardinality(New(l - 1)) # Cardinality(New(l))
      BY <1>7, <3>4, <3>7, FS_Subset, Zenon
    <3>9. Cardinality(New(l - 1)) \in Int /\ Cardinality(New(l)) \in Int
      BY <1>1, <1>7, <3>3, <3>4
    <3> QED
      BY <1>1, <3>4, <3>8, <3>9
  <2>2. C + 1 \in 0 .. C + 1 /\ ~ (C >= C + 1)
    BY <1>1
  <2>3. Cardinality(New(C + 1)) >= C + 1 /\ Cardinality(New(C + 1)) \in 0 .. C
    BY <1>7, <2>1, <2>2
  <2> HIDE DEF New
  <2> QED
    BY <1>1, <2>3
<1>9. PICK k \in 0 .. C : grown[k + 1] = grown[k] /\ Sentences(R, max) = grown[k]
  BY <1>2, <1>8, Zenon
<1>10. k \in Nat /\ \A n \in 0 .. k : n \in 0 .. C + 1
  BY <1>1
<1>11. Grown(R, max, grown[k]) = grown[k] /\ grown[0] = Alone(R)
  BY <1>1, <1>3, <1>5, <1>9
<1>12. \A n \in 1 .. k : grown[n] = Grown(R, max, grown[n - 1])
  <2> SUFFICES ASSUME NEW n \in 1 .. k PROVE grown[n] = Grown(R, max, grown[n - 1])
    OBVIOUS
  <2>1. n \in 0 .. C + 1 /\ n # 0
    BY <1>1
  <2> QED
    BY <1>3, <2>1
<1> QED
  BY <1>6, <1>9, <1>10, <1>11, <1>12

LEMMA SentencesClosed ==
    ASSUME NEW R \in Grammars, NEW max \in Nat
    PROVE  /\ Grown(R, max, Sentences(R, max)) = Sentences(R, max)
           /\ Alone(R) \subseteq Sentences(R, max)
<1>1. PICK k \in Nat : \E grown :
        /\ Sentences(R, max) = grown[k] /\ Grown(R, max, grown[k]) = grown[k]
        /\ \A n \in 0 .. k : Alone(R) \subseteq grown[n]
  BY SentenceRounds
<1> QED
  BY <1>1

\* The part of a word after a, up to b.
Section(w, a, b) == [k \in 1 .. b - a |-> w[a + k]]

LEMMA SectionIs ==
    ASSUME NEW V, NEW w \in Seq(V), NEW a \in Nat, NEW b \in Nat, a <= b, b <= Len(w)
    PROVE  Section(w, a, b) \in Seq(V) /\ Len(Section(w, a, b)) = b - a
<1> DEFINE s == Section(w, a, b)
           n == b - a
<1>1. n \in Nat
  OBVIOUS
<1>2. \A k \in 1 .. n : a + k \in 1 .. Len(w)
  BY LenProperties
<1>3. s = [k \in 1 .. n |-> w[a + k]]
  BY DEF Section
<1>4. \A k \in 1 .. Len(w) : w[k] \in V
  BY ElementOfSeq
<1> HIDE DEF s, n
<1>5. s \in [1 .. n -> V]
  BY <1>2, <1>3, <1>4
<1>6. s \in Seq(V) /\ DOMAIN s = 1 .. n
  BY <1>1, <1>5, SeqDef
<1>7. Len(s) = n
  BY <1>1, <1>6, LenProperties
<1> QED
  BY <1>6, <1>7 DEF s, n

LEMMA SectionsJoin ==
    ASSUME NEW V, NEW w \in Seq(V), NEW a \in Nat, NEW b \in Nat, NEW c \in Nat,
           a <= b, b <= c, c <= Len(w)
    PROVE  Section(w, a, b) \o Section(w, b, c) = Section(w, a, c)
<1> DEFINE s == Section(w, a, b)
           t == Section(w, b, c)
           u == Section(w, a, c)
<1>0. Len(w) \in Nat
  BY LenProperties
<1>1. s \in Seq(V) /\ Len(s) = b - a
  <2>1. b <= Len(w)
    BY <1>0
  <2> QED
    BY <2>1, SectionIs
<1>2. t \in Seq(V) /\ Len(t) = c - b
  BY SectionIs
<1>3. u \in Seq(V) /\ Len(u) = c - a
  <2>1. a <= c
    OBVIOUS
  <2> QED
    BY <2>1, SectionIs
<1>4. /\ \A k \in 1 .. b - a : s[k] = w[a + k]
      /\ \A k \in 1 .. c - b : t[k] = w[b + k]
      /\ \A k \in 1 .. c - a : u[k] = w[a + k]
  BY DEF Section
<1> HIDE DEF s, t, u
<1>5. /\ s \o t \in Seq(V) /\ Len(s \o t) = Len(s) + Len(t)
      /\ \A k \in 1 .. Len(s) + Len(t) :
           (s \o t)[k] = IF k <= Len(s) THEN s[k] ELSE t[k - Len(s)]
  BY <1>1, <1>2, ConcatProperties
<1>6. Len(s \o t) = c - a
  BY <1>1, <1>2, <1>5
<1>7. ASSUME NEW k \in 1 .. c - a PROVE (s \o t)[k] = u[k]
  <2>1. k \in 1 .. Len(s) + Len(t)
    BY <1>1, <1>2
  <2>2. CASE k <= b - a
    <3>1. k \in 1 .. b - a
      BY <2>2
    <3> QED
      BY <1>1, <1>4, <1>5, <2>1, <2>2, <3>1
  <2>3. CASE ~ (k <= b - a)
    <3>1. k - (b - a) \in 1 .. c - b /\ b + (k - (b - a)) = a + k
      BY <2>3
    <3>2. (s \o t)[k] = t[k - (b - a)]
      BY <1>1, <1>5, <2>1, <2>3
    <3>3. t[k - (b - a)] = w[a + k]
      BY <1>4, <3>1
    <3> QED
      BY <1>4, <3>2, <3>3
  <2> QED
    BY <2>2, <2>3
<1>8. s \o t = u
  BY <1>3, <1>5, <1>6, <1>7, SeqEqual, Zenon
<1> QED
  BY <1>8 DEF s, t, u

\* If the sections of a word between cuts are derived by the symbols of a rule,
\* the word is derived by its left side.
LEMMA RuleDerives ==
    ASSUME NEW R \in Grammars, NEW max \in Nat, NEW r \in DOMAIN R,
           NEW V, NEW w \in Seq(V), Len(w) <= max,
           NEW n \in Nat, n = Len(Body(R[r])), NEW cut \in [0 .. n -> Nat],
           \A i, j \in 0 .. n : i <= j => cut[i] <= cut[j],
           cut[n] <= Len(w),
           \A l \in 1 .. n :
             <<Body(R[r])[l], Section(w, cut[l - 1], cut[l])>> \in Sentences(R, max)
    PROVE  <<R[r].nonTerminal, Section(w, cut[0], cut[n])>> \in Sentences(R, max)
<1> DEFINE L == Sentences(R, max)
           body == Body(R[r])
<1>0. Len(w) \in Nat
  BY LenProperties
<1>1. PICK joined : /\ IsJoined(joined, L, body, max)
                    /\ Joined(L, body, max) = joined[n]
  BY JoinedRecursion
<1>2. \A k \in 0 .. n :
        joined[k] = IF k = 0 THEN {<<>>} ELSE Extended(L, body[k], max, joined[k - 1])
  BY <1>1, Zenon DEF IsJoined
<1>3. \A k \in 0 .. n : cut[k] \in Nat /\ cut[0] <= cut[k] /\ cut[k] <= Len(w)
  <2>1. 0 \in 0 .. n /\ n \in 0 .. n /\ \A k \in 0 .. n : 0 <= k /\ k <= n
    OBVIOUS
  <2>2. \A k \in 0 .. n : cut[k] \in Nat /\ cut[0] <= cut[k] /\ cut[k] <= cut[n]
    BY <2>1
  <2>3. cut[n] \in Nat
    BY <2>1
  <2> QED
    BY <1>0, <2>2, <2>3
<1> DEFINE bad == {k \in 0 .. n : Section(w, cut[0], cut[k]) \notin joined[k]}
<1>4. bad = {}
  <2> SUFFICES ASSUME bad # {} PROVE FALSE
    OBVIOUS
  <2>1. bad \subseteq 0 .. n
    OBVIOUS
  <2>2. 0 \notin bad
    <3>1. 0 \in 0 .. n
      OBVIOUS
    <3>2. joined[0] = {<<>>}
      BY <1>2, <3>1
    <3>3. PICK a \in Nat : a = cut[0] /\ a <= Len(w)
      BY <1>3, <3>1
    <3>4. Section(w, a, a) \in Seq(V) /\ Len(Section(w, a, a)) = 0
      <4>1. a <= a /\ a - a = 0
        OBVIOUS
      <4> QED
        BY <3>3, <4>1, SectionIs
    <3>5. Section(w, a, a) = <<>>
      BY <3>4, EmptySeq
    <3> QED
      BY <3>2, <3>3, <3>5
  <2> HIDE DEF bad
  <2>3. PICK l \in bad : l # 0 /\ l - 1 \in 0 .. n /\ l - 1 \notin bad
    BY <2>1, <2>2, FailsFirst
  <2>4. /\ l \in 0 .. n /\ l \in 1 .. n
        /\ Section(w, cut[0], cut[l]) \notin joined[l]
        /\ Section(w, cut[0], cut[l - 1]) \in joined[l - 1]
    BY <2>1, <2>3 DEF bad
  <2>5. joined[l] = Extended(L, body[l], max, joined[l - 1])
    BY <1>2, <2>3, <2>4
  <2>6. PICK a \in Nat, b \in Nat, c \in Nat :
          /\ a = cut[0] /\ b = cut[l - 1] /\ c = cut[l]
          /\ a <= b /\ b <= c /\ c <= Len(w)
    <3>1. l - 1 <= l
      BY <2>4
    <3>2. 0 \in 0 .. n
      OBVIOUS
    <3> QED
      BY <1>3, <2>3, <2>4, <3>1, <3>2
  <2>7. a <= b /\ b <= c /\ c <= Len(w) /\ a <= c
    BY <2>6
  <2>8. Section(w, a, b) \o Section(w, b, c) = Section(w, a, c)
    BY <2>7, SectionsJoin
  <2>9. Len(Section(w, a, c)) <= max
    <3>1. Len(Section(w, a, c)) = c - a
      BY <2>7, SectionIs
    <3> QED
      BY <1>0, <2>7, <3>1
  <2>10. <<body[l], Section(w, b, c)>> \in L
    BY <2>4, <2>6
  <2> HIDE DEF L, body
  <2>11. Section(w, b, c) \in Of(L, body[l])
    <3>1. PICK p : p = <<body[l], Section(w, b, c)>>
      OBVIOUS
    <3>2. p \in L /\ p[1] = body[l] /\ p[2] = Section(w, b, c)
      BY <2>10, <3>1
    <3> QED
      BY <3>2, Zenon DEF Of
  <2>12. Section(w, a, c) \in joined[l]
    <3>1. PICK p \in joined[l - 1] \X Of(L, body[l]) :
            p = <<Section(w, a, b), Section(w, b, c)>>
      BY <2>4, <2>6, <2>11
    <3>2. Section(w, a, c) = p[1] \o p[2]
      BY <2>8, <3>1
    <3> QED
      BY <2>5, <2>9, <3>1, <3>2, Zenon DEF Extended
  <2> QED
    BY <2>4, <2>6, <2>12
<1>5. Section(w, cut[0], cut[n]) \in Joined(L, body, max)
  <2>1. n \in 0 .. n
    OBVIOUS
  <2> QED
    BY <1>1, <1>4, <2>1
<1>6. PICK s : s = Section(w, cut[0], cut[n])
  OBVIOUS
<1> DEFINE derived(q) == {<<R[q].nonTerminal, x>> : x \in Joined(L, Body(R[q]), max)}
<1>7. <<R[r].nonTerminal, s>> \in derived(r)
  BY <1>5, <1>6
<1>8. Grown(R, max, L) = L \cup UNION {derived(q) : q \in DOMAIN R}
  BY DEF Grown
<1>9. Grown(R, max, L) = L
  BY SentencesClosed
<1> HIDE DEF L, derived
<1>10. <<R[r].nonTerminal, s>> \in L
  BY <1>7, <1>8, <1>9
<1> QED
  BY <1>6, <1>10 DEF L

-----------------------------------------------------------------------------
\* What is accepted.  The keys of the tokens, as a word.
keysOf == [k \in DOMAIN tokens |-> keyOf(tokens[k])]

\* Whatever an entry spells derives the part of the word between two cuts.
Stands(entry, a, b) ==
    \A X : Spells(entry, X) => <<X, Section(keysOf, a, b)>> \in SentencesOf[rules]

\* What was read is cut where the entries of the path begin.
IsCut(cut, depth) ==
    /\ cut \in [0 .. depth -> Nat]
    /\ cut[0] = 0 /\ cut[depth] = currIndex - 1
    /\ \A i, j \in 0 .. depth : i <= j => cut[i] <= cut[j]
    /\ \A m \in 0 .. depth - 1 : Stands(stack[bottom + 2 * m + 1], cut[m], cut[m + 1])

Derived ==
    /\ fed \in Nat
    /\ outcome = "parsing" =>
         /\ Len(tokens) <= MaxTokens
         /\ \A k \in 1 .. currIndex - 1 : keysOf[k] \in terminals
         /\ \E depth \in Nat : /\ Len(stack) = bottom + 2 * depth
                               /\ \E cut : IsCut(cut, depth)

LEMMA KeysAre ==
    ASSUME IsSeq(tokens)
    PROVE  /\ keysOf \in Seq(ToSet(keysOf)) /\ Len(keysOf) = Len(tokens)
           /\ Len(tokens) \in Nat
           /\ DOMAIN tokens = 1 .. Len(tokens) /\ DOMAIN keysOf = DOMAIN tokens
           /\ \A k \in 1 .. Len(tokens) : keysOf[k] = keyOf(tokens[k])
<1>1. Len(tokens) \in Nat /\ DOMAIN tokens = 1 .. Len(tokens)
  BY SeqFacts
<1>2. /\ DOMAIN keysOf = DOMAIN tokens
      /\ keysOf = [k \in DOMAIN keysOf |-> keysOf[k]]
      /\ \A k \in DOMAIN tokens : keysOf[k] = keyOf(tokens[k])
  BY DEF keysOf
<1>3. IsSeq(keysOf) /\ Len(keysOf) = Len(tokens)
  BY <1>2, Renewed, Zenon
<1> QED
  BY <1>1, <1>2, <1>3 DEF IsSeq

LEMMA StandsStill ==
    ASSUME NEW e, NEW a, NEW b, Stands(e, a, b), NEW m, NEW new,
           rules' = rules, tokens' = tokens, stack'[bottom' + 2 * m + 1] = e,
           new[m] = a, new[m + 1] = b
    PROVE  Stands(stack[bottom + 2 * m + 1], new[m], new[m + 1])'
<1>1. keysOf' = keysOf
  BY DEF keysOf, keyOf
<1>2. ASSUME NEW X, Spells(stack[bottom + 2 * m + 1], X)' PROVE Spells(e, X)
  BY <1>2 DEF Spells, Terminal, nullptr, IsEpsilonRule
<1> QED
  BY <1>1, <1>2, Zenon DEF Stands

\* One more entry behind d of them.
LEMMA CutExtended ==
    ASSUME bottom \in Nat \ {0}, NEW depth \in Nat, NEW cut, IsCut(cut, depth),
           NEW d \in 0 .. depth,
           \A j \in 1 .. bottom + 2 * d : stack'[j] = stack[j],
           bottom' = bottom, tokens' = tokens, rules' = rules,
           currIndex \in Nat \ {0}, currIndex' \in Nat, currIndex <= currIndex',
           Stands(stack'[bottom + 2 * d + 1], cut[d], currIndex' - 1)
    PROVE  \E new : IsCut(new, d + 1)'
<1>0. PICK n \in Nat : n = currIndex' - 1 /\ currIndex - 1 <= n
  OBVIOUS
<1>6. PICK new : new = [m \in 0 .. d + 1 |-> IF m = d + 1 THEN n ELSE cut[m]]
  OBVIOUS
<1>1. /\ d \in Nat
      /\ \A m \in 0 .. d + 1 : m # d + 1 => m \in 0 .. d /\ m \in 0 .. depth
      /\ \A m \in 0 .. depth : cut[m] \in Nat /\ cut[m] <= currIndex - 1
  <2>1. depth \in 0 .. depth /\ \A m \in 0 .. depth : m <= depth
    OBVIOUS
  <2>2. \A m \in 0 .. depth : cut[m] \in Nat /\ cut[m] <= cut[depth]
    BY <2>1 DEF IsCut
  <2> QED
    BY <2>2 DEF IsCut
<1>2. /\ new[d + 1] = n
      /\ \A m \in 0 .. d : new[m] = cut[m]
      /\ DOMAIN new = 0 .. d + 1
  <2>1. DOMAIN new = 0 .. d + 1
    BY <1>6
  <2>2. d + 1 \in 0 .. d + 1
    BY <1>1
  <2>3. new[d + 1] = n
    BY <1>6, <2>2
  <2>4. \A m \in 0 .. d : m \in 0 .. d + 1 /\ m # d + 1
    BY <1>1
  <2>5. \A m \in 0 .. d : new[m] = cut[m]
    BY <1>6, <2>4
  <2> QED
    BY <2>1, <2>3, <2>5
<1>3. new \in [0 .. d + 1 -> Nat]
  BY <1>1, <1>6
<1>4. new[0] = 0
  <2>1. 0 \in 0 .. d
    BY <1>1
  <2> QED
    BY <1>2, <2>1 DEF IsCut
<1>5. ASSUME NEW i \in 0 .. d + 1, NEW j \in 0 .. d + 1, i <= j PROVE new[i] <= new[j]
  <2>1. CASE j = d + 1
    <3>1. CASE i = d + 1
      BY <1>2, <2>1, <3>1
    <3>2. CASE i # d + 1
      <4>1. i \in 0 .. d /\ i \in 0 .. depth
        BY <1>1, <3>2
      <4>2. cut[i] \in Nat /\ cut[i] <= currIndex - 1 /\ new[i] = cut[i] /\ new[j] = n
        BY <1>1, <1>2, <2>1, <4>1
      <4> QED
        BY <1>0, <4>2
    <3> QED
      BY <3>1, <3>2
  <2>2. CASE j # d + 1
    <3>1. i \in 0 .. d /\ j \in 0 .. d /\ i \in 0 .. depth /\ j \in 0 .. depth
      BY <1>1, <1>5, <2>2
    <3> QED
      BY <1>2, <1>5, <3>1 DEF IsCut
  <2> QED
    BY <2>1, <2>2
<1>7. ASSUME NEW m \in 0 .. d
      PROVE  \E e, a, b : /\ Stands(e, a, b) /\ stack'[bottom' + 2 * m + 1] = e
                          /\ new[m] = a /\ new[m + 1] = b
  <2>1. CASE m = d
    <3>1. /\ stack'[bottom' + 2 * m + 1] = stack'[bottom + 2 * d + 1]
          /\ new[m] = cut[d] /\ new[m + 1] = n
      BY <1>2, <2>1
    <3> QED
      BY <1>0, <3>1
  <2>2. CASE m # d
    <3>1. /\ m \in 0 .. depth - 1 /\ m \in 0 .. d /\ m + 1 \in 0 .. d
          /\ bottom + 2 * m + 1 \in 1 .. bottom + 2 * d
      BY <1>1, <2>2
    <3>2. /\ stack'[bottom' + 2 * m + 1] = stack[bottom + 2 * m + 1]
          /\ new[m] = cut[m] /\ new[m + 1] = cut[m + 1]
      BY <1>2, <3>1
    <3>3. Stands(stack[bottom + 2 * m + 1], cut[m], cut[m + 1])
      BY <3>1 DEF IsCut
    <3> QED
      BY <3>2, <3>3
  <2> QED
    BY <2>1, <2>2
<1>8. ASSUME NEW m \in 0 .. (d + 1) - 1
      PROVE  Stands(stack[bottom + 2 * m + 1], new[m], new[m + 1])'
  <2>1. m \in 0 .. d
    BY <1>1
  <2> QED
    BY <1>7, <2>1, StandsStill, Zenon
<1>9. IsCut(new, d + 1)'
  BY <1>0, <1>2, <1>3, <1>4, <1>5, <1>8 DEF IsCut
<1> QED
  BY <1>9, Zenon

\* If a rule's symbols are on top of the path, what they stand for is derived by
\* its left side.
LEMMA RuleStands ==
    ASSUME Graph, IsSeq(tokens), Len(tokens) <= MaxTokens,
           currIndex \in 1 .. Len(tokens) + 1,
           NEW depth \in Nat, NEW cut, IsCut(cut, depth),
           NEW r \in DOMAIN rules, NEW n \in 0 .. depth, n = Len(Body(rules[r])),
           \A l \in 1 .. n : Spells(stack[bottom + 2 * (depth - l) + 1],
                                    Body(rules[r])[n - l + 1])
    PROVE  <<rules[r].nonTerminal, Section(keysOf, cut[depth - n], currIndex - 1)>>
             \in SentencesOf[rules]
<1> DEFINE sub == [i \in 0 .. n |-> cut[depth - n + i]]
           L == Sentences(rules, MaxTokens)
<1>1. keysOf \in Seq(ToSet(keysOf)) /\ Len(keysOf) = Len(tokens) /\ Len(tokens) \in Nat
  BY KeysAre
<1>2. rules \in Grammars /\ MaxTokens \in Nat /\ SentencesOf[rules] = L
  BY BoundAssumption DEF Graph, SentencesOf
<1>3. n \in Nat /\ \A i \in 0 .. n : depth - n + i \in 0 .. depth
  OBVIOUS
<1>4. sub \in [0 .. n -> Nat] /\ \A i \in 0 .. n : sub[i] = cut[depth - n + i]
  BY <1>3 DEF IsCut
<1>5. sub[0] = cut[depth - n] /\ sub[n] = currIndex - 1
  <2>1. 0 \in 0 .. n /\ n \in 0 .. n /\ depth - n + 0 = depth - n /\ depth - n + n = depth
    BY <1>3
  <2> QED
    BY <1>4, <2>1 DEF IsCut
<1> HIDE DEF sub, L
<1>6. ASSUME NEW i \in 0 .. n, NEW j \in 0 .. n, i <= j PROVE sub[i] <= sub[j]
  <2>1. depth - n + i \in 0 .. depth /\ depth - n + j \in 0 .. depth
        /\ depth - n + i <= depth - n + j
    BY <1>3, <1>6
  <2> QED
    BY <1>4, <2>1 DEF IsCut
<1>7. ASSUME NEW l \in 1 .. n
      PROVE  <<Body(rules[r])[l], Section(keysOf, sub[l - 1], sub[l])>> \in L
  <2>1. PICK m, i : m = depth - n + l - 1 /\ i = n - l + 1
    OBVIOUS
  <2>2. /\ m \in 0 .. depth - 1 /\ i \in 1 .. n /\ n - i + 1 = l
        /\ bottom + 2 * (depth - i) + 1 = bottom + 2 * m + 1
        /\ l - 1 \in 0 .. n /\ l \in 0 .. n
        /\ depth - n + (l - 1) = m /\ depth - n + l = m + 1
    <3>1. depth - i = m
      BY <1>3, <2>1
    <3> QED
      BY <1>3, <2>1, <3>1
  <2>3. Spells(stack[bottom + 2 * m + 1], Body(rules[r])[l])
    BY <2>2
  <2>4. sub[l - 1] = cut[m] /\ sub[l] = cut[m + 1]
    BY <1>4, <2>2
  <2>5. Stands(stack[bottom + 2 * m + 1], cut[m], cut[m + 1])
    BY <2>2 DEF IsCut
  <2> QED
    BY <1>2, <2>3, <2>4, <2>5, Zenon DEF Stands
<1>8. Len(keysOf) <= MaxTokens /\ sub[n] <= Len(keysOf)
  BY <1>1, <1>2, <1>5
<1>9. <<rules[r].nonTerminal, Section(keysOf, sub[0], sub[n])>> \in L
  BY <1>1, <1>2, <1>3, <1>4, <1>6, <1>7, <1>8, RuleDerives DEF L
<1> QED
  BY <1>2, <1>5, <1>9

\* What an entry that parse pushes spells.
LEMMA EntrySpells ==
    ASSUME NEW e, NEW X, Spells(e, X)
    PROVE  /\ \A key : e = Terminal(key) => X = key
           /\ \A v : e = ValueASTNode(v) => X = ID
           /\ \A r, children : e = InterASTNode(r, children) => X = rules[r].nonTerminal
           /\ e = nullptr => \E r \in DOMAIN rules :
                               rules[r].nonTerminal = X /\ IsEpsilonRule(rules[r])
<1>1. /\ \A key : Terminal(key).kind = "terminal" /\ Terminal(key).key = key
      /\ \A v : ValueASTNode(v).kind = "value"
      /\ \A r, children : /\ InterASTNode(r, children).kind = "inter"
                          /\ InterASTNode(r, children).rule = r
      /\ nullptr.kind = "null"
  BY DEF Terminal, ValueASTNode, InterASTNode, nullptr
<1>2. \/ e = Terminal(X)
      \/ e.kind = "value" /\ X = ID
      \/ e.kind = "inter" /\ X = rules[e.rule].nonTerminal
      \/ /\ e = nullptr
         /\ \E r \in DOMAIN rules :
              rules[r].nonTerminal = X /\ IsEpsilonRule(rules[r])
  BY DEF Spells
<1>3. e.kind = "terminal" => e = Terminal(X)
  BY <1>1, <1>2
<1>4. ASSUME NEW key, e = Terminal(key) PROVE X = key
  <2>1. e.kind = "terminal" /\ e.key = key
    BY <1>1, <1>4
  <2>2. e = Terminal(X) /\ Terminal(X).key = X
    BY <1>1, <1>3, <2>1
  <2> QED
    BY <2>1, <2>2
<1>5. ASSUME NEW v, e = ValueASTNode(v) PROVE X = ID
  <2>1. e.kind = "value" /\ Terminal(X).kind = "terminal"
    BY <1>1, <1>5
  <2> QED
    BY <1>1, <1>2, <2>1
<1>6. ASSUME NEW r, NEW children, e = InterASTNode(r, children)
      PROVE  X = rules[r].nonTerminal
  <2>1. e.kind = "inter" /\ e.rule = r /\ Terminal(X).kind = "terminal"
    BY <1>1, <1>6
  <2> QED
    BY <1>1, <1>2, <2>1
<1>7. ASSUME e = nullptr
      PROVE  \E r \in DOMAIN rules : rules[r].nonTerminal = X /\ IsEpsilonRule(rules[r])
  <2>1. e.kind = "null" /\ Terminal(X).kind = "terminal"
    BY <1>1, <1>7
  <2> QED
    BY <1>1, <1>2, <2>1
<1> QED
  BY <1>4, <1>5, <1>6, <1>7, Zenon

LEMMA InterSpells ==
    ASSUME NEW e, NEW X, Spells(e, X),
           NEW r, NEW children, e = InterASTNode(r, children)
    PROVE  X = rules[r].nonTerminal
  BY EntrySpells

\* The invariants while a parse runs, and the path they speak of.
LEMMA Running ==
    ASSUME IInv, Read, Derived, outcome = "parsing"
    PROVE  /\ phase = "ready" /\ bottom \in Nat \ {0} /\ Len(stack) \in Nat
           /\ IsSeq(stack) /\ IsSeq(tokens) /\ Len(tokens) \in Nat
           /\ currIndex \in 1 .. Len(tokens) + 1 /\ currIndex \in Nat \ {0}
           /\ Len(tokens) <= MaxTokens /\ rules \in Grammars
           /\ \E depth \in Nat : /\ IsPath(depth) /\ depth \in 0 .. Len(stack)
                                 /\ Len(stack) = bottom + 2 * depth
                                 /\ \E cut : IsCut(cut, depth)
<1>1. /\ phase = "ready" /\ IsSeq(stack) /\ IsSeq(tokens)
      /\ bottom \in 1 .. Len(stack) /\ currIndex \in 1 .. Len(tokens) + 1
      /\ Len(tokens) <= MaxTokens /\ rules \in Grammars
  BY DEF IInv, Graph, Pushed, Read, Derived
<1>2. Len(stack) \in Nat /\ Len(tokens) \in Nat
  BY <1>1, SeqFacts
<1>3. PICK d \in 0 .. Len(stack) : IsPath(d)
  BY DEF IInv, Pushed
<1>4. PICK depth \in Nat : Len(stack) = bottom + 2 * depth /\ \E cut : IsCut(cut, depth)
  BY DEF Derived
<1>5. Len(stack) = bottom + 2 * d /\ d \in Nat /\ bottom \in Nat \ {0}
  BY <1>1, <1>2, <1>3 DEF IsPath
<1>6. d = depth
  BY <1>4, <1>5
<1> QED
  BY <1>1, <1>2, <1>3, <1>4, <1>5, <1>6

LEMMA ShiftDerives ==
    ASSUME IInv, Read, Derived, shift PROVE Derived'
<1>1. outcome = "parsing" /\ currIndex <= Len(tokens)
  BY DEF shift, Does, Reads
<1>2. /\ phase = "ready" /\ bottom \in Nat \ {0} /\ Len(stack) \in Nat
      /\ IsSeq(stack) /\ IsSeq(tokens) /\ Len(tokens) \in Nat
      /\ currIndex \in Nat \ {0} /\ Len(tokens) <= MaxTokens /\ rules \in Grammars
  BY <1>1, Running
<1>3. PICK depth, cut :
        /\ depth \in Nat /\ IsPath(depth) /\ Len(stack) = bottom + 2 * depth /\ IsCut(cut, depth)
  BY <1>1, Running
<1> DEFINE entry == IF tokens[currIndex].type = "IDENTIFIER"
                      THEN ValueASTNode(currIndex) ELSE Terminal(token)
<1>4. PICK e, g : e = entry /\ g = Goto(action.n)
  OBVIOUS
<1>5. /\ stack' = stack \o <<e, g>>
      /\ rules' = rules /\ bottom' = bottom /\ tokens' = tokens
      /\ outcome' = outcome /\ fed' = fed /\ currIndex' = currIndex + 1
  BY <1>4 DEF shift, grammarVars
<1>6. /\ Len(stack') = Len(stack) + 2
      /\ \A j \in 1 .. Len(stack) : stack'[j] = stack[j]
      /\ stack'[Len(stack) + 1] = e
  <2> DEFINE t == stack \o <<e, g>>
  <2>1. /\ Len(t) = Len(stack) + 2
        /\ \A j \in 1 .. Len(stack) : t[j] = stack[j]
        /\ t[Len(stack) + 1] = e
    BY <1>2, PushedTwo
  <2> HIDE DEF t
  <2>2. stack' = t
    BY <1>5 DEF t
  <2> QED
    BY <2>1, <2>2
<1>7. token \in terminals
  BY ShiftsTerminal
<1>8. \A X : Spells(e, X) => X = token
  <2> SUFFICES ASSUME NEW X, Spells(e, X) PROVE X = token
    OBVIOUS
  <2>1. CASE tokens[currIndex].type = "IDENTIFIER"
    <3>1. PICK v : e = ValueASTNode(v)
      BY <1>4, <2>1
    <3>2. X = ID
      BY <3>1, EntrySpells, Zenon
    <3> QED
      BY <2>1, <3>2 DEF token, keyOf
  <2>2. CASE tokens[currIndex].type # "IDENTIFIER"
    <3>1. PICK key : key = token /\ e = Terminal(key)
      BY <1>4, <2>2
    <3>2. X = key
      BY <3>1, EntrySpells, Zenon
    <3> QED
      BY <3>1, <3>2
  <2> QED
    BY <2>1, <2>2
<1> HIDE DEF entry
<1>9. <<token, <<token>>>> \in SentencesOf[rules]
  <2>1. token \in Terminals(rules)
    BY <1>2, <1>7, SameTerminals DEF terminals
  <2>2. <<token, <<token>>>> \in Alone(rules)
    BY <2>1 DEF Alone
  <2>3. Alone(rules) \subseteq Sentences(rules, MaxTokens)
    BY <1>2, BoundAssumption, SentencesClosed
  <2> QED
    BY <1>2, <2>2, <2>3 DEF SentencesOf
<1>10. Section(keysOf, currIndex - 1, currIndex) = <<token>>
  <2>1. /\ \A k \in 1 .. Len(tokens) : keysOf[k] = keyOf(tokens[k])
    BY <1>2, KeysAre
  <2>2. keysOf[currIndex] = token
    BY <1>1, <1>2, <2>1 DEF token
  <2>3. currIndex - (currIndex - 1) = 1
        /\ \A k \in 1 .. 1 : (currIndex - 1) + k = currIndex
    BY <1>2
  <2>4. Section(keysOf, currIndex - 1, currIndex) = [k \in 1 .. 1 |-> token]
    BY <2>2, <2>3 DEF Section
  <2>5. <<token>> = [k \in 1 .. 1 |-> token]
    OBVIOUS
  <2> QED
    BY <2>4, <2>5
<1>11. Stands(stack'[bottom + 2 * depth + 1], cut[depth], currIndex' - 1)
  <2>1. stack'[bottom + 2 * depth + 1] = e
    BY <1>3, <1>6
  <2>2. cut[depth] = currIndex - 1 /\ currIndex' - 1 = currIndex
    BY <1>2, <1>3, <1>5 DEF IsCut
  <2> QED
    BY <1>8, <1>9, <1>10, <2>1, <2>2, Zenon DEF Stands
<1>12. \E new : IsCut(new, depth + 1)'
  <2>1. depth \in 0 .. depth /\ currIndex' \in Nat /\ currIndex <= currIndex'
        /\ \A j \in 1 .. bottom + 2 * depth : stack'[j] = stack[j]
    BY <1>2, <1>3, <1>5, <1>6
  <2> QED
    BY <1>2, <1>3, <1>5, <1>11, <2>1, CutExtended
<1>13. \A k \in 1 .. currIndex' - 1 : keysOf[k] \in terminals
  <2> SUFFICES ASSUME NEW k \in 1 .. currIndex' - 1 PROVE keysOf[k] \in terminals
    OBVIOUS
  <2>1. k = currIndex \/ k \in 1 .. currIndex - 1
    BY <1>2, <1>5
  <2>2. CASE k = currIndex
    <3>1. keysOf[k] = token
      BY <1>1, <1>2, <2>2, KeysAre DEF token
    <3> QED
      BY <1>7, <3>1
  <2>3. CASE k \in 1 .. currIndex - 1
    BY <1>1, <2>3 DEF Derived
  <2> QED
    BY <2>1, <2>2, <2>3
<1>14. depth + 1 \in Nat /\ Len(stack') = bottom' + 2 * (depth + 1)
  BY <1>2, <1>3, <1>5, <1>6
<1>15. fed' \in Nat /\ Len(tokens') <= MaxTokens
  BY <1>2, <1>5 DEF Derived
<1>16. keysOf' = keysOf /\ terminals' = terminals
  BY <1>5 DEF keysOf, keyOf, terminals
<1> QED
  BY <1>12, <1>13, <1>14, <1>15, <1>16 DEF Derived

\* A rule's body is what a reduction pops.
LEMMA BodyIs ==
    ASSUME rules \in Grammars, NEW r \in DOMAIN rules
    PROVE  /\ Body(rules[r]) = IF IsEpsilonRule(rules[r]) THEN <<>>
                               ELSE rules[r].development
           /\ Len(Body(rules[r])) = IF IsEpsilonRule(rules[r]) THEN 0
                                    ELSE Len(rules[r].development)
<1>1. Body(rules[r]) = IF IsEpsilonRule(rules[r]) THEN <<>> ELSE rules[r].development
  BY Zenon DEF Body, IsEpsilonRule
<1> QED
  BY <1>1, EmptyIsSeq

LEMMA EmptyRuleStands ==
    ASSUME rules \in Grammars, IsSeq(tokens), Len(tokens) <= MaxTokens,
           NEW r \in DOMAIN rules, IsEpsilonRule(rules[r]),
           NEW a \in 0 .. Len(tokens)
    PROVE  <<rules[r].nonTerminal, Section(keysOf, a, a)>> \in SentencesOf[rules]
<1>1. PICK cut : cut = [i \in 0 .. 0 |-> a]
  OBVIOUS
<1>2. keysOf \in Seq(ToSet(keysOf)) /\ Len(keysOf) = Len(tokens) /\ Len(tokens) \in Nat
  BY KeysAre
<1>3. cut \in [0 .. 0 -> Nat] /\ cut[0] = a /\ a \in Nat
  BY <1>1, <1>2
<1>4. Len(Body(rules[r])) = 0
  BY BodyIs
<1>5. MaxTokens \in Nat /\ SentencesOf[rules] = Sentences(rules, MaxTokens)
  BY BoundAssumption DEF SentencesOf
<1>6. PICK n \in Nat : n = 0
  OBVIOUS
<1>7. /\ n = Len(Body(rules[r])) /\ cut \in [0 .. n -> Nat]
      /\ \A i, j \in 0 .. n : i <= j => cut[i] <= cut[j]
      /\ cut[n] <= Len(keysOf) /\ Len(keysOf) <= MaxTokens
      /\ \A l \in 1 .. n : FALSE
  BY <1>1, <1>2, <1>3, <1>4, <1>6
<1>8. <<rules[r].nonTerminal, Section(keysOf, cut[0], cut[n])>>
        \in Sentences(rules, MaxTokens)
  BY <1>2, <1>5, <1>7, RuleDerives
<1> QED
  BY <1>3, <1>5, <1>6, <1>8

LEMMA ReduceDerives ==
    ASSUME IInv, Read, Derived, reduce PROVE Derived'
<1>1. outcome = "parsing" /\ currIndex <= Len(tokens) /\ Does("reduce")
  BY DEF reduce, Does, Reads
<1>2. /\ phase = "ready" /\ bottom \in Nat \ {0} /\ Len(stack) \in Nat
      /\ IsSeq(stack) /\ IsSeq(tokens) /\ Len(tokens) \in Nat
      /\ currIndex \in Nat \ {0} /\ Len(tokens) <= MaxTokens /\ rules \in Grammars
      /\ Graph /\ Table /\ Pushed
  BY <1>1, Running DEF IInv
<1>3. PICK depth, cut :
        /\ depth \in Nat /\ IsPath(depth) /\ Len(stack) = bottom + 2 * depth /\ IsCut(cut, depth)
  BY <1>1, Running
<1> DEFINE A == reducedRule.nonTerminal
           empty == IsEpsilonRule(reducedRule)
           n == IF empty THEN 0 ELSE Len(reducedRule.development)
           below == IF empty THEN stack ELSE Popped(2 * n)
           entry == IF empty THEN nullptr ELSE InterASTNode(action.n, poppedNodes)
           k == stack[bottom + 2 * depth].state
<1>4. /\ n \in 0 .. depth
      /\ \A l \in 1 .. n : Spells(stack[bottom + 2 * (depth - l) + 1],
                                  reducedRule.development[n - l + 1])
  BY <1>1, <1>2, <1>3, Reduction
<1>5. action.n \in DOMAIN rules
  <2>1. k \in DOMAIN kernels
    BY <1>3, StateAt
  <2>2. state = states[k]
    BY <1>2, <1>3, TopIs DEF state
  <2>3. RowRight(k)
    BY <1>2, <2>1, RowAt
  <2>4. \E c \in kernels[k].closure : c.rule = action.n
    BY <1>1, <2>2, <2>3, Zenon DEF RowRight, action, Does
  <2> QED
    BY <1>2, <2>1, <2>4, Zenon DEF Graph, ClosureRight, WellFormed
<1>6. /\ IsSeq(below) /\ Len(below) = bottom + 2 * (depth - n)
      /\ \A j \in 1 .. Len(below) : below[j] = stack[j]
  <2>1. CASE empty
    <3>1. n = 0 /\ below = stack
      BY <2>1
    <3> QED
      BY <1>2, <1>3, <3>1
  <2>2. CASE ~ empty
    <3>1. below = SubSeq(stack, 1, Len(stack) - 2 * n)
      BY <2>2 DEF Popped
    <3> HIDE DEF below, n
    <3>2. /\ Len(stack) - 2 * n \in 0 .. Len(stack)
          /\ Len(stack) - 2 * n = bottom + 2 * (depth - n)
      BY <1>2, <1>3, <1>4
    <3> QED
      BY <1>2, <3>1, <3>2, Prefix, Zenon
  <2> QED
    BY <2>1, <2>2
<1>7. \E g : stack' = below \o <<entry, g>>
  <2>1. stack' = goTo(below, entry, A)
    BY DEF reduce
  <2> HIDE DEF below, entry, A
  <2> QED
    BY <2>1, Zenon DEF goTo
<1>8. PICK b, e, g, d : /\ b = below /\ e = entry /\ d = depth - n
                        /\ stack' = b \o <<e, g>>
  BY <1>7
<1>9. d \in 0 .. depth /\ d \in Nat
  BY <1>3, <1>4, <1>8
\* What the entry spells derives what its rule's symbols stand for.
<1>10. Stands(e, cut[d], currIndex - 1)
  <2> SUFFICES ASSUME NEW X, Spells(e, X)
               PROVE  <<X, Section(keysOf, cut[d], currIndex - 1)>> \in SentencesOf[rules]
    BY DEF Stands
  <2>1. CASE empty
    <3>1. e = nullptr /\ d = depth
      BY <1>3, <1>8, <2>1
    <3>2. PICK r \in DOMAIN rules : rules[r].nonTerminal = X /\ IsEpsilonRule(rules[r])
      BY <3>1, EntrySpells, Zenon
    <3>3. PICK a : a = currIndex - 1 /\ cut[d] = a /\ a \in 0 .. Len(tokens)
      BY <1>1, <1>2, <1>3, <3>1 DEF IsCut
    <3>4. <<rules[r].nonTerminal, Section(keysOf, a, a)>> \in SentencesOf[rules]
      BY <1>2, <3>2, <3>3, EmptyRuleStands
    <3> QED
      BY <3>2, <3>3, <3>4
  <2>2. CASE ~ empty
    <3>1. PICK r, children : r = action.n /\ e = InterASTNode(r, children)
      BY <1>8, <2>2
    <3>2. X = rules[r].nonTerminal /\ r \in DOMAIN rules /\ reducedRule = rules[r]
      <4>1. X = rules[r].nonTerminal
        BY <3>1, InterSpells
      <4> QED
        BY <1>5, <3>1, <4>1 DEF reducedRule
    <3>3. n = Len(Body(rules[r])) /\ Body(rules[r]) = reducedRule.development
      BY <1>2, <2>2, <3>2, BodyIs
    <3>4. PICK m \in 0 .. depth : m = n
      BY <1>4
    <3> HIDE DEF n
    <3>5. /\ currIndex \in 1 .. Len(tokens) + 1 /\ m = Len(Body(rules[r]))
          /\ \A l \in 1 .. m : Spells(stack[bottom + 2 * (depth - l) + 1],
                                      Body(rules[r])[m - l + 1])
      <4>1. currIndex \in 1 .. Len(tokens) + 1 /\ m = Len(Body(rules[r]))
        BY <1>1, <1>2, <3>3, <3>4
      <4>2. \A l \in 1 .. m : Spells(stack[bottom + 2 * (depth - l) + 1],
                                     Body(rules[r])[m - l + 1])
        BY <1>4, <3>3, <3>4, Zenon
      <4> QED
        BY <4>1, <4>2
    <3>6. <<rules[r].nonTerminal, Section(keysOf, cut[depth - m], currIndex - 1)>>
            \in SentencesOf[rules]
      BY <1>2, <1>3, <3>2, <3>5, RuleStands
    <3> QED
      BY <1>8, <3>2, <3>4, <3>6
  <2> QED
    BY <2>1, <2>2
<1> HIDE DEF below, entry, A, n, k
<1>11. /\ rules' = rules /\ bottom' = bottom /\ tokens' = tokens
       /\ outcome' = outcome /\ fed' = fed /\ currIndex' = currIndex
  BY DEF reduce, grammarVars
<1>12. /\ Len(stack') = bottom + 2 * d + 2
       /\ \A j \in 1 .. bottom + 2 * d : stack'[j] = stack[j]
       /\ stack'[bottom + 2 * d + 1] = e
  <2>1. /\ IsSeq(b) /\ Len(b) = bottom + 2 * d
        /\ \A j \in 1 .. Len(b) : b[j] = stack[j]
    BY <1>6, <1>8, Zenon
  <2> DEFINE t == b \o <<e, g>>
  <2>2. /\ Len(t) = Len(b) + 2
        /\ \A j \in 1 .. Len(b) : t[j] = b[j]
        /\ t[Len(b) + 1] = e
    BY <2>1, PushedTwo
  <2> HIDE DEF t
  <2>3. stack' = t
    BY <1>8 DEF t
  <2> QED
    BY <2>1, <2>2, <2>3
<1>13. \E new : IsCut(new, d + 1)'
  <2>1. Stands(stack'[bottom + 2 * d + 1], cut[d], currIndex' - 1)
    BY <1>10, <1>11, <1>12
  <2>2. currIndex' \in Nat /\ currIndex <= currIndex'
    BY <1>2, <1>11
  <2> QED
    BY <1>2, <1>3, <1>9, <1>11, <1>12, <2>1, <2>2, CutExtended
<1>14. d + 1 \in Nat /\ Len(stack') = bottom' + 2 * (d + 1)
  BY <1>2, <1>9, <1>11, <1>12
<1>15. keysOf' = keysOf /\ terminals' = terminals
  BY <1>11 DEF keysOf, keyOf, terminals
<1> QED
  BY <1>1, <1>11, <1>13, <1>14, <1>15 DEF Derived

\* A call of parse has read nothing.
LEMMA ParseDerives ==
    ASSUME IInv, Derived, Parse PROVE Derived'
<1>1. PICK lexed \in LexedOf[rules] : parse(lexed)
  BY DEF Parse
<1>2. IsSeq(stack) /\ Len(stack) \in Nat
  BY SeqFacts DEF IInv, Pushed
<1>3. IsSeq(lexed.tokens) /\ Len(lexed.tokens) \in Nat
  BY <1>1, TextsAreSeqs, SeqFacts DEF IInv, Graph
<1>4. PICK N \in Nat : N = Len(lexed.tokens)
  BY <1>3
<1>5. Max({1, N}) \in Nat /\ N <= Max({1, N})
  <2>1. \E x \in {1, N} : \A y \in {1, N} : x >= y
    BY <1>4
  <2>2. Max({1, N}) \in {1, N} /\ \A y \in {1, N} : Max({1, N}) >= y
    BY <2>1, Zenon DEF Max
  <2> QED
    BY <1>4, <2>2
<1>6. fed' \in Nat /\ Len(lexed.tokens) <= MaxTokens
  <2>1. fed' = fed + Max({1, N}) /\ fed' <= MaxTokens /\ fed \in Nat /\ MaxTokens \in Nat
    BY <1>1, <1>4, BoundAssumption DEF parse, Derived
  <2> QED
    BY <1>4, <1>5, <2>1
<1>7. tokens' = lexed.tokens /\ currIndex' = 1
  BY <1>1 DEF parse
<1>8. ASSUME outcome' = "parsing"
      PROVE  /\ Len(stack') = bottom' + 2 * 0
             /\ \E cut : IsCut(cut, 0)'
  <2>1. stack' = Append(stack, Goto(1)) /\ bottom' = Len(stack) + 1
    BY <1>1, <1>8 DEF parse
  <2>2. Len(stack') = Len(stack) + 1
    BY <1>2, <2>1, Appended
  <2>3. PICK cut : cut = [m \in 0 .. 0 |-> 0]
    OBVIOUS
  <2>4. /\ cut \in [0 .. 0 -> Nat] /\ cut[0] = 0 /\ currIndex' - 1 = 0
        /\ \A i, j \in 0 .. 0 : i <= j => cut[i] <= cut[j]
        /\ \A m \in 0 .. 0 - 1 : FALSE
    BY <1>7, <2>3
  <2>5. IsCut(cut, 0)'
    BY <2>4 DEF IsCut
  <2> QED
    BY <1>2, <2>1, <2>2, <2>5
<1>9. \A k \in 1 .. currIndex' - 1 : FALSE
  BY <1>7
<1> QED
  BY <1>6, <1>7, <1>8, <1>9 DEF Derived

\* What is accepted is what the axiom derives.
LEMMA AcceptIsSentence ==
    ASSUME IInv, Read, Derived, accept, AxiomOnTop PROVE IsSentence
<1>1. outcome = "parsing" /\ currIndex <= Len(tokens) /\ Does("accept")
  BY DEF accept, Does, Reads
<1>2. /\ phase = "ready" /\ bottom \in Nat \ {0} /\ Len(stack) \in Nat
      /\ IsSeq(stack) /\ IsSeq(tokens) /\ Len(tokens) \in Nat
      /\ currIndex \in Nat \ {0} /\ Len(tokens) <= MaxTokens /\ rules \in Grammars
      /\ Graph /\ Table /\ Pushed
  BY <1>1, Running DEF IInv
<1>3. PICK depth, cut :
        /\ depth \in Nat /\ IsPath(depth) /\ Len(stack) = bottom + 2 * depth /\ IsCut(cut, depth)
  BY <1>1, Running
<1> DEFINE k == stack[bottom + 2 * depth].state
<1>4. k \in DOMAIN kernels
  BY <1>3, StateAt
<1>5. PICK c \in kernels[k].closure : c.rule = 1 /\ Reducible(c) /\ token \in c.lookAheads
  <2>1. state = states[k]
    BY <1>2, <1>3, TopIs DEF state
  <2>2. RowRight(k)
    BY <1>2, <1>4, RowAt
  <2> QED
    BY <1>1, <2>1, <2>2, Zenon DEF RowRight, Does
<1>6. WellFormed(c)
  BY <1>2, <1>4, Zenon DEF Graph, ClosureRight
<1>7. token = END
  BY <1>5, <1>6 DEF WellFormed
<1>8. 1 \in DOMAIN rules /\ c.dotIndex = Len(Body(rules[1])) /\ c.dotIndex \in Nat
      /\ (c.dotIndex # 0 => Body(rules[1]) = development(c))
  <2>1. c.rule \in DOMAIN rules /\ c.dotIndex \in Nat
    BY <1>6 DEF WellFormed
  <2>2. c.dotIndex = IF IsEpsilonRule(rules[1]) THEN 0 ELSE Len(rules[1].development)
    BY <1>2, <1>5, <1>6, ReducibleItem DEF development
  <2> QED
    BY <1>2, <1>5, <2>1, <2>2, BodyIs DEF development
<1>9. PICK n \in Nat : n = c.dotIndex
  BY <1>8
<1>10. /\ n <= depth
       /\ \E d \in kernels[stack[bottom + 2 * (depth - n)].state].closure :
            d.rule = 1 /\ d.dotIndex = 0
       /\ \A l \in 1 .. n :
            Spells(stack[bottom + 2 * (depth - l) + 1], development(c)[n - l + 1])
  <2>1. n \in 0 .. c.dotIndex /\ bottom \in Nat
    BY <1>2, <1>9
  <2>2. /\ n <= depth
        /\ \E d \in kernels[stack[bottom + 2 * (depth - n)].state].closure :
             d.rule = c.rule /\ d.dotIndex = c.dotIndex - n
        /\ \A l \in 1 .. n :
             Spells(stack[bottom + 2 * (depth - l) + 1],
                    development(c)[c.dotIndex - l + 1])
    BY <1>2, <1>3, <2>1, WayBack, Zenon
  <2>3. c.dotIndex - n = 0
    BY <1>9
  <2> QED
    BY <1>5, <1>9, <2>2, <2>3, Zenon
\* Only the first kernel has the first rule's item with the dot before it, and
\* no goto leads to the first kernel.
<1>11. depth - n = 0
  <2> SUFFICES ASSUME depth - n # 0 PROVE FALSE
    OBVIOUS
  <2>1. PICK m \in Nat : m + 1 = depth - n /\ m \in 0 .. depth - 1 /\ m \in 0 .. depth
                         /\ m + 1 \in 0 .. depth
    <3>1. depth - n - 1 \in Nat
      BY <1>3, <1>10
    <3>2. (depth - n - 1) + 1 = depth - n
          /\ depth - n - 1 \in 0 .. depth - 1 /\ depth - n - 1 \in 0 .. depth
          /\ depth - n \in 0 .. depth
      BY <1>3, <3>1
    <3> QED
      BY <3>1, <3>2
  <2> DEFINE j == stack[bottom + 2 * (m + 1)].state
  <2>2. j \in DOMAIN kernels
    BY <1>3, <2>1, StateAt
  <2>3. j = 1
    BY <1>2, <1>10, <2>1, <2>2 DEF Graph, ClosureRight
  <2>4. Follows(bottom + 2 * m) /\ bottom + 2 * m + 2 = bottom + 2 * (m + 1)
    <3>1. Follows(bottom + 2 * m)
      BY <1>3, <2>1, Zenon DEF IsPath
    <3> QED
      BY <1>2, <2>1, <3>1
  <2> DEFINE i == stack[bottom + 2 * m].state
  <2>5. i \in DOMAIN kernels
    BY <1>3, <2>1, StateAt
  <2>6. PICK X \in DOMAIN kernels[i].gotos :
          stack[bottom + 2 * (m + 1)] = Goto(kernels[i].gotos[X])
    BY <2>4 DEF Follows
  <2>7. kernels[i].gotos[X] = 1
    BY <2>3, <2>6 DEF Goto
  <2>8. kernels[i].gotos[X] \in 2 .. Len(kernels)
    BY <1>2, <2>5, Zenon DEF Graph, GotosRight
  <2> QED
    BY <2>7, <2>8
<1> HIDE DEF k
<1>12. <<axiom, Section(keysOf, 0, currIndex - 1)>> \in SentencesOf[rules]
  <2>1. \A l \in 1 .. n : Spells(stack[bottom + 2 * (depth - l) + 1],
                                 Body(rules[1])[n - l + 1])
    <3>1. n # 0 => Body(rules[1]) = development(c)
      BY <1>8, <1>9
    <3>2. \A l \in 1 .. n : n # 0
      OBVIOUS
    <3> QED
      BY <1>10, <3>1, <3>2, Zenon
  <2>2. n \in 0 .. depth /\ n = Len(Body(rules[1])) /\ currIndex \in 1 .. Len(tokens) + 1
    BY <1>1, <1>2, <1>8, <1>9, <1>10
  <2>3. <<rules[1].nonTerminal, Section(keysOf, cut[depth - n], currIndex - 1)>>
          \in SentencesOf[rules]
    BY <1>2, <1>3, <1>8, <2>1, <2>2, RuleStands
  <2>4. cut[depth - n] = 0
    BY <1>3, <1>11 DEF IsCut
  <2> QED
    BY <2>3, <2>4 DEF axiom
<1>13. inputKeys = Section(keysOf, 0, currIndex - 1)
  <2>1. /\ keysOf \in Seq(ToSet(keysOf)) /\ Len(keysOf) = Len(tokens)
        /\ DOMAIN keysOf = 1 .. Len(tokens)
        /\ \A l \in 1 .. Len(tokens) : keysOf[l] = keyOf(tokens[l])
    BY <1>2, KeysAre
  <2> DEFINE ends == {l \in DOMAIN keysOf : keysOf[l] = END}
  <2>2. currIndex \in ends
    BY <1>1, <1>2, <1>7, <2>1 DEF token
  <2>3. \A l \in 1 .. currIndex - 1 : keysOf[l] # END
    <3>1. \A l \in 1 .. currIndex - 1 : keysOf[l] \in terminals
      BY <1>1 DEF Derived
    <3>2. END \notin terminals
      BY <1>2, EndIsNoTerminal DEF terminals
    <3> QED
      BY <3>1, <3>2
  <2>4. ends \subseteq Nat /\ ends # {}
    BY <1>2, <2>1, <2>2
  <2>5. Min(ends) = currIndex
    <3>1. Min(ends) \in ends /\ Min(ends) <= currIndex
      BY <2>2, <2>4, LeastOfNats
    <3>2. Min(ends) \in 1 .. Len(tokens) /\ keysOf[Min(ends)] = END
      BY <2>1, <3>1
    <3>3. Min(ends) \notin 1 .. currIndex - 1
      BY <2>3, <3>2
    <3> HIDE DEF ends
    <3> QED
      BY <1>2, <3>1, <3>2, <3>3
  <2>6. inputKeys = SubSeq(keysOf, 1, currIndex - 1)
    BY <2>4, <2>5 DEF inputKeys, keysOf
  <2>7. PICK p, n0 : p = SubSeq(keysOf, 1, n0) /\ n0 = currIndex - 1
    OBVIOUS
  <2>8. n0 \in Nat /\ n0 \in 0 .. Len(keysOf)
    BY <1>1, <1>2, <2>1, <2>7
  <2>9. IsSeq(p) /\ Len(p) = n0 /\ \A l \in 1 .. n0 : p[l] = keysOf[l]
    BY <2>1, <2>7, <2>8, Prefix, Zenon DEF IsSeq
  <2>10. DOMAIN p = 1 .. n0 /\ p = [l \in 1 .. n0 |-> p[l]]
    BY <2>9, SeqFacts
  <2>11. n0 - 0 = n0 /\ \A l \in 1 .. n0 : 0 + l = l
    BY <2>8
  <2>12. Section(keysOf, 0, n0) = [l \in 1 .. n0 |-> keysOf[l]]
    BY <2>11 DEF Section
  <2> QED
    BY <2>6, <2>7, <2>9, <2>10, <2>12
<1> QED
  BY <1>12, <1>13 DEF IsSentence, Of

LEMMA DerivedKept ==
    ASSUME Derived, rules' = rules, tokens' = tokens, fed' = fed,
           outcome' = "parsing" => /\ outcome = "parsing"
                                   /\ stack' = stack /\ bottom' = bottom
                                   /\ currIndex' = currIndex
    PROVE  Derived'
<1>1. keysOf' = keysOf /\ terminals' = terminals
  BY DEF keysOf, keyOf, terminals
<1>2. ASSUME NEW depth, NEW cut, IsCut(cut, depth),
             stack' = stack, bottom' = bottom, currIndex' = currIndex
      PROVE  IsCut(cut, depth)'
  <2>1. ASSUME NEW m \in 0 .. depth - 1
        PROVE  Stands(stack[bottom + 2 * m + 1], cut[m], cut[m + 1])'
    <3>1. PICK e, a, b : e = stack[bottom + 2 * m + 1] /\ a = cut[m] /\ b = cut[m + 1]
      OBVIOUS
    <3>2. Stands(e, a, b)
      BY <1>2, <3>1 DEF IsCut
    <3>3. stack'[bottom' + 2 * m + 1] = e
      BY <1>2, <3>1
    <3> QED
      BY <3>1, <3>2, <3>3, StandsStill
  <2> QED
    BY <1>2, <2>1 DEF IsCut
<1>3. ASSUME outcome' = "parsing"
      PROVE  \E depth \in Nat : /\ Len(stack') = bottom' + 2 * depth
                                /\ \E cut : IsCut(cut, depth)'
  <2>1. PICK depth \in Nat : Len(stack) = bottom + 2 * depth /\ \E cut : IsCut(cut, depth)
    BY <1>3 DEF Derived
  <2>2. \E cut : IsCut(cut, depth)'
    BY <1>2, <1>3, <2>1
  <2> QED
    BY <1>3, <2>1, <2>2
<1> QED
  BY <1>1, <1>3 DEF Derived

\* Only accept returns, and what is accepted stays what it was.
LEMMA AcceptedKept ==
    ASSUME IInv, Read, Derived, AcceptsOnlySentences,
           \/ Build \/ Parse \/ ParserStep \/ ClientStep
           \/ UNCHANGED <<phase, grammarVars, kernelVars, parserVars>>
    PROVE  Derived' /\ AcceptsOnlySentences'
<1>1. rules' = rules
  BY DEF Build, Parse, parse, ParserStep, shift, reduce, accept, throw, ReadPastEnd,
         ClientStep, grammarVars, GrammarStep, FirstsOfEpsilonRule, FirstsOfRule,
         FirstsPassEnds, FollowsOfSymbol, FollowsRuleEnds, FollowsPassEnds, KernelStep,
         updateClosure, addGoto, NextKernel, GraphEnds, buildState, StatesEnd
<1>2. ASSUME tokens' = tokens, outcome' = outcome \/ IsSentence \/ ~ AxiomOnTop
      PROVE  AcceptsOnlySentences'
  <2>1. (IsSentence' <=> IsSentence) /\ (AxiomOnTop' <=> AxiomOnTop)
    BY <1>1, <1>2 DEF IsSentence, inputKeys, keyOf, axiom, AxiomOnTop
  <2> QED
    BY <1>2, <2>1 DEF AcceptsOnlySentences
<1>3. ASSUME outcome' # "returned" PROVE AcceptsOnlySentences'
  BY <1>3 DEF AcceptsOnlySentences
<1>4. CASE Build \/ UNCHANGED <<phase, grammarVars, kernelVars, parserVars>>
  <2>1. UNCHANGED parserVars
    BY <1>4 DEF Build
  <2> QED
    BY <1>1, <1>2, <2>1, DerivedKept DEF parserVars
<1>5. CASE Parse
  <2>1. outcome' # "returned"
    BY <1>5 DEF Parse, parse
  <2> QED
    BY <1>3, <1>5, <2>1, ParseDerives
<1>6. CASE shift
  <2>1. outcome' # "returned"
    BY <1>6 DEF shift, Does, Reads
  <2> QED
    BY <1>3, <1>6, <2>1, ShiftDerives
<1>7. CASE reduce
  <2>1. outcome' # "returned"
    BY <1>7 DEF reduce, Does, Reads
  <2> QED
    BY <1>3, <1>7, <2>1, ReduceDerives
<1>8. CASE accept
  <2>1. tokens' = tokens /\ fed' = fed /\ outcome' # "parsing"
    BY <1>8 DEF accept
  <2> QED
    BY <1>1, <1>2, <1>8, <2>1, AcceptIsSentence, DerivedKept
<1>9. CASE throw \/ ReadPastEnd
  <2>1. /\ tokens' = tokens /\ fed' = fed
        /\ outcome' # "parsing" /\ outcome' # "returned"
    BY <1>9 DEF throw, ReadPastEnd
  <2> QED
    BY <1>1, <1>3, <2>1, DerivedKept
<1>10. CASE ClientStep
  <2>1. tokens' = tokens /\ fed' = fed /\ outcome' = outcome /\ outcome' # "parsing"
    BY <1>10 DEF ClientStep
  <2> QED
    BY <1>1, <1>2, <2>1, DerivedKept
<1> QED
  BY <1>4, <1>5, <1>6, <1>7, <1>8, <1>9, <1>10 DEF ParserStep

\* Whatever the grammar, its sets, its conflicts and the items its kernels lack,
\* and whatever earlier parses left on the stack: if the axiom is on no right
\* side, what parse returns from is a sentence of the grammar.
THEOREM AcceptedIsSentence == ParserSpec => []AcceptsOnlySentences
<1> DEFINE Next == Build \/ Parse \/ ParserStep \/ ClientStep
           vars == <<phase, grammarVars, kernelVars, parserVars>>
           Inv == IInv /\ Read /\ Derived /\ AcceptsOnlySentences
<1>1. GrammarInit /\ KernelInit /\ ParserInit => Inv
  BY InitRight DEF ParserInit, Read, TokensSuffice, Derived, AcceptsOnlySentences
<1>2. Inv /\ [Next]_vars => Inv'
  <2>1. ASSUME Inv, Next PROVE Inv'
    BY <2>1, StepKeeps, ReadKept, AcceptedKept
  <2>2. ASSUME Inv, UNCHANGED vars PROVE Inv'
    <3>1. Read'
      BY <2>2 DEF Read, TokensSuffice, Ends, keyOf, Token, vars, parserVars
    <3> QED
      BY <2>2, <3>1, StutterKeeps, AcceptedKept
  <2> QED
    BY <2>1, <2>2, Zenon
<1>3. Inv => AcceptsOnlySentences
  OBVIOUS
<1> QED
  BY <1>1, <1>2, <1>3, PTL DEF ParserSpec
-----------------------------------------------------------------------------
\* A string is its symbol, or was put together in some round, by a rule, of
\* strings of a round before.
IsPart(p, n, g, R, max) ==
    /\ p[2] \in Seq(Terminals(R))
    /\ \/ p \in Alone(R)
       \/ \E m \in 0 .. n - 1 : \E r \in DOMAIN R :
            /\ p[1] = R[r].nonTerminal
            /\ p[2] \in Joined(g[m], Body(R[r]), max)

LEMMA SentenceParts ==
    ASSUME NEW R \in Grammars, NEW max \in Nat
    PROVE  \E k \in Nat : \E g :
             /\ g[k] = Sentences(R, max)
             /\ \A n \in 0 .. k : /\ g[n] \subseteq Sentences(R, max)
                                 /\ \A p \in g[n] : IsPart(p, n, g, R, max)
<1>1. PICK k \in Nat : \E grown :
        /\ Sentences(R, max) = grown[k]
        /\ grown[0] = Alone(R)
        /\ \A n \in 1 .. k : grown[n] = Grown(R, max, grown[n - 1])
        /\ \A n \in 0 .. k : grown[n] \subseteq Alone(R) \cup Pairs(R, max)
  BY SentenceRounds
<1>2. PICK g :
        /\ Sentences(R, max) = g[k]
        /\ g[0] = Alone(R)
        /\ \A n \in 1 .. k : g[n] = Grown(R, max, g[n - 1])
        /\ \A n \in 0 .. k : g[n] \subseteq Alone(R) \cup Pairs(R, max)
  BY <1>1
<1>3. \A n \in 0 .. k : g[n] \subseteq g[k]
  <2> DEFINE bad == {n \in 0 .. k : ~ (g[k - n] \subseteq g[k])}
  <2>1. bad = {}
    <3> SUFFICES ASSUME bad # {} PROVE FALSE
      OBVIOUS
    <3>1. bad \subseteq 0 .. k /\ 0 \notin bad
      OBVIOUS
    <3> HIDE DEF bad
    <3>2. PICK l \in bad : l # 0 /\ l - 1 \in 0 .. k /\ l - 1 \notin bad
      BY <3>1, FailsFirst
    <3>3. l \in 0 .. k /\ ~ (g[k - l] \subseteq g[k]) /\ g[k - (l - 1)] \subseteq g[k]
      BY <3>2 DEF bad
    <3>4. PICK n : n = k - (l - 1) /\ n \in 1 .. k /\ n - 1 = k - l
      BY <3>2, <3>3
    <3>5. g[n - 1] \subseteq Grown(R, max, g[n - 1])
      BY DEF Grown
    <3> QED
      BY <1>2, <3>3, <3>4, <3>5
  <2>2. ASSUME NEW n \in 0 .. k PROVE g[n] \subseteq g[k]
    <3>1. k - n \in 0 .. k /\ k - (k - n) = n
      OBVIOUS
    <3> QED
      BY <2>1, <3>1
  <2> QED
    BY <2>2
<1>4. \A n \in 0 .. k : \A p \in g[n] : p[2] \in Seq(Terminals(R))
  <2>1. \A p \in Alone(R) : p[2] \in Seq(Terminals(R))
    <3> SUFFICES ASSUME NEW t \in Terminals(R) PROVE <<t, <<t>>>>[2] \in Seq(Terminals(R))
      BY DEF Alone
    <3> DEFINE T == Terminals(R)
    <3>1. \A x \in T : <<x>> \in Seq(T)
      OBVIOUS
    <3> HIDE DEF T
    <3>2. <<t>> \in Seq(T)
      BY <3>1 DEF T
    <3> QED
      BY <3>2 DEF T
  <2>2. \A p \in Pairs(R, max) : p[2] \in Seq(Terminals(R))
    BY StringsAre DEF Pairs
  <2> QED
    BY <1>2, <2>1, <2>2
<1> DEFINE Parts(n) == \A p \in g[n] : IsPart(p, n, g, R, max)
<1>5. \A n \in 0 .. k : Parts(n)
  <2> DEFINE bad == {n \in 0 .. k : ~ Parts(n)}
  <2> SUFFICES ASSUME bad # {} PROVE FALSE
    OBVIOUS
  <2>1. bad \subseteq 0 .. k
    OBVIOUS
  <2>2. 0 \notin bad
    <3>1. 0 \in 0 .. k
      OBVIOUS
    <3> QED
      BY <1>2, <1>4, <3>1 DEF IsPart
  <2> HIDE DEF bad
  <2>3. PICK l \in bad : l # 0 /\ l - 1 \in 0 .. k /\ l - 1 \notin bad
    BY <2>1, <2>2, FailsFirst
  <2>4. l \in 0 .. k /\ ~ Parts(l) /\ Parts(l - 1)
    BY <2>3 DEF bad
  <2>5. PICK p \in g[l] : ~ IsPart(p, l, g, R, max)
    BY <2>4
  <2>6. p \in Grown(R, max, g[l - 1]) /\ p[2] \in Seq(Terminals(R))
    <3>1. l \in 1 .. k
      BY <2>3, <2>4
    <3> QED
      BY <1>2, <1>4, <2>4, <2>5, <3>1
  <2> HIDE DEF Parts
  <2>7. CASE p \in g[l - 1]
    <3>1. IsPart(p, l - 1, g, R, max)
      BY <2>4, <2>7 DEF Parts
    <3>2. \A m \in 0 .. (l - 1) - 1 : m \in 0 .. l - 1
      BY <2>4
    <3> QED
      BY <2>5, <3>1, <3>2, Zenon DEF IsPart
  <2>8. CASE p \notin g[l - 1]
    <3>1. PICK r \in DOMAIN R :
            p \in {<<R[r].nonTerminal, s>> : s \in Joined(g[l - 1], Body(R[r]), max)}
      BY <2>6, <2>8 DEF Grown
    <3>2. p[1] = R[r].nonTerminal /\ p[2] \in Joined(g[l - 1], Body(R[r]), max)
      BY <3>1
    <3>3. l - 1 \in 0 .. l - 1
      BY <2>3, <2>4
    <3> QED
      BY <2>5, <2>6, <3>2, <3>3, Zenon DEF IsPart
  <2> QED
    BY <2>7, <2>8
<1> QED
  BY <1>2, <1>3, <1>5

\* A section that is put together of two strings is cut between them.
CutsAt(b, w, a, c, p, q) ==
    /\ b \in Nat /\ a <= b /\ b <= c
    /\ p = Section(w, a, b) /\ q = Section(w, b, c)

LEMMA SectionSplits ==
    ASSUME NEW U, NEW word \in Seq(U), NEW from \in Nat, NEW to \in Nat,
           from <= to, to <= Len(word),
           NEW S, NEW x \in Seq(S), NEW y \in Seq(S), Section(word, from, to) = x \o y
    PROVE  \E at : CutsAt(at, word, from, to, x, y)
<1>1. PICK at : at = from + Len(x)
  OBVIOUS
<1>2. Len(x) \in Nat /\ Len(y) \in Nat /\ Len(word) \in Nat
  BY LenProperties
<1>3. Len(Section(word, from, to)) = to - from
  BY SectionIs
<1>4. /\ Len(x \o y) = Len(x) + Len(y)
      /\ \A k \in 1 .. Len(x) + Len(y) :
           (x \o y)[k] = IF k <= Len(x) THEN x[k] ELSE y[k - Len(x)]
  BY ConcatProperties
<1>5. at \in Nat /\ from <= at /\ at <= to /\ at <= Len(word) /\ to - at = Len(y) /\ at - from = Len(x)
  BY <1>1, <1>2, <1>3, <1>4
<1>6. /\ Section(word, from, at) \in Seq(U) /\ Len(Section(word, from, at)) = Len(x)
      /\ Section(word, at, to) \in Seq(U) /\ Len(Section(word, at, to)) = Len(y)
  BY <1>5, SectionIs
<1>7. \A k \in 1 .. Len(x) + Len(y) : (x \o y)[k] = word[from + k]
  BY <1>3, <1>4 DEF Section
<1>8. \A k \in 1 .. Len(x) : x[k] = Section(word, from, at)[k]
  <2> SUFFICES ASSUME NEW k \in 1 .. Len(x) PROVE x[k] = Section(word, from, at)[k]
    OBVIOUS
  <2>1. k \in 1 .. Len(x) + Len(y) /\ k <= Len(x) /\ k \in 1 .. at - from
    BY <1>2, <1>5
  <2> QED
    BY <1>4, <1>7, <2>1 DEF Section
<1>9. \A k \in 1 .. Len(y) : y[k] = Section(word, at, to)[k]
  <2> SUFFICES ASSUME NEW k \in 1 .. Len(y) PROVE y[k] = Section(word, at, to)[k]
    OBVIOUS
  <2>1. PICK j : j = Len(x) + k
    OBVIOUS
  <2>2. /\ j \in 1 .. Len(x) + Len(y) /\ ~ (j <= Len(x)) /\ j - Len(x) = k
        /\ k \in 1 .. to - at /\ at + k = from + j
    BY <1>2, <1>5, <2>1
  <2>3. y[k] = word[from + j]
    BY <1>4, <1>7, <2>2
  <2>4. Section(word, at, to)[k] = word[at + k]
    BY <2>2 DEF Section
  <2> QED
    BY <2>2, <2>3, <2>4
<1> DEFINE All == S \cup U
<1>10. /\ x \in Seq(All) /\ y \in Seq(All)
       /\ Section(word, from, at) \in Seq(All) /\ Section(word, at, to) \in Seq(All)
  <2>1. S \subseteq All /\ U \subseteq All
    OBVIOUS
  <2> HIDE DEF All
  <2> QED
    BY <1>6, <2>1, SeqMonotonic
<1> HIDE DEF All
<1>11. \A s, t \in Seq(All) : Len(s) = Len(t) /\ (\A k \in 1 .. Len(s) : s[k] = t[k]) => s = t
  BY SeqEqual
<1>12. x = Section(word, from, at)
  BY <1>6, <1>8, <1>10, <1>11, Zenon
<1>13. y = Section(word, at, to)
  BY <1>6, <1>9, <1>10, <1>11, Zenon
<1> QED
  BY <1>5, <1>12, <1>13, Zenon DEF CutsAt

\* A rising sequence of cuts, and one more.
Rising(cut, n) == \A i, j \in 0 .. n : i <= j => cut[i] <= cut[j]

IsLonger(new, cut, n, c) ==
    /\ new \in [0 .. n -> Nat] /\ Rising(new, n)
    /\ new[n] = c /\ \A i \in 0 .. n - 1 : new[i] = cut[i]

LEMMA RisingMore ==
    ASSUME NEW n \in Nat \ {0}, NEW old \in [0 .. n - 1 -> Nat], Rising(old, n - 1),
           NEW to \in Nat, old[n - 1] <= to
    PROVE  \E new : IsLonger(new, old, n, to)
<1>1. PICK new : new = [i \in 0 .. n |-> IF i = n THEN to ELSE old[i]]
  OBVIOUS
<1>2. \A i \in 0 .. n : i # n => i \in 0 .. n - 1
  OBVIOUS
<1>3. \A i \in 0 .. n - 1 : i \in 0 .. n /\ i # n /\ n \in 0 .. n
  OBVIOUS
<1>4. new \in [0 .. n -> Nat]
  BY <1>1, <1>2
<1>5. new[n] = to /\ \A i \in 0 .. n - 1 : new[i] = old[i]
  BY <1>1, <1>3
<1>6. \A i \in 0 .. n - 1 : old[i] \in Nat /\ old[i] <= to
  <2> SUFFICES ASSUME NEW i \in 0 .. n - 1 PROVE old[i] \in Nat /\ old[i] <= to
    OBVIOUS
  <2>1. i <= n - 1 /\ n - 1 \in 0 .. n - 1
    OBVIOUS
  <2>2. old[i] <= old[n - 1]
    BY <2>1 DEF Rising
  <2>3. old[i] \in Nat /\ old[n - 1] \in Nat
    BY <2>1
  <2> QED
    BY <2>2, <2>3
<1>7. ASSUME NEW i \in 0 .. n, NEW j \in 0 .. n, i <= j PROVE new[i] <= new[j]
  <2>1. CASE j = n /\ i = n
    BY <1>5, <2>1
  <2>2. CASE j = n /\ i # n
    BY <1>2, <1>5, <1>6, <2>2
  <2>3. CASE j # n
    <3>1. i \in 0 .. n - 1 /\ j \in 0 .. n - 1
      BY <1>7, <2>3
    <3> QED
      BY <1>5, <1>7, <3>1 DEF Rising
  <2> QED
    BY <2>1, <2>2, <2>3
<1>8. Rising(new, n)
  BY <1>7 DEF Rising
<1> QED
  BY <1>4, <1>5, <1>8, Zenon DEF IsLonger

\* What a body derives is cut where its symbols meet.
IsSections(cut, w, a, c, L, body, n) ==
    /\ cut \in [0 .. n -> Nat] /\ Rising(cut, n)
    /\ cut[0] = a /\ cut[n] = c
    /\ \A l \in 1 .. n : Section(w, cut[l - 1], cut[l]) \in Of(L, body[l])

LEMMA JoinedSections ==
    ASSUME NEW L, NEW T, NEW max, NEW body, Len(body) \in Nat,
           \A p \in L : p[2] \in Seq(T),
           NEW V, NEW w \in Seq(V), NEW a \in Nat, NEW b \in Nat, a <= b, b <= Len(w),
           Section(w, a, b) \in Joined(L, body, max)
    PROVE  \E cut : IsSections(cut, w, a, b, L, body, Len(body))
<1>6. ASSUME NEW c \in Nat, a <= c, c <= Len(w), NEW p \in Seq(T), NEW q \in Seq(T),
             Section(w, a, c) = p \o q
      PROVE  \E d : CutsAt(d, w, a, c, p, q)
  BY <1>6, SectionSplits, Zenon
<1>7. ASSUME NEW l \in Nat \ {0}, NEW cut \in [0 .. l - 1 -> Nat], Rising(cut, l - 1),
             NEW c \in Nat, cut[l - 1] <= c
      PROVE  \E new : IsLonger(new, cut, l, c)
  BY <1>7, RisingMore, Zenon
<1> DEFINE N == Len(body)
<1>1. PICK joined : /\ IsJoined(joined, L, body, max)
                    /\ Joined(L, body, max) = joined[N]
  BY JoinedRecursion
<1>2. \A k \in 0 .. N :
        joined[k] = IF k = 0 THEN {<<>>} ELSE Extended(L, body[k], max, joined[k - 1])
  BY <1>1, Zenon DEF IsJoined
<1>3. Len(w) \in Nat
  BY LenProperties
<1> DEFINE Cuts(k) == \A c \in Nat : a <= c /\ c <= Len(w) /\ Section(w, a, c) \in joined[k]
                        => \E cut : IsSections(cut, w, a, c, L, body, k)
           Holds(k) == joined[k] \subseteq Seq(T) /\ Cuts(k)
           bad == {k \in 0 .. N : ~ Holds(k)}
<1>4. bad = {}
  <2> SUFFICES ASSUME bad # {} PROVE FALSE
    OBVIOUS
  <2>1. bad \subseteq 0 .. N
    OBVIOUS
  <2>2. Holds(0)
    <3>1. joined[0] = {<<>>}
      BY <1>2
    <3>2. joined[0] \subseteq Seq(T)
      BY <3>1, EmptySeq
    <3>3. ASSUME NEW c \in Nat, a <= c, c <= Len(w), Section(w, a, c) \in joined[0]
          PROVE  \E cut : IsSections(cut, w, a, c, L, body, 0)
      <4>1. Len(Section(w, a, c)) = c - a /\ Len(Section(w, a, c)) = 0
        BY <3>1, <3>3, SectionIs, EmptySeq
      <4>2. PICK cut : cut = [i \in 0 .. 0 |-> a]
        OBVIOUS
      <4>3. /\ cut \in [0 .. 0 -> Nat] /\ cut[0] = a /\ c = a
            /\ \A i, j \in 0 .. 0 : i = 0 /\ j = 0
        BY <4>1, <4>2
      <4>4. Rising(cut, 0)
        BY <4>3 DEF Rising
      <4>5. \A l \in 1 .. 0 : FALSE
        OBVIOUS
      <4> QED
        BY <4>3, <4>4, <4>5 DEF IsSections
    <3> QED
      BY <3>2, <3>3
  <2>3. 0 \notin bad
    BY <2>2
  <2> HIDE DEF bad, Holds
  <2>4. PICK l \in bad : l # 0 /\ l - 1 \in 0 .. N /\ l - 1 \notin bad
    BY <2>1, <2>3, FailsFirst
  <2>5. l \in 0 .. N /\ ~ Holds(l) /\ Holds(l - 1) /\ l \in Nat \ {0}
    BY <2>4 DEF bad
  <2>6. joined[l] = Extended(L, body[l], max, joined[l - 1])
    BY <1>2, <2>4, <2>5
  <2>7. joined[l - 1] \subseteq Seq(T) /\ Cuts(l - 1)
    BY <2>5 DEF Holds
  <2>8. ASSUME NEW s \in joined[l]
        PROVE  \E p \in Seq(T), q \in Seq(T) :
                 s = p \o q /\ p \in joined[l - 1] /\ q \in Of(L, body[l])
    <3>1. PICK pq \in joined[l - 1] \X Of(L, body[l]) : s = pq[1] \o pq[2]
      BY <2>6, Zenon DEF Extended
    <3>2. pq[1] \in joined[l - 1] /\ pq[2] \in Of(L, body[l])
      BY <3>1
    <3>3. pq[2] \in Seq(T)
      BY <3>2 DEF Of
    <3> QED
      BY <2>7, <3>1, <3>2, <3>3
  <2>9. joined[l] \subseteq Seq(T)
    <3> SUFFICES ASSUME NEW s \in joined[l] PROVE s \in Seq(T)
      OBVIOUS
    <3>1. PICK p \in Seq(T), q \in Seq(T) : s = p \o q
      BY <2>8
    <3> QED
      BY <3>1, ConcatProperties
  <2>10. ASSUME NEW c \in Nat, a <= c, c <= Len(w), Section(w, a, c) \in joined[l]
         PROVE  \E cut : IsSections(cut, w, a, c, L, body, l)
    <3>1. PICK p \in Seq(T), q \in Seq(T) :
            /\ Section(w, a, c) = p \o q
            /\ p \in joined[l - 1] /\ q \in Of(L, body[l])
      BY <2>8, <2>10
    <3>2. PICK d : /\ d \in Nat /\ a <= d /\ d <= c
                   /\ p = Section(w, a, d) /\ q = Section(w, d, c)
      <4>1. \E d : CutsAt(d, w, a, c, p, q)
        BY <1>6, <2>10, <3>1, Zenon
      <4> QED
        BY <4>1 DEF CutsAt
    <3>3. d <= Len(w)
      BY <1>3, <2>10, <3>2
    <3>4. PICK cut : IsSections(cut, w, a, d, L, body, l - 1)
      BY <2>7, <3>1, <3>2, <3>3
    <3>5. PICK new : IsLonger(new, cut, l, c)
      <4>1. /\ cut \in [0 .. l - 1 -> Nat] /\ Rising(cut, l - 1)
            /\ cut[l - 1] <= c
        BY <3>2, <3>4 DEF IsSections
      <4> QED
        BY <1>7, <2>5, <4>1, Zenon
    <3>6. new[0] = a
      <4>1. 0 \in 0 .. l - 1
        BY <2>5
      <4> QED
        BY <3>4, <3>5, <4>1 DEF IsSections, IsLonger
    <3>7. ASSUME NEW m \in 1 .. l
          PROVE  Section(w, new[m - 1], new[m]) \in Of(L, body[m])
      <4>1. CASE m = l
        <5>1. l - 1 \in 0 .. l - 1
          BY <2>5
        <5>2. new[m - 1] = d /\ new[m] = c
          BY <3>4, <3>5, <4>1, <5>1 DEF IsSections, IsLonger
        <5> QED
          BY <3>1, <3>2, <4>1, <5>2
      <4>2. CASE m # l
        <5>1. m \in 1 .. l - 1 /\ m - 1 \in 0 .. l - 1 /\ m \in 0 .. l - 1
          BY <2>5, <4>2
        <5>2. new[m - 1] = cut[m - 1] /\ new[m] = cut[m]
          BY <3>5, <5>1 DEF IsLonger
        <5> QED
          BY <3>4, <5>1, <5>2 DEF IsSections
      <4> QED
        BY <4>1, <4>2
    <3>8. IsSections(new, w, a, c, L, body, l)
      BY <3>5, <3>6, <3>7 DEF IsSections, IsLonger
    <3> QED
      BY <3>8
  <2> QED
    BY <2>5, <2>9, <2>10 DEF Holds
<1>5. Cuts(N)
  BY <1>4
<1> QED
  BY <1>1, <1>5

-----------------------------------------------------------------------------
\* Bodies and their places.
LEMMA BodyPlaces ==
    ASSUME NEW R \in Grammars, NEW r \in DOMAIN R
    PROVE  /\ Len(Body(R[r])) \in Nat /\ DOMAIN Body(R[r]) = 1 .. Len(Body(R[r]))
           /\ R[r].nonTerminal \in LeftSides(R)
           /\ \A l \in 1 .. Len(Body(R[r])) :
                /\ <<r, l>> \in Places(R)
                /\ SymbolAt(R, <<r, l>>) = Body(R[r])[l]
                /\ LeftSide(R, <<r, l>>) = R[r].nonTerminal
                /\ Body(R[r])[l] \in LeftSides(R) \cup Terminals(R)
                /\ Body(R[r])[l] # EPSILON
<1>0. R[r].nonTerminal \in LeftSides(R)
  BY DEF LeftSides
<1>1. CASE IsEpsilonRule(R[r])
  <2>1. Body(R[r]) = <<>> /\ Len(Body(R[r])) = 0
    BY <1>1, EmptySeq DEF Body, IsEpsilonRule
  <2> QED
    BY <1>0, <2>1
<1>2. CASE ~ IsEpsilonRule(R[r])
  <2>1. Body(R[r]) = R[r].development
    BY <1>2 DEF Body, IsEpsilonRule
  <2>2. /\ Len(R[r].development) \in Nat
        /\ DOMAIN R[r].development = 1 .. Len(R[r].development)
    BY GrammarFacts
  <2>3. ASSUME NEW l \in 1 .. Len(R[r].development)
        PROVE  /\ <<r, l>> \in Places(R)
               /\ SymbolAt(R, <<r, l>>) = R[r].development[l]
               /\ LeftSide(R, <<r, l>>) = R[r].nonTerminal
               /\ R[r].development[l] \in LeftSides(R) \cup Terminals(R)
               /\ R[r].development[l] # EPSILON
    <3>1. <<r, l>> \in Places(R)
      BY <1>2, IsPlace
    <3>2. <<r, l>>[1] = r /\ <<r, l>>[2] = l
      OBVIOUS
    <3>3. /\ SymbolAt(R, <<r, l>>) = R[r].development[l]
          /\ LeftSide(R, <<r, l>>) = R[r].nonTerminal
      BY <2>1, <3>2 DEF SymbolAt, LeftSide
    <3> QED
      BY <3>1, <3>3, SymbolAtIs
  <2> QED
    BY <1>0, <2>1, <2>2, <2>3
<1> QED
  BY <1>1, <1>2

\* A nonterminal is nullable if all of one of its bodies is.
LEMMA NullableClosed ==
    ASSUME NEW R \in Grammars, NEW r \in DOMAIN R,
           \A l \in 1 .. Len(Body(R[r])) : Body(R[r])[l] \in Nullable(R)
    PROVE  R[r].nonTerminal \in Nullable(R)
<1> DEFINE f == [q \in DOMAIN R |-> <<R[q].nonTerminal, ToSet(Body(R[q]))>>]
           inferences == {<<R[q].nonTerminal, ToSet(Body(R[q]))>> : q \in DOMAIN R}
           i == <<R[r].nonTerminal, ToSet(Body(R[r]))>>
<1>1. IsFiniteSet(inferences)
  <2>1. inferences = {f[q] : q \in DOMAIN R}
    BY Zenon
  <2>2. DOMAIN f = DOMAIN R
    OBVIOUS
  <2> HIDE DEF f
  <2> QED
    BY <2>1, <2>2, PlacesFinite, ImageFinite
<1>2. i \in inferences /\ i[1] = R[r].nonTerminal /\ i[2] = ToSet(Body(R[r]))
  OBVIOUS
<1>3. Nullable(R) = Inferred(inferences)
  BY DEF Nullable
<1>4. ToSet(Body(R[r])) \subseteq Nullable(R)
  <2>1. DOMAIN Body(R[r]) = 1 .. Len(Body(R[r]))
    BY BodyPlaces
  <2> QED
    BY <2>1 DEF ToSet
<1> HIDE DEF inferences, i
<1>5. i[2] \subseteq Inferred(inferences)
  BY <1>2, <1>3, <1>4
<1>6. i[1] \in Inferred(inferences)
  BY <1>1, <1>2, <1>5, InferredClosed, Zenon
<1> QED
  BY <1>2, <1>3, <1>6

\* The sets follow what the places say.
LEMMA FollowClosed ==
    ASSUME NEW R \in Grammars
    PROVE  /\ <<R[1].nonTerminal, END>> \in Follow(R)
           /\ \A pq \in NextPlaces(R) : \A t \in Of(First(R), SymbolAt(R, pq[2])) :
                <<SymbolAt(R, pq[1]), t>> \in Follow(R)
           /\ \A p \in LastPlaces(R) : \A t \in Terminals(R) \cup {END} :
                <<LeftSide(R, p), t>> \in Follow(R) => <<SymbolAt(R, p), t>> \in Follow(R)
<1>1. \A i \in FollowFacts(R) : i[2] \subseteq Follow(R) => i[1] \in Follow(R)
  BY FollowIs, InferredClosed, Zenon
<1>2. ASSUME NEW f \in Together(R) \cup {<<R[1].nonTerminal, END>>}
      PROVE  f \in Follow(R)
  <2>1. <<f, {}>> \in FollowFacts(R)
    BY DEF FollowFacts
  <2>2. \A i : i = <<f, {}>> => i[1] = f /\ i[2] = {}
    OBVIOUS
  <2> QED
    BY <1>1, <2>1, <2>2
<1>3. ASSUME NEW pq \in NextPlaces(R), NEW t \in Of(First(R), SymbolAt(R, pq[2]))
      PROVE  <<SymbolAt(R, pq[1]), t>> \in Follow(R)
  <2>1. <<SymbolAt(R, pq[1]), t>> \in Together(R)
    BY DEF Together
  <2> QED
    BY <1>2, <2>1
<1>4. ASSUME NEW p \in LastPlaces(R), NEW t \in Terminals(R) \cup {END},
             <<LeftSide(R, p), t>> \in Follow(R)
      PROVE  <<SymbolAt(R, p), t>> \in Follow(R)
  <2> DEFINE pt == <<p, t>>
             i == <<<<SymbolAt(R, p), t>>, {<<LeftSide(R, p), t>>}>>
  <2>1. pt \in LastPlaces(R) \X (Terminals(R) \cup {END})
    OBVIOUS
  <2>2. i = <<<<SymbolAt(R, pt[1]), pt[2]>>, {<<LeftSide(R, pt[1]), pt[2]>>}>>
    OBVIOUS
  <2>3. i \in FollowFacts(R)
    BY <2>1, <2>2, Zenon DEF FollowFacts
  <2>4. i[1] = <<SymbolAt(R, p), t>> /\ i[2] = {<<LeftSide(R, p), t>>}
    OBVIOUS
  <2>5. i[2] \subseteq Follow(R)
    BY <1>4, <2>4
  <2> HIDE DEF i
  <2> QED
    BY <1>1, <2>3, <2>4, <2>5, Zenon
<1> QED
  BY <1>2, <1>3, <1>4, Zenon

LEMMA OfFollow ==
    ASSUME NEW R \in Grammars
    PROVE  \A A, t : t \in Of(Follow(R), A) <=>
                       <<A, t>> \in Follow(R) /\ t \in Terminals(R) \cup {END}
<1> DEFINE N == LeftSides(R) \cup Terminals(R)
           T == Terminals(R) \cup {END}
           S == N \X T
<1>1. <<R[1].nonTerminal, END>> \in S
  <2>1. 1 \in DOMAIN R
    BY GrammarFacts
  <2> QED
    BY <2>1 DEF LeftSides
<1>2. ASSUME NEW pq \in NextPlaces(R), NEW t \in Of(First(R), SymbolAt(R, pq[2]))
      PROVE  <<SymbolAt(R, pq[1]), t>> \in S
  <2>1. <<SymbolAt(R, pq[1]), t>> \in Together(R)
    BY DEF Together
  <2>2. Together(R) \subseteq N \X Terminals(R)
    BY TogetherAre
  <2> QED
    BY <2>1, <2>2
<1>3. ASSUME NEW p \in LastPlaces(R), NEW t \in T, <<LeftSide(R, p), t>> \in S
      PROVE  <<SymbolAt(R, p), t>> \in S
  <2>1. SymbolAt(R, p) \in N
    <3>1. p \in Places(R)
      BY DEF LastPlaces
    <3> QED
      BY <3>1, SymbolAtIs
  <2> QED
    BY <2>1
<1> HIDE DEF S
<1>4. Follow(R) \subseteq S
  BY <1>1, <1>2, <1>3, FollowWithin
<1> HIDE DEF N, T
<1>5. \A A, t : t \in Of(Follow(R), A) <=> <<A, t>> \in Follow(R)
  <2>1. Follow(R) \subseteq N \X T
    BY <1>4 DEF S
  <2> QED
    BY <2>1, OfIs
<1>6. \A A, t : <<A, t>> \in Follow(R) => t \in T
  BY <1>4 DEF S
<1> QED
  BY <1>5, <1>6 DEF T

-----------------------------------------------------------------------------
\* Sections of a word.
LEMMA SectionsOfWord ==
    ASSUME NEW V, NEW w \in Seq(V)
    PROVE  /\ Len(w) \in Nat /\ Section(w, 0, Len(w)) = w
           /\ \A a \in Nat : a <= Len(w) => Section(w, a, a) = <<>>
           /\ \A a, b \in Nat : a < b /\ b <= Len(w) =>
                /\ Section(w, a, b) # <<>>
                /\ Section(w, a, b)[1] = w[a + 1] /\ w[a + 1] \in V
<1>1. Len(w) \in Nat
  BY LenProperties
<1>2. Section(w, 0, Len(w)) = w
  <2> DEFINE s == Section(w, 0, Len(w))
  <2>1. s \in Seq(V) /\ Len(s) = Len(w)
    <3>1. 0 \in Nat /\ 0 <= Len(w) /\ Len(w) <= Len(w) /\ Len(w) - 0 = Len(w)
      BY <1>1
    <3> QED
      BY <1>1, <3>1, SectionIs
  <2>2. \A k \in 1 .. Len(s) : s[k] = w[k]
    <3>1. Len(w) - 0 = Len(w) /\ \A k \in 1 .. Len(w) : 0 + k = k
      BY <1>1
    <3> QED
      BY <2>1, <3>1 DEF Section
  <2> HIDE DEF s
  <2> QED
    BY <2>1, <2>2, SeqEqual DEF s
<1>3. ASSUME NEW a \in Nat, a <= Len(w) PROVE Section(w, a, a) = <<>>
  <2>1. Section(w, a, a) \in Seq(V) /\ Len(Section(w, a, a)) = 0
    <3>1. a <= a /\ a - a = 0
      OBVIOUS
    <3> QED
      BY <1>3, <3>1, SectionIs
  <2> QED
    BY <2>1, EmptySeq
<1>4. ASSUME NEW a \in Nat, NEW b \in Nat, a < b, b <= Len(w)
      PROVE  /\ Section(w, a, b) # <<>>
             /\ Section(w, a, b)[1] = w[a + 1] /\ w[a + 1] \in V
  <2>1. Len(Section(w, a, b)) = b - a
    <3>1. a <= b
      BY <1>4
    <3> QED
      BY <1>4, <3>1, SectionIs
  <2>2. Len(Section(w, a, b)) # 0 /\ 1 \in 1 .. b - a /\ a + 1 \in 1 .. Len(w)
    BY <1>1, <1>4, <2>1
  <2> QED
    BY <2>2, EmptySeq, ElementOfSeq DEF Section
<1> QED
  BY <1>1, <1>2, <1>3, <1>4

\* Only a nullable symbol derives the empty string.
LEMMA EmptyIsNullable ==
    ASSUME NEW R \in Grammars, NEW max \in Nat, NEW p \in Sentences(R, max), p[2] = <<>>
    PROVE  p[1] \in Nullable(R)
<1>1. PICK k \in Nat : \E g :
        /\ g[k] = Sentences(R, max)
        /\ \A n \in 0 .. k : /\ g[n] \subseteq Sentences(R, max)
                            /\ \A q \in g[n] : IsPart(q, n, g, R, max)
  BY SentenceParts
<1>2. PICK g :
        /\ g[k] = Sentences(R, max)
        /\ \A n \in 0 .. k : /\ g[n] \subseteq Sentences(R, max)
                            /\ \A q \in g[n] : IsPart(q, n, g, R, max)
  BY <1>1
<1> DEFINE bad == {n \in 0 .. k : \E q \in g[n] : q[2] = <<>> /\ q[1] \notin Nullable(R)}
<1> SUFFICES ASSUME p[1] \notin Nullable(R) PROVE FALSE
  OBVIOUS
<1>3. bad # {} /\ bad \subseteq Nat
  <2>1. k \in 0 .. k
    OBVIOUS
  <2>2. p \in g[k]
    BY <1>2
  <2> QED
    BY <2>1, <2>2
<1>4. PICK n \in bad : \A m \in bad : n <= m
  <2> HIDE DEF bad
  <2> QED
    BY <1>3, LeastOfNats
<1>5. PICK q \in g[n] : q[2] = <<>> /\ q[1] \notin Nullable(R)
  BY <1>4
<1>6. n \in 0 .. k
  BY <1>4
<1>7. IsPart(q, n, g, R, max)
  BY <1>2, <1>5, <1>6
<1>8. q \notin Alone(R)
  <2> SUFFICES ASSUME NEW t \in Terminals(R), q = <<t, <<t>>>> PROVE FALSE
    BY DEF Alone
  <2>1. q[2] = <<t>>
    OBVIOUS
  <2> QED
    BY <1>5, <2>1
<1>9. PICK m \in 0 .. n - 1 : \E r \in DOMAIN R :
        q[1] = R[r].nonTerminal /\ q[2] \in Joined(g[m], Body(R[r]), max)
  BY <1>7, <1>8 DEF IsPart
<1>10. PICK r \in DOMAIN R :
        q[1] = R[r].nonTerminal /\ q[2] \in Joined(g[m], Body(R[r]), max)
  BY <1>9
<1>11. m \in 0 .. k /\ m \notin bad
  BY <1>4, <1>6
<1> HIDE DEF bad
<1> DEFINE T == Terminals(R)
           body == Body(R[r])
<1>12. \A x \in g[m] : x[2] \in Seq(T)
  BY <1>2, <1>11, Zenon DEF IsPart
<1>13. /\ Len(body) \in Nat
       /\ <<>> \in Seq(T) /\ Len(<<>>) = 0 /\ Section(<<>>, 0, 0) = <<>>
  <2>1. <<>> \in Seq(T) /\ Len(<<>>) = 0
    BY EmptySeq
  <2>2. Len(body) \in Nat
    BY BodyPlaces
  <2> HIDE DEF T, body
  <2>3. Section(<<>>, 0, Len(<<>>)) = <<>>
    BY <2>1, SectionsOfWord, Zenon
  <2> QED
    BY <2>1, <2>2, <2>3
<1> HIDE DEF T
<1>14. PICK cut : IsSections(cut, <<>>, 0, 0, g[m], body, Len(body))
  <2> HIDE DEF body
  <2>1. PICK w : w = <<>>
    OBVIOUS
  <2>2. w \in Seq(T) /\ 0 <= 0 /\ 0 <= Len(w) /\ Section(w, 0, 0) \in Joined(g[m], body, max)
    BY <1>5, <1>10, <1>13, <2>1 DEF body
  <2>3. \E cut : IsSections(cut, w, 0, 0, g[m], body, Len(body))
    BY <1>12, <1>13, <2>2, JoinedSections
  <2> QED
    BY <2>1, <2>3
<1>15. ASSUME NEW l \in 1 .. Len(body) PROVE body[l] \in Nullable(R)
  <2>1. \A i \in 0 .. Len(body) : cut[i] = 0
    <3> HIDE DEF body
    <3> SUFFICES ASSUME NEW i \in 0 .. Len(body) PROVE cut[i] = 0
      OBVIOUS
    <3>1. i <= Len(body) /\ Len(body) \in 0 .. Len(body)
      BY <1>13
    <3>2. cut[i] \in Nat /\ cut[i] <= cut[Len(body)] /\ cut[Len(body)] = 0
      BY <1>14, <3>1 DEF IsSections, Rising
    <3> QED
      BY <3>2
  <2>2. l - 1 \in 0 .. Len(body) /\ l \in 0 .. Len(body)
    BY <1>13
  <2>3. <<>> \in Of(g[m], body[l])
    <3>1. Section(<<>>, cut[l - 1], cut[l]) \in Of(g[m], body[l])
      BY <1>14, <1>15 DEF IsSections
    <3> QED
      BY <1>13, <2>1, <2>2, <3>1
  <2>4. PICK x \in g[m] : x[1] = body[l] /\ x[2] = <<>>
    BY <2>3 DEF Of
  <2> QED
    BY <1>11, <2>4 DEF bad
<1>16. R[r].nonTerminal \in Nullable(R)
  BY <1>15, NullableClosed
<1> QED
  BY <1>5, <1>10, <1>16

\* From one cut of a body on: nothing more is read, or the first symbol that
\* reads something begins with the next terminal.
Spans(R, r, cut, w, d) ==
    LET n == Len(Body(R[r]))
    IN \/ /\ cut[n] = cut[d]
          /\ \A m \in d + 1 .. n : Body(R[r])[m] \in Nullable(R)
       \/ /\ cut[d] < cut[n]
          /\ \E l \in d + 1 .. n :
               /\ \A m \in d + 1 .. l - 1 : Body(R[r])[m] \in Nullable(R)
               /\ <<Body(R[r])[l], w[cut[d] + 1]>> \in First(R)

LEMMA FirstSpan ==
    ASSUME NEW R \in Grammars, NEW r \in DOMAIN R, NEW n \in Nat, n = Len(Body(R[r])),
           NEW w, NEW cut \in [0 .. n -> Nat], Rising(cut, n), NEW d \in 0 .. n,
           \A l \in 1 .. n :
             /\ cut[l - 1] = cut[l] => Body(R[r])[l] \in Nullable(R)
             /\ cut[l - 1] < cut[l] => <<Body(R[r])[l], w[cut[l - 1] + 1]>> \in First(R)
    PROVE  Spans(R, r, cut, w, d)
<1> DEFINE body == Body(R[r])
           S == {l \in d .. n : cut[l] # cut[d]}
<1>1. \A l \in d .. n : l \in 0 .. n /\ cut[l] \in Nat /\ cut[l] <= cut[n]
  <2> SUFFICES ASSUME NEW l \in d .. n
               PROVE  l \in 0 .. n /\ cut[l] \in Nat /\ cut[l] <= cut[n]
    OBVIOUS
  <2>1. l \in 0 .. n /\ l <= n /\ n \in 0 .. n
    OBVIOUS
  <2> QED
    BY <2>1 DEF Rising
<1>2. ASSUME NEW e \in d .. n, \A l \in d .. e : cut[l] = cut[d]
      PROVE  \A m \in d + 1 .. e : body[m] \in Nullable(R)
  <2> SUFFICES ASSUME NEW m \in d + 1 .. e PROVE body[m] \in Nullable(R)
    OBVIOUS
  <2>1. m \in d .. e /\ m - 1 \in d .. e /\ m \in 1 .. n
    OBVIOUS
  <2> QED
    BY <1>2, <2>1
<1>3. CASE S = {}
  <2>1. \A l \in d .. n : cut[l] = cut[d]
    BY <1>3
  <2>2. n \in d .. n
    OBVIOUS
  <2>3. \A m \in d + 1 .. n : body[m] \in Nullable(R)
    BY <1>2, <2>1, <2>2
  <2> QED
    BY <2>1, <2>2, <2>3 DEF Spans
<1>4. CASE S # {}
  <2>1. PICK l \in S : \A m \in S : l <= m
    <3>1. S \subseteq Nat
      OBVIOUS
    <3> HIDE DEF S
    <3> QED
      BY <1>4, <3>1, LeastOfNats
  <2>2. l \in d .. n /\ cut[l] # cut[d]
    BY <2>1
  <2>3. \A m \in d .. n : m < l => cut[m] = cut[d]
    <3> SUFFICES ASSUME NEW m \in d .. n, m < l, cut[m] # cut[d] PROVE FALSE
      OBVIOUS
    <3>1. m \in S
      BY <3>1
    <3>2. l <= m
      BY <2>1, <3>1
    <3> QED
      BY <2>2, <3>2
  <2> HIDE DEF S
  <2>4. l # d
    BY <2>2
  <2>5. /\ l \in d + 1 .. n /\ l \in 1 .. n /\ l - 1 \in d .. n /\ l - 1 < l /\ d \in d .. n
        /\ l - 1 \in 0 .. n /\ l \in 0 .. n /\ d <= l
    BY <2>2, <2>4
  <2>6. cut[l - 1] = cut[d]
    BY <2>3, <2>5
  <2>7. cut[d] <= cut[l] /\ cut[d] \in Nat /\ cut[l] \in Nat /\ cut[l] <= cut[n] /\ cut[n] \in Nat
    <3>1. n \in d .. n
      OBVIOUS
    <3> QED
      BY <1>1, <2>2, <2>5, <3>1 DEF Rising
  <2>8. cut[l - 1] < cut[l] /\ cut[d] < cut[n]
    BY <2>2, <2>6, <2>7
  <2>9. <<body[l], w[cut[d] + 1]>> \in First(R)
    BY <2>5, <2>6, <2>8
  <2>10. \A m \in d + 1 .. l - 1 : body[m] \in Nullable(R)
    <3>1. \A m \in d .. l - 1 : m \in d .. n /\ m < l
      BY <2>5
    <3>2. \A m \in d .. l - 1 : cut[m] = cut[d]
      BY <2>3, <3>1
    <3> QED
      BY <1>2, <2>5, <3>2
  <2> QED
    BY <2>5, <2>8, <2>9, <2>10, Zenon DEF Spans
<1> QED
  BY <1>3, <1>4

\* What a symbol derives begins with one of its FIRST.
LEMMA FirstOfSentence ==
    ASSUME NEW R \in Grammars, NEW max \in Nat, NEW p \in Sentences(R, max), p[2] # <<>>
    PROVE  <<p[1], p[2][1]>> \in First(R)
<1>1. PICK k \in Nat : \E g :
        /\ g[k] = Sentences(R, max)
        /\ \A n \in 0 .. k : /\ g[n] \subseteq Sentences(R, max)
                            /\ \A q \in g[n] : IsPart(q, n, g, R, max)
  BY SentenceParts
<1>2. PICK g :
        /\ g[k] = Sentences(R, max)
        /\ \A n \in 0 .. k : /\ g[n] \subseteq Sentences(R, max)
                            /\ \A q \in g[n] : IsPart(q, n, g, R, max)
  BY <1>1
<1> DEFINE Fails(q) == q[2] # <<>> /\ <<q[1], q[2][1]>> \notin First(R)
           bad == {n \in 0 .. k : \E q \in g[n] : Fails(q)}
<1> SUFFICES ASSUME Fails(p) PROVE FALSE
  OBVIOUS
<1>3. bad # {} /\ bad \subseteq Nat
  <2>1. k \in 0 .. k
    OBVIOUS
  <2>2. p \in g[k] /\ k \in bad
    <3>1. p \in g[k]
      BY <1>2
    <3> HIDE DEF Fails
    <3> QED
      BY <2>1, <3>1, Zenon
  <2> HIDE DEF Fails
  <2> QED
    BY <2>1, <2>2
<1>4. PICK n \in bad : \A m \in bad : n <= m
  <2> HIDE DEF bad
  <2> QED
    BY <1>3, LeastOfNats
<1>5. PICK q \in g[n] : Fails(q)
  BY <1>4
<1>6. n \in 0 .. k
  BY <1>4
<1>7. IsPart(q, n, g, R, max)
  BY <1>2, <1>5, <1>6
<1>8. q \notin Alone(R)
  <2> SUFFICES ASSUME NEW t \in Terminals(R), q = <<t, <<t>>>> PROVE FALSE
    BY DEF Alone
  <2>1. q[1] = t /\ q[2][1] = t
    OBVIOUS
  <2>2. <<t, t>> \in First(R)
    BY FirstClosed
  <2> QED
    BY <1>5, <2>1, <2>2
<1>9. PICK m \in 0 .. n - 1 : \E r \in DOMAIN R :
        q[1] = R[r].nonTerminal /\ q[2] \in Joined(g[m], Body(R[r]), max)
  BY <1>7, <1>8 DEF IsPart
<1>10. PICK r \in DOMAIN R :
        q[1] = R[r].nonTerminal /\ q[2] \in Joined(g[m], Body(R[r]), max)
  BY <1>9
<1>11. m \in 0 .. k /\ m \notin bad
  <2> HIDE DEF bad, Fails
  <2>1. n \in Nat /\ ~ (n <= m)
    BY <1>6
  <2> QED
    BY <1>4, <1>6, <2>1
<1>12. \A x \in g[m] : ~ Fails(x)
  BY <1>11
<1> HIDE DEF bad
<1> DEFINE T == Terminals(R)
           body == Body(R[r])
<1>13. \A x \in g[m] : x[2] \in Seq(T) /\ x \in Sentences(R, max)
  BY <1>2, <1>11, Zenon DEF IsPart
<1> HIDE DEF Fails
<1>14. PICK w : w = q[2] /\ w \in Seq(T) /\ w # <<>> /\ <<q[1], w[1]>> \notin First(R)
  BY <1>5, <1>7, Zenon DEF IsPart, Fails
<1>15. Len(body) \in Nat /\ Len(w) \in Nat \ {0} /\ Section(w, 0, Len(w)) = w
  <2> HIDE DEF T
  <2>1. Len(body) \in Nat
    BY BodyPlaces
  <2>2. Len(w) \in Nat /\ Section(w, 0, Len(w)) = w
    BY <1>14, SectionsOfWord
  <2>3. Len(w) # 0
    BY <1>14, EmptySeq
  <2> QED
    BY <2>1, <2>2, <2>3
<1>16. PICK cut : IsSections(cut, w, 0, Len(w), g[m], body, Len(body))
  <2> HIDE DEF body, T
  <2>1. 0 \in Nat /\ 0 <= Len(w) /\ Len(w) <= Len(w)
        /\ Section(w, 0, Len(w)) \in Joined(g[m], body, max)
    BY <1>10, <1>14, <1>15 DEF body
  <2>2. \A x \in g[m] : x[2] \in Seq(T)
    BY <1>13
  <2> QED
    BY <1>14, <1>15, <2>1, <2>2, JoinedSections
<1> HIDE DEF T
<1>17. /\ cut \in [0 .. Len(body) -> Nat] /\ Rising(cut, Len(body))
       /\ cut[0] = 0 /\ cut[Len(body)] = Len(w)
       /\ \A l \in 1 .. Len(body) :
            Section(w, cut[l - 1], cut[l]) \in Of(g[m], body[l])
  BY <1>16, Zenon DEF IsSections
<1>18. ASSUME NEW l \in 1 .. Len(body)
       PROVE  /\ cut[l - 1] = cut[l] => body[l] \in Nullable(R)
              /\ cut[l - 1] < cut[l] => <<body[l], w[cut[l - 1] + 1]>> \in First(R)
  <2> HIDE DEF body
  <2>1. PICK x \in g[m] : x[1] = body[l] /\ x[2] = Section(w, cut[l - 1], cut[l])
    BY <1>17 DEF Of
  <2>2. PICK a \in Nat, b \in Nat : a = cut[l - 1] /\ b = cut[l] /\ b <= Len(w)
    <3>1. l - 1 \in 0 .. Len(body) /\ l \in 0 .. Len(body)
          /\ Len(body) \in 0 .. Len(body) /\ l <= Len(body)
      BY <1>15
    <3>2. cut[l] <= cut[Len(body)]
      BY <1>17, <3>1 DEF Rising
    <3> QED
      BY <1>17, <3>1, <3>2
  <2>3. ASSUME a = b PROVE body[l] \in Nullable(R)
    <3>1. x[2] = <<>>
      BY <1>14, <2>1, <2>2, <2>3, SectionsOfWord
    <3> QED
      BY <1>13, <2>1, <3>1, EmptyIsNullable
  <2>4. ASSUME a < b PROVE <<body[l], w[a + 1]>> \in First(R)
    <3>1. x[2] # <<>> /\ x[2][1] = w[a + 1]
      <4>1. x[2] = Section(w, a, b)
        BY <2>1, <2>2
      <4>2. w \in Seq(T)
        BY <1>14
      <4>3. \A i, j \in Nat : i < j /\ j <= Len(w) =>
                /\ Section(w, i, j) # <<>>
                /\ Section(w, i, j)[1] = w[i + 1] /\ w[i + 1] \in T
        BY <4>2, SectionsOfWord
      <4>4. Section(w, a, b) # <<>> /\ Section(w, a, b)[1] = w[a + 1]
        BY <2>2, <2>4, <4>3
      <4> QED
        BY <4>1, <4>4
    <3> QED
      BY <1>12, <2>1, <3>1 DEF Fails
  <2> QED
    BY <2>2, <2>3, <2>4
<1>19. Spans(R, r, cut, w, 0)
  <2>1. 0 \in 0 .. Len(body)
    BY <1>15
  <2> QED
    BY <1>15, <1>17, <1>18, <2>1, FirstSpan
<1>20. PICK l \in 1 .. Len(body) : /\ \A i \in 1 .. l - 1 : body[i] \in Nullable(R)
                                  /\ <<body[l], w[1]>> \in First(R)
  <2>1. ~ (cut[Len(body)] = cut[0]) /\ 0 + 1 = 1 /\ cut[0] + 1 = 1
    BY <1>15, <1>17
  <2> QED
    BY <1>19, <2>1 DEF Spans
<1>21. /\ <<r, l>> \in Places(R) /\ SymbolAt(R, <<r, l>>) = body[l]
       /\ LeftSide(R, <<r, l>>) = R[r].nonTerminal
  BY BodyPlaces
<1>22. <<r, l>> \in FirstPlaces(R)
  <2>1. <<r, l>>[1] = r /\ <<r, l>>[2] = l /\ 0 + 1 = 1
    OBVIOUS
  <2>2. Vanish(R, r, 0, l)
    BY <1>20, <2>1 DEF Vanish
  <2> QED
    BY <1>21, <2>1, <2>2, Zenon DEF FirstPlaces
<1>23. w[1] \in Terminals(R)
  <2>1. 1 \in 1 .. Len(w)
    BY <1>15
  <2> QED
    BY <1>14, <2>1, ElementOfSeq DEF T
<1>24. <<R[r].nonTerminal, w[1]>> \in First(R)
  BY <1>20, <1>21, <1>22, <1>23, FirstClosed
<1> QED
  BY <1>10, <1>14, <1>24

LEMMA SectionBegins ==
    ASSUME NEW R \in Grammars, NEW max \in Nat, NEW V, NEW w \in Seq(V), NEW X,
           NEW a \in Nat, NEW b \in Nat, a <= b, b <= Len(w),
           <<X, Section(w, a, b)>> \in Sentences(R, max)
    PROVE  /\ a = b => X \in Nullable(R)
           /\ a < b => <<X, w[a + 1]>> \in First(R)
<1>1. PICK p \in Sentences(R, max) : p[1] = X /\ p[2] = Section(w, a, b)
  <2>1. <<X, Section(w, a, b)>>[1] = X /\ <<X, Section(w, a, b)>>[2] = Section(w, a, b)
    OBVIOUS
  <2> QED
    BY <2>1
<1>2. ASSUME a = b PROVE X \in Nullable(R)
  <2>1. p[2] = <<>>
    BY <1>1, <1>2, SectionsOfWord
  <2> QED
    BY <1>1, <2>1, EmptyIsNullable
<1>3. ASSUME a < b PROVE <<X, w[a + 1]>> \in First(R)
  <2>1. p[2] # <<>> /\ p[2][1] = w[a + 1]
    <3>1. /\ Section(w, a, b) # <<>>
          /\ Section(w, a, b)[1] = w[a + 1] /\ w[a + 1] \in V
      BY <1>3, SectionsOfWord
    <3> QED
      BY <1>1, <3>1
  <2>2. <<p[1], p[2][1]>> \in First(R)
    BY <2>1, FirstOfSentence
  <2> QED
    BY <1>1, <2>1, <2>2
<1> QED
  BY <1>2, <1>3

\* The key that is read at a position, with the end marker behind the word.
KeyAt(w, k) == IF k <= Len(w) THEN w[k] ELSE END

\* The body of a rule derives the word between the first cut and the last.
IsDerived(R, max, r, cut, w) ==
    LET n == Len(Body(R[r]))
    IN /\ cut \in [0 .. n -> Nat] /\ Rising(cut, n) /\ cut[n] <= Len(w)
       /\ \A l \in 1 .. n :
            <<Body(R[r])[l], Section(w, cut[l - 1], cut[l])>> \in Sentences(R, max)

LEMMA CutsOfDerived ==
    ASSUME NEW R \in Grammars, NEW max \in Nat, NEW r \in DOMAIN R, NEW V, NEW w \in Seq(V),
           NEW cut, IsDerived(R, max, r, cut, w)
    PROVE  /\ Len(Body(R[r])) \in Nat /\ Len(w) \in Nat
           /\ \A l \in 0 .. Len(Body(R[r])) :
                /\ cut[l] \in Nat /\ cut[0] <= cut[l] /\ cut[l] <= cut[Len(Body(R[r]))]
                /\ cut[l] <= Len(w)
           /\ \A l \in 1 .. Len(Body(R[r])) :
                /\ l \in 0 .. Len(Body(R[r])) /\ l - 1 \in 0 .. Len(Body(R[r]))
                /\ cut[l - 1] <= cut[l]
<1> DEFINE n == Len(Body(R[r]))
<1>1. n \in Nat /\ Len(w) \in Nat
  BY BodyPlaces, LenProperties
<1>2. /\ cut \in [0 .. n -> Nat] /\ Rising(cut, n) /\ cut[n] <= Len(w)
  BY DEF IsDerived
<1> HIDE DEF n
<1>3. ASSUME NEW l \in 0 .. n
      PROVE  cut[l] \in Nat /\ cut[0] <= cut[l] /\ cut[l] <= cut[n] /\ cut[l] <= Len(w)
  <2>1. 0 \in 0 .. n /\ n \in 0 .. n /\ 0 <= l /\ l <= n
    BY <1>1
  <2>2. cut[l] \in Nat /\ cut[n] \in Nat /\ cut[0] <= cut[l] /\ cut[l] <= cut[n]
    BY <1>2, <2>1 DEF Rising
  <2> QED
    BY <1>1, <1>2, <2>2
<1>4. ASSUME NEW l \in 1 .. n
      PROVE  l \in 0 .. n /\ l - 1 \in 0 .. n /\ cut[l - 1] <= cut[l]
  <2>1. l \in 0 .. n /\ l - 1 \in 0 .. n /\ l - 1 <= l
    BY <1>1
  <2> QED
    BY <1>2, <2>1 DEF Rising
<1> QED
  BY <1>1, <1>3, <1>4 DEF n

\* What is read after a symbol of a body follows it, if what is read after the
\* body follows its left side.
LEMMA AfterSymbol ==
    ASSUME NEW R \in Grammars, NEW max \in Nat, NEW r \in DOMAIN R, NEW V, NEW w \in Seq(V),
           NEW cut, IsDerived(R, max, r, cut, w),
           KeyAt(w, cut[Len(Body(R[r]))] + 1) \in Of(Follow(R), R[r].nonTerminal),
           NEW d \in 1 .. Len(Body(R[r]))
    PROVE  KeyAt(w, cut[d] + 1) \in Of(Follow(R), Body(R[r])[d])
<1> DEFINE n == Len(Body(R[r]))
           body == Body(R[r])
<1>1. /\ n \in Nat /\ Len(w) \in Nat
      /\ \A l \in 0 .. n :
           cut[l] \in Nat /\ cut[l] <= cut[n] /\ cut[l] <= Len(w)
      /\ \A l \in 1 .. n : l \in 0 .. n /\ l - 1 \in 0 .. n /\ cut[l - 1] <= cut[l]
  BY CutsOfDerived, Zenon
<1>2. /\ cut \in [0 .. n -> Nat] /\ Rising(cut, n)
      /\ \A l \in 1 .. n :
           <<body[l], Section(w, cut[l - 1], cut[l])>> \in Sentences(R, max)
  BY Zenon DEF IsDerived
<1> HIDE DEF n
<1>3. ASSUME NEW l \in 1 .. n
      PROVE  /\ cut[l - 1] = cut[l] => body[l] \in Nullable(R)
             /\ cut[l - 1] < cut[l] => <<body[l], w[cut[l - 1] + 1]>> \in First(R)
  <2>1. PICK a \in Nat, b \in Nat : a = cut[l - 1] /\ b = cut[l] /\ a <= b /\ b <= Len(w)
    BY <1>1
  <2>2. <<body[l], Section(w, a, b)>> \in Sentences(R, max)
    BY <1>2, <2>1
  <2> HIDE DEF body
  <2>3. /\ a = b => body[l] \in Nullable(R)
        /\ a < b => <<body[l], w[a + 1]>> \in First(R)
    BY <2>1, <2>2, SectionBegins
  <2> QED
    BY <2>1, <2>3
<1>4. Spans(R, r, cut, w, d)
  <2>1. d \in 0 .. n /\ n = Len(Body(R[r]))
    BY <1>1 DEF n
  <2> QED
    BY <1>1, <1>2, <1>3, <2>1, FirstSpan
<1>5. /\ <<r, d>> \in Places(R) /\ SymbolAt(R, <<r, d>>) = body[d]
      /\ LeftSide(R, <<r, d>>) = R[r].nonTerminal
      /\ <<r, d>>[1] = r /\ <<r, d>>[2] = d
  BY BodyPlaces
<1> DEFINE here == <<r, d>>
<1> HIDE DEF body, here
<1>6. CASE /\ cut[n] = cut[d]
           /\ \A m \in d + 1 .. n : body[m] \in Nullable(R)
  <2>1. Vanish(R, r, d, n + 1)
    <3>1. (n + 1) - 1 = n
      BY <1>1
    <3>2. \A m \in d + 1 .. (n + 1) - 1 : body[m] \in Nullable(R)
      BY <1>6, <3>1, Zenon
    <3> QED
      BY <3>2, Zenon DEF Vanish, body
  <2>2. here \in LastPlaces(R)
    BY <1>5, <2>1, Zenon DEF LastPlaces, here, n
  <2>3. PICK t : t = KeyAt(w, cut[d] + 1)
    OBVIOUS
  <2>4. <<LeftSide(R, here), t>> \in Follow(R) /\ t \in Terminals(R) \cup {END}
    BY <1>5, <1>6, <2>3, OfFollow DEF here, n
  <2>5. <<SymbolAt(R, here), t>> \in Follow(R)
    BY <2>2, <2>4, FollowClosed
  <2> QED
    BY <1>5, <2>3, <2>4, <2>5, OfFollow DEF here, body
<1>7. CASE /\ cut[d] < cut[n]
           /\ \E l \in d + 1 .. n :
                /\ \A m \in d + 1 .. l - 1 : body[m] \in Nullable(R)
                /\ <<body[l], w[cut[d] + 1]>> \in First(R)
  <2>1. PICK l \in d + 1 .. n :
               /\ \A m \in d + 1 .. l - 1 : body[m] \in Nullable(R)
               /\ <<body[l], w[cut[d] + 1]>> \in First(R)
    BY <1>7
  <2>2. PICK t : t = w[cut[d] + 1]
    OBVIOUS
  <2>3. KeyAt(w, cut[d] + 1) = t
    <3>1. d \in 0 .. n /\ n \in 0 .. n
      BY <1>1 DEF n
    <3>2. cut[d] + 1 <= Len(w)
      BY <1>1, <1>7, <3>1
    <3> QED
      BY <2>2, <3>2 DEF KeyAt
  <2>4. /\ <<r, l>> \in Places(R) /\ SymbolAt(R, <<r, l>>) = body[l]
        /\ <<r, l>>[1] = r /\ <<r, l>>[2] = l /\ d < l
    <3>1. l \in 1 .. Len(Body(R[r])) /\ d < l
      BY <1>1 DEF n
    <3> QED
      BY <3>1, BodyPlaces DEF body
  <2> DEFINE there == <<r, l>>
             both == <<here, there>>
  <2>5. both[1] = here /\ both[2] = there /\ both \in Places(R) \X Places(R)
    BY <1>5, <2>4 DEF here
  <2> HIDE DEF there, both
  <2>6. both \in NextPlaces(R)
    <3>1. Vanish(R, r, d, l)
      BY <2>1 DEF Vanish, body
    <3>2. /\ both[1][1] = r /\ both[2][1] = r /\ both[1][2] = d /\ both[2][2] = l
      BY <1>5, <2>4, <2>5 DEF here, there
    <3> QED
      BY <2>4, <2>5, <3>1, <3>2, Zenon DEF NextPlaces
  <2>7. t \in Of(First(R), SymbolAt(R, both[2]))
    BY <2>1, <2>2, <2>4, <2>5, OfFirst DEF there
  <2>8. <<SymbolAt(R, both[1]), t>> \in Follow(R)
    BY <2>6, <2>7, FollowClosed, Zenon
  <2>9. t \in Terminals(R)
    <3>1. <<body[l], t>> \in First(R)
      BY <2>1, <2>2
    <3> QED
      BY <3>1, FirstTypes DEF FirstPairs
  <2> QED
    BY <1>5, <2>3, <2>5, <2>8, <2>9, OfFollow DEF here, body
<1> QED
  BY <1>4, <1>6, <1>7, Zenon DEF Spans, n, body

-----------------------------------------------------------------------------
\* What the steps that build the table leave in it.
LEMMA GotoStep ==
    ASSUME Graph, addGoto
    PROVE  /\ rules' = rules /\ kernelIndex' = kernelIndex /\ states' = states
           /\ phase = "gotos" /\ phase' = phase /\ kernelIndex \in DOMAIN kernels
           /\ \A k \in DOMAIN kernels :
                /\ k \in DOMAIN kernels' /\ kernels'[k].items = kernels[k].items
                /\ kernels'[k].closure = kernels[k].closure
           /\ \A k \in DOMAIN kernels' \ DOMAIN kernels :
                /\ kernels'[k].closure = {} /\ k \notin 1 .. Len(kernels)
                /\ \A d \in kernels'[k].items : \E c \in kernel.closure : d = newItemAfterShift(c)
<1> DEFINE Target(items) == {k \in DOMAIN kernels : SameKernel(items, kernels[k].items)}
           new(key, n) == [kernel EXCEPT !.gotos = WithGoto(@, key, n)]
           Linked(key, n) == [kernels EXCEPT ![kernelIndex] = new(key, n)]
           fresh(items) == [items |-> items, closure |-> {}, gotos |-> <<>>]
<1>1. PICK key, items :
        /\ key \in keys
        /\ keys' = keys \ {key} /\ IsShifted(items, key)
        /\ kernels' = IF Target(items) # {} THEN Linked(key, Min(Target(items)))
                      ELSE Append(Linked(key, Len(kernels) + 1), fresh(items))
  <2> DEFINE k0 == CHOOSE k \in keys : TRUE
             Linked0(n) == [kernels EXCEPT ![kernelIndex].gotos = WithGoto(@, k0, n)]
  <2>1. PICK items :
          /\ keys' = keys \ {k0} /\ IsShifted(items, k0)
          /\ kernels' = IF Target(items) # {} THEN Linked0(Min(Target(items)))
                        ELSE Append(Linked0(Len(kernels) + 1), fresh(items))
    BY Zenon DEF addGoto
  <2>2. k0 \in keys
    BY DEF addGoto
  <2>3. \A n : Linked0(n) = Linked(k0, n)
    BY Zenon DEF kernel
  <2> HIDE DEF Linked0, Linked, fresh, Target, k0
  <2> QED
    BY <2>1, <2>2, <2>3
<1>2. /\ rules' = rules /\ kernelIndex' = kernelIndex /\ states' = states
      /\ phase = "gotos" /\ phase' = phase
  BY DEF addGoto, grammarVars
<1>3. Len(kernels) \in Nat \ {0} /\ DOMAIN kernels = 1 .. Len(kernels)
  BY KernelsFacts DEF Graph
<1>4. kernelIndex \in DOMAIN kernels
  BY <1>2 DEF Graph, GotosComplete
<1>5. key # EPSILON
  BY <1>1, <1>2 DEF Graph, GotosComplete, AfterDots
<1>6. /\ \A d \in items : /\ WellFormed(d) /\ d.dotIndex # 0
                          /\ \E c \in kernel.closure : Precedes(c, key, d)
      /\ \A a, b \in items : SameHash(a, b) => a = b
  BY <1>1, <1>4, <1>5, ShiftedItems
<1>7. kernel = [items |-> kernel.items, closure |-> kernel.closure,
                gotos |-> kernel.gotos]
  BY <1>4 DEF Graph, IsKernel, kernel
<1>8. \A n : new(key, n) = [items |-> kernel.items, closure |-> kernel.closure,
                            gotos |-> WithGoto(kernel.gotos, key, n)]
  <2> TAKE n
  <2> QED
    BY <1>7
<1> HIDE DEF new
<1>9. \A n : /\ IsSeq(Linked(key, n)) /\ Len(Linked(key, n)) = Len(kernels)
             /\ \A k \in DOMAIN kernels :
                  Linked(key, n)[k] = IF k = kernelIndex THEN new(key, n) ELSE kernels[k]
  <2> TAKE n
  <2>1. PICK e : e = new(key, n)
    OBVIOUS
  <2>2. IsSeq(kernels) /\ kernelIndex \in 1 .. Len(kernels)
    BY <1>3, <1>4 DEF Graph
  <2>3. PICK linked : linked = [kernels EXCEPT ![kernelIndex] = e]
    OBVIOUS
  <2>4. /\ DOMAIN linked = DOMAIN kernels
        /\ linked = [k \in DOMAIN linked |-> linked[k]]
        /\ \A k \in DOMAIN kernels :
             linked[k] = IF k = kernelIndex THEN e ELSE kernels[k]
    BY <1>4, <2>3
  <2>5. IsSeq(linked) /\ Len(linked) = Len(kernels)
    BY <2>2, <2>4, Renewed, Zenon
  <2> QED
    BY <2>1, <2>3, <2>4, <2>5, Zenon
<1> HIDE DEF Linked
<1>10. \A d \in items : \E c \in kernel.closure : d = newItemAfterShift(c)
  BY <1>1 DEF IsShifted
<1> DEFINE Old(K) == \A k \in DOMAIN kernels :
             k \in DOMAIN K /\ K[k].items = kernels[k].items
                            /\ K[k].closure = kernels[k].closure
<1>11. \A n : Old(Linked(key, n)) /\ DOMAIN Linked(key, n) = DOMAIN kernels
  <2> TAKE n
  <2>1. DOMAIN Linked(key, n) = DOMAIN kernels
    BY <1>3, <1>9, SeqFacts
  <2>2. PICK e : e = new(key, n) /\ e.items = kernel.items /\ e.closure = kernel.closure
    <3>1. PICK e : e = new(key, n)
      OBVIOUS
    <3>2. e = [items |-> kernel.items, closure |-> kernel.closure,
               gotos |-> WithGoto(kernel.gotos, key, n)]
      BY <1>8, <3>1
    <3> QED
      BY <3>1, <3>2
  <2> QED
    BY <1>9, <2>1, <2>2, Zenon DEF kernel
<1>12. CASE Target(items) # {}
  <2>1. \E n : kernels' = Linked(key, n)
    BY <1>1, <1>12
  <2> QED
    BY <1>2, <1>4, <1>11, <2>1
<1>13. CASE Target(items) = {}
  <2>1. PICK s : s = Linked(key, Len(kernels) + 1)
    OBVIOUS
  <2>2. kernels' = Append(s, fresh(items))
    BY <1>1, <1>13, <2>1
  <2>3. IsSeq(s) /\ Len(s) = Len(kernels) /\ Old(s) /\ DOMAIN s = 1 .. Len(kernels)
    BY <1>3, <1>9, <1>11, <2>1
  <2>4. /\ DOMAIN kernels' = 1 .. Len(kernels) + 1
        /\ \A k \in 1 .. Len(kernels) : kernels'[k] = s[k]
        /\ kernels'[Len(kernels) + 1] = fresh(items)
    <3> HIDE DEF fresh
    <3>1. PICK e : e = fresh(items)
      OBVIOUS
    <3>2. IsSeq(Append(s, e)) /\ Len(Append(s, e)) = Len(s) + 1
          /\ \A k \in 1 .. Len(s) : Append(s, e)[k] = s[k]
          /\ Append(s, e)[Len(s) + 1] = e
      BY <2>3, Appended
    <3> QED
      BY <2>2, <2>3, <3>1, <3>2, SeqFacts
  <2>5. Old(kernels')
    BY <1>3, <2>3, <2>4
  <2>6. \A k \in DOMAIN kernels' \ DOMAIN kernels : kernels'[k] = fresh(items)
    BY <1>3, <2>4
  <2>7. fresh(items).items = items /\ fresh(items).closure = {}
    OBVIOUS
  <2> HIDE DEF fresh
  <2> QED
    BY <1>2, <1>3, <1>4, <1>10, <2>5, <2>6, <2>7
<1> QED
  BY <1>12, <1>13

\* An item is read before all that FOLLOW says of its rule.
AheadRight(c) ==
    /\ c.rule = 1 => END \in c.lookAheads
    /\ c.rule # 1 => /\ phase \notin {"firsts", "follows"}
                     /\ follows[rules[c.rule].nonTerminal] \subseteq c.lookAheads

\* A row has an action before whatever an item is read before, or is shifted.
RowComplete(k) ==
    LET row == states[k].lrAction
    IN /\ \A c \in kernels[k].closure : \A t \in c.lookAheads : Reducible(c) =>
            t \in DOMAIN row /\ ReducesBy(k, row[t], t)
       /\ \A t \in DOMAIN kernels[k].gotos \cap terminals :
            /\ t \in DOMAIN row
            /\ \/ row[t] = Action("shift", kernels[k].gotos[t])
               \/ ReducesBy(k, row[t], t)

Complete ==
    /\ \A k \in DOMAIN kernels :
         /\ Done(k) \/ Underway(k) => kernels[k].items \subseteq kernels[k].closure
         /\ \A c \in kernels[k].items \cup kernels[k].closure : AheadRight(c)
    /\ \A k \in DOMAIN states : RowComplete(k)
    /\ outcome # "none" => phase = "ready"

LEMMA CompleteInit == GrammarInit /\ KernelInit /\ ParserInit => Complete
<1> SUFFICES ASSUME GrammarInit, KernelInit, ParserInit PROVE Complete
  OBVIOUS
<1> DEFINE first == [items |-> {ItemOf(1, 0, {END})}, closure |-> {}, gotos |-> <<>>]
<1>1. phase = "firsts" /\ kernels = <<first>> /\ states = <<>> /\ outcome = "none"
      /\ kernelIndex = 1
  BY DEF GrammarInit, KernelInit, ParserInit
<1>2. kernels[1] = first /\ DOMAIN kernels = {1}
  <2>1. PICK e : e = first
    OBVIOUS
  <2> HIDE DEF first
  <2>2. kernels \in Seq({e}) /\ Len(kernels) = 1 /\ kernels[1] = e
    BY <1>1, <2>1
  <2>3. DOMAIN kernels = 1 .. 1
    BY <2>2, LenProperties
  <2> QED
    BY <2>1, <2>2, <2>3
<1>3. first.items = {ItemOf(1, 0, {END})} /\ first.closure = {}
  OBVIOUS
<1> HIDE DEF first
<1>4. AheadRight(ItemOf(1, 0, {END}))
  BY DEF AheadRight, ItemOf
<1> QED
  BY <1>1, <1>2, <1>3, <1>4, EmptyIsSeq DEF Complete, Done, Underway

\* What is said of a row is said of the rules, its kernel and the row.
LEMMA RowSame ==
    ASSUME NEW k, rules' = rules, kernels'[k] = kernels[k], states'[k] = states[k],
           RowComplete(k)
    PROVE  RowComplete(k)'
<1>1. terminals' = terminals
  BY Zenon DEF terminals
<1>2. ASSUME NEW c PROVE (Reducible(c)' <=> Reducible(c)) /\ ReduceBy(c)' = ReduceBy(c)
  BY Zenon DEF Reducible, AtEnd, development, ReduceBy
<1> HIDE DEF Reducible, terminals
<1>3. ASSUME NEW a, NEW t PROVE ReducesBy(k, a, t)' <=> ReducesBy(k, a, t)
  BY <1>2 DEF ReducesBy
<1> QED
  BY <1>1, <1>2, <1>3 DEF RowComplete

LEMMA AheadSame ==
    ASSUME NEW c, rules' = rules, follows' = follows, AheadRight(c),
           phase' \notin {"firsts", "follows"} \/ phase' = phase
    PROVE  AheadRight(c)'
  BY DEF AheadRight

LEMMA CompleteKept ==
    ASSUME IInv, Complete,
           \/ Build \/ Parse \/ ParserStep \/ ClientStep
           \/ UNCHANGED <<phase, grammarVars, kernelVars, parserVars>>
    PROVE  Complete'
<1>0. Graph /\ Table /\ rules \in Grammars
  BY DEF IInv, Graph
<1>00. Len(kernels) \in Nat \ {0} /\ DOMAIN kernels = 1 .. Len(kernels)
  BY <1>0, KernelsFacts DEF Graph
<1>1. CASE Build /\ GrammarStep /\ UNCHANGED kernelVars
  <2>1. /\ rules' = rules /\ kernels' = kernels /\ kernelIndex' = kernelIndex
        /\ states' = states /\ outcome' = outcome
        /\ phase \in {"firsts", "follows"} /\ phase' \in {"firsts", "follows", "closure"}
    BY <1>1 DEF Build, GrammarStep, FirstsOfEpsilonRule, FirstsOfRule, FirstsPassEnds,
                FollowsOfSymbol, FollowsRuleEnds, FollowsPassEnds, kernelVars, parserVars
  <2>2. ASSUME NEW k \in DOMAIN kernels
        PROVE  ~ Done(k)' /\ ~ Underway(k)'
    <3>1. kernelIndex = 1 /\ ~ (k < 1)
      BY <1>0, <1>00, <2>1 DEF Graph
    <3> QED
      BY <2>1, <3>1 DEF Done, Underway
  <2>3. ASSUME NEW k \in DOMAIN kernels, NEW c \in kernels[k].items \cup kernels[k].closure
        PROVE  AheadRight(c)'
    BY <2>1 DEF Complete, AheadRight
  <2>4. states = <<>> /\ outcome = "none"
    BY <1>0, <2>1 DEF Table, Building, Complete
  <2> QED
    BY <2>1, <2>2, <2>3, <2>4, EmptyIsSeq DEF Complete
<1>2. CASE Build /\ KernelStep
  <2>0. outcome' = outcome /\ rules' = rules /\ follows' = follows
        /\ phase # "ready" /\ phase \notin {"firsts", "follows"}
        /\ phase' \notin {"firsts", "follows"}
    BY <1>2 DEF Build, parserVars, KernelStep, updateClosure, addGoto, NextKernel,
                GraphEnds, buildState, StatesEnd, grammarVars
  <2>1. outcome = "none"
    BY <2>0 DEF Complete
  <2>2. ASSUME states' = states,
               \A k \in DOMAIN kernels' :
                 /\ Done(k)' \/ Underway(k)' => kernels'[k].items \subseteq kernels'[k].closure
                 /\ \A c \in kernels'[k].items \cup kernels'[k].closure : AheadRight(c)',
               \A k \in DOMAIN states : RowComplete(k)'
        PROVE  Complete'
    BY <2>0, <2>1, <2>2 DEF Complete
  <2>3. ASSUME phase \notin {"states", "ready"} PROVE DOMAIN states = {}
    BY <1>0, <2>0, <2>3, EmptyIsSeq DEF Table, Building, Graph
  <2>4. CASE updateClosure
    <3>1. /\ kernelIndex' = kernelIndex /\ states' = states
          /\ phase = "closure" /\ phase' = "gotos"
          /\ kernelIndex \in DOMAIN kernels /\ DOMAIN kernels' = DOMAIN kernels
      BY <1>0, <2>4, ClosureStep
    <3>2. PICK visited \in SUBSET kernel.items : \A k \in DOMAIN kernels :
            /\ kernels'[k].items = kernels[k].items
            /\ kernels'[k].closure = IF k = kernelIndex THEN ClosureBy(visited)
                                     ELSE kernels[k].closure
      BY <1>0, <2>4, ClosureStep
    <3>3. kernel.items \subseteq ClosureBy(visited)
      BY DEF ClosureBy, Insert
    <3>4. \A c \in ClosureBy(visited) : AheadRight(c)
      <4> SUFFICES ASSUME NEW c \in ClosureBy(visited) PROVE AheadRight(c)
        OBVIOUS
      <4>1. CASE c \in kernel.items
        BY <3>1, <4>1 DEF Complete, kernel
      <4>2. CASE \E i \in visited : c \in newItemsFromSymbolAfterDot(i)
        <5>1. PICK i : c \in newItemsFromSymbolAfterDot(i)
          BY <4>2
        <5>2. PICK r : c = ItemOf(r, 0, follows[rules[r].nonTerminal]
                                          \cup (IF r = 1 THEN {END} ELSE {}))
          BY <5>1 DEF newItemsFromSymbolAfterDot
        <5> QED
          BY <2>0, <5>2 DEF AheadRight, ItemOf
      <4> QED
        BY <4>1, <4>2 DEF ClosureBy, Insert
    <3>5. ASSUME NEW k \in DOMAIN kernels'
          PROVE  /\ Done(k)' \/ Underway(k)' => kernels'[k].items \subseteq kernels'[k].closure
                 /\ \A c \in kernels'[k].items \cup kernels'[k].closure : AheadRight(c)'
      <4>1. CASE k = kernelIndex
        <5>1. kernels'[k].items = kernel.items /\ kernels'[k].closure = ClosureBy(visited)
          BY <3>1, <3>2, <4>1 DEF kernel
        <5>2. \A c \in kernel.items \cup ClosureBy(visited) : AheadRight(c)
          BY <3>3, <3>4
        <5> QED
          BY <2>0, <3>3, <5>1, <5>2, AheadSame
      <4>2. CASE k # kernelIndex
        <5>1. kernels'[k].items = kernels[k].items /\ kernels'[k].closure = kernels[k].closure
              /\ k \in DOMAIN kernels
          BY <3>1, <3>2, <4>2
        <5>2. (Done(k)' \/ Underway(k)') => Done(k)
          BY <3>1, <4>2 DEF Done, Underway
        <5>3. \A c \in kernels[k].items \cup kernels[k].closure : AheadRight(c)'
          BY <2>0, <5>1, AheadSame DEF Complete
        <5> QED
          BY <5>1, <5>2, <5>3 DEF Complete
      <4> QED
        BY <4>1, <4>2
    <3> QED
      BY <2>2, <2>3, <3>1, <3>5
  <2>5. CASE addGoto
    <3>1. /\ kernelIndex' = kernelIndex /\ states' = states
          /\ phase = "gotos" /\ phase' = phase /\ kernelIndex \in DOMAIN kernels
      BY <1>0, <2>5, GotoStep
    <3>2. \A k \in DOMAIN kernels :
            /\ k \in DOMAIN kernels' /\ kernels'[k].items = kernels[k].items
            /\ kernels'[k].closure = kernels[k].closure
      BY <1>0, <2>5, GotoStep
    <3>3. \A k \in DOMAIN kernels' \ DOMAIN kernels :
            /\ kernels'[k].closure = {} /\ k \notin 1 .. Len(kernels)
            /\ \A d \in kernels'[k].items : \E c \in kernel.closure : d = newItemAfterShift(c)
      BY <1>0, <2>5, GotoStep
    <3>4. Graph'
      BY <1>0, <2>5, AddGotoKeeps
    <3>5. ASSUME NEW k \in DOMAIN kernels' \ DOMAIN kernels
          PROVE  /\ ~ Done(k)' /\ ~ Underway(k)'
                 /\ \A c \in kernels'[k].items : AheadRight(c)'
      <4>1. k \in Nat \ {0} /\ k \notin 1 .. Len(kernels)
        <5>1. DOMAIN kernels' = 1 .. Len(kernels')
          BY <3>4, SeqFacts DEF Graph
        <5> QED
          BY <3>3, <5>1
      <4>2. k > kernelIndex /\ kernelIndex \in Nat
        BY <1>00, <3>1, <4>1
      <4>3. ~ Done(k)' /\ ~ Underway(k)'
        BY <3>1, <4>1, <4>2 DEF Done, Underway
      <4>4. ASSUME NEW d \in kernels'[k].items PROVE AheadRight(d)'
        <5>1. PICK c \in kernel.closure : d = newItemAfterShift(c)
          BY <3>3
        <5>2. AheadRight(c) /\ WellFormed(c)
          BY <1>0, <3>1, <5>1 DEF Complete, kernel, Graph, ClosureRight
        <5>3. c = ItemOf(c.rule, c.dotIndex, c.lookAheads)
          BY <5>2 DEF WellFormed
        <5>4. d.rule = c.rule /\ d.lookAheads = c.lookAheads
          BY <5>1, <5>3 DEF newItemAfterShift, ItemOf
        <5> QED
          BY <2>0, <5>2, <5>4 DEF AheadRight
      <4> QED
        BY <4>3, <4>4
    <3>6. ASSUME NEW k \in DOMAIN kernels
          PROVE  /\ Done(k)' \/ Underway(k)' => kernels'[k].items \subseteq kernels'[k].closure
                 /\ \A c \in kernels'[k].items \cup kernels'[k].closure : AheadRight(c)'
      <4>1. (Done(k)' <=> Done(k)) /\ (Underway(k)' <=> Underway(k))
        BY <3>1 DEF Done, Underway
      <4>2. \A c \in kernels[k].items \cup kernels[k].closure : AheadRight(c)'
        BY <2>0, AheadSame DEF Complete
      <4> QED
        BY <3>2, <4>1, <4>2 DEF Complete
    <3>7. ASSUME NEW k \in DOMAIN kernels'
          PROVE  /\ Done(k)' \/ Underway(k)' => kernels'[k].items \subseteq kernels'[k].closure
                 /\ \A c \in kernels'[k].items \cup kernels'[k].closure : AheadRight(c)'
      BY <3>3, <3>5, <3>6
    <3> QED
      BY <2>2, <2>3, <3>1, <3>7
  <2>6. CASE NextKernel \/ GraphEnds \/ StatesEnd
    <3>1. kernels' = kernels /\ states' = states
      BY <2>6 DEF NextKernel, GraphEnds, StatesEnd, kernelVars
    <3>2. ASSUME NEW k \in DOMAIN kernels
          PROVE  Done(k)' \/ Underway(k)' => Done(k) \/ Underway(k)
      <4>1. k \in Nat /\ k <= Len(kernels) /\ kernelIndex \in Nat
        BY <1>0, <1>00 DEF Graph
      <4>2. CASE NextKernel
        BY <4>1, <4>2 DEF NextKernel, Done, Underway
      <4>3. CASE GraphEnds
        BY <1>00, <4>1, <4>3 DEF GraphEnds, Done, Underway
      <4>4. CASE StatesEnd
        BY <4>4 DEF StatesEnd, Done, Underway
      <4> QED
        BY <2>6, <4>2, <4>3, <4>4
    <3>3. ASSUME NEW k \in DOMAIN kernels, NEW c \in kernels[k].items \cup kernels[k].closure
          PROVE  AheadRight(c)'
      BY <2>0, AheadSame DEF Complete
    <3>4. \A k \in DOMAIN states : RowComplete(k)'
      BY <2>0, <3>1, RowSame DEF Complete
    <3> QED
      BY <2>2, <3>1, <3>2, <3>3, <3>4 DEF Complete
  <2>7. CASE buildState
    <3>1. /\ kernels' = kernels /\ phase = "states" /\ phase' = phase
          /\ kernelIndex \in DOMAIN kernels
          /\ \A k \in DOMAIN states' : k \in DOMAIN states \/ k = kernelIndex
          /\ \A k \in DOMAIN states : states'[k] = states[k]
      BY <1>0, <2>7, RowBuilt
    <3>2. IsRow(kernelIndex, states'[kernelIndex])
      BY <1>0, <2>7, RowBuilt
    <3>3. ASSUME NEW k, k = kernelIndex PROVE RowComplete(k)'
      <4>1. PICK r : r = states'[k] /\ IsRow(k, r)
        BY <3>2, <3>3
      <4>2. terminals' = terminals
        BY <2>0, Zenon DEF terminals
      <4>3. ASSUME NEW c PROVE (Reducible(c)' <=> Reducible(c)) /\ ReduceBy(c)' = ReduceBy(c)
        BY <2>0, Zenon DEF Reducible, AtEnd, development, ReduceBy
      <4> HIDE DEF Reducible, terminals
      <4>4. ASSUME NEW a, NEW t PROVE ReducesBy(k, a, t)' <=> ReducesBy(k, a, t)
        BY <3>1, <4>3 DEF ReducesBy
      <4>5. /\ \A c \in kernels[k].closure : \A t \in c.lookAheads : Reducible(c) =>
                 t \in DOMAIN r.lrAction /\ ReducesBy(k, r.lrAction[t], t)
            /\ \A t \in DOMAIN kernels[k].gotos \cap terminals :
                 /\ t \in DOMAIN r.lrAction
                 /\ \/ r.lrAction[t] = Action("shift", kernels[k].gotos[t])
                    \/ ReducesBy(k, r.lrAction[t], t)
        BY <4>1, Zenon DEF IsRow
      <4> QED
        BY <3>1, <4>1, <4>2, <4>3, <4>4, <4>5 DEF RowComplete
    <3>4. \A k \in DOMAIN states : RowComplete(k)'
      BY <2>0, <3>1, RowSame DEF Complete
    <3>5. ASSUME NEW k \in DOMAIN kernels, NEW c \in kernels[k].items \cup kernels[k].closure
          PROVE  AheadRight(c)'
      BY <2>0, AheadSame DEF Complete
    <3>6. \A k \in DOMAIN kernels : Done(k)
      BY <3>1 DEF Done
    <3> QED
      BY <2>0, <2>1, <3>1, <3>3, <3>4, <3>5, <3>6 DEF Complete
  <2> QED
    BY <1>2, <2>4, <2>5, <2>6, <2>7 DEF KernelStep
<1>3. CASE UNCHANGED <<phase, grammarVars, kernelVars>> /\ (outcome' # outcome => phase = "ready")
  <2>1. /\ rules' = rules /\ follows' = follows /\ kernels' = kernels
        /\ states' = states /\ phase' = phase /\ kernelIndex' = kernelIndex
    BY <1>3 DEF grammarVars, kernelVars
  <2>2. \A k : (Done(k)' <=> Done(k)) /\ (Underway(k)' <=> Underway(k))
    BY <2>1 DEF Done, Underway
  <2>3. ASSUME NEW k \in DOMAIN kernels, NEW c \in kernels[k].items \cup kernels[k].closure
        PROVE  AheadRight(c)'
    BY <2>1, AheadSame DEF Complete
  <2>4. \A k \in DOMAIN states : RowComplete(k)'
    BY <2>1, RowSame DEF Complete
  <2> QED
    BY <1>3, <2>1, <2>2, <2>3, <2>4 DEF Complete
<1>4. CASE Parse \/ ParserStep \/ ClientStep
           \/ UNCHANGED <<phase, grammarVars, kernelVars, parserVars>>
  <2>1. UNCHANGED <<phase, grammarVars, kernelVars>> /\ (outcome' # outcome => phase = "ready")
    BY <1>4 DEF Parse, parse, ParserStep, shift, reduce, accept, throw, ReadPastEnd,
                ClientStep, parserVars, Does, Reads, Complete
  <2> QED
    BY <1>3, <2>1
<1> QED
  BY <1>1, <1>2, <1>4 DEF Build

-----------------------------------------------------------------------------
\* What is expected.  A frame is a rule of a derivation of the word: its body
\* begins behind entry number base of the path, was read up to the dot, and
\* derives what lies between the cuts.
FrameOf(r, dot, base, cut) == [rule |-> r, dot |-> dot, base |-> base, cut |-> cut]

Size(f) == Len(Body(rules[f.rule]))
NextIn(f) == Body(rules[f.rule])[f.dot + 1]

IsFrame(f) ==
    /\ f.rule \in DOMAIN rules /\ f.dot \in 0 .. Size(f) /\ f.base \in Nat
    /\ IsDerived(rules, MaxTokens, f.rule, f.cut, inputKeys)
    /\ KeyAt(inputKeys, f.cut[Size(f)] + 1) \in
         Of(Follow(rules), rules[f.rule].nonTerminal)
    /\ f.rule = 1 => f.cut[Size(f)] = Len(inputKeys)

\* The state at a frame's dot has its item.
HasItem(f) ==
    \E c \in kernels[stack[bottom + 2 * (f.base + f.dot)].state].closure :
      c.rule = f.rule /\ c.dotIndex = f.dot

\* f derives the symbol after the dot of g.
IsParent(g, f) ==
    /\ g.dot < Size(g) /\ f.base = g.base + g.dot
    /\ NextIn(g) = rules[f.rule].nonTerminal
    /\ f.cut[Size(f)] = g.cut[g.dot + 1]

Frames(S, depth) ==
    \A f \in S : /\ IsFrame(f) /\ HasItem(f) /\ f.base + f.dot <= depth
                 /\ f.rule # 1 => \E g \in S : IsParent(g, f)

\* The dot of f is where the parser is.
OnTop(f, depth) == f.base + f.dot = depth /\ f.cut[f.dot] = currIndex - 1

Expects(S, f, depth) == f \in S /\ Frames(S, depth) /\ OnTop(f, depth)

Hopeful == TableIsSound /\ AxiomHasOneRule /\ AxiomOnTop /\ IsSentence

Awaiting ==
    \E depth \in Nat : /\ Len(stack) = bottom + 2 * depth
                       /\ \E S, f : Expects(S, f, depth)

Expecting == outcome = "parsing" /\ Hopeful => Awaiting

LEMMA WordFacts ==
    ASSUME rules \in Grammars, IsSentence
    PROVE  /\ inputKeys \in Seq(Terminals(rules)) /\ Len(inputKeys) \in Nat
           /\ <<axiom, inputKeys>> \in Sentences(rules, MaxTokens)
           /\ MaxTokens \in Nat
<1>1. MaxTokens \in Nat /\ SentencesOf[rules] = Sentences(rules, MaxTokens)
  BY BoundAssumption DEF SentencesOf
<1>2. <<axiom, inputKeys>> \in Sentences(rules, MaxTokens)
  <2>1. PICK p \in Sentences(rules, MaxTokens) : p[1] = axiom /\ p[2] = inputKeys
    BY <1>1 DEF IsSentence, Of
  <2>2. p = <<p[1], p[2]>>
    <3>1. PICK k \in Nat : \E grown :
            /\ Sentences(rules, MaxTokens) = grown[k]
            /\ \A n \in 0 .. k : grown[n] \subseteq Alone(rules) \cup Pairs(rules, MaxTokens)
      BY <1>1, SentenceRounds
    <3>2. p \in Alone(rules) \cup Pairs(rules, MaxTokens)
      BY <2>1, <3>1
    <3> QED
      BY <3>2 DEF Pairs, Alone
  <2> QED
    BY <2>1, <2>2
<1>3. PICK k, g :
        /\ k \in Nat /\ g[k] = Sentences(rules, MaxTokens)
        /\ \A n \in 0 .. k : \A p \in g[n] : IsPart(p, n, g, rules, MaxTokens)
  BY <1>1, SentenceParts
<1>4. IsPart(<<axiom, inputKeys>>, k, g, rules, MaxTokens)
  BY <1>2, <1>3
<1>5. inputKeys \in Seq(Terminals(rules))
  BY <1>4 DEF IsPart
<1> QED
  BY <1>1, <1>2, <1>5, LenProperties

\* The key that is read is the next of the word, or the end marker behind it.
LEMMA NextKey ==
    ASSUME rules \in Grammars, IsSentence, IsSeq(tokens), Reads,
           NEW n \in Nat, n <= Len(inputKeys), currIndex = n + 1
    PROVE  token = KeyAt(inputKeys, currIndex)
<1> DEFINE ends == {k \in DOMAIN keysOf : keysOf[k] = END}
<1>1. /\ IsSeq(keysOf) /\ Len(keysOf) = Len(tokens) /\ Len(tokens) \in Nat
      /\ DOMAIN keysOf = 1 .. Len(tokens)
      /\ \A k \in 1 .. Len(tokens) : keysOf[k] = keyOf(tokens[k])
  BY KeysAre DEF IsSeq
<1>2. currIndex \in 1 .. Len(tokens)
  BY <1>1 DEF Reads
<1>3. token = keysOf[currIndex]
  BY <1>1, <1>2 DEF token
<1>4. CASE ends = {}
  <2>1. inputKeys = keysOf
    BY <1>4 DEF inputKeys, keysOf
  <2> QED
    BY <1>1, <1>2, <1>3, <2>1 DEF KeyAt
<1>5. CASE ends # {}
  <2>1. ends \subseteq Nat
    BY <1>1
  <2>2. PICK e : e = Min(ends) /\ e \in ends
    BY <1>5, <2>1, LeastOfNats
  <2>3. e \in 1 .. Len(tokens) /\ keysOf[e] = END
    BY <1>1, <2>2
  <2>4. inputKeys = SubSeq(keysOf, 1, e - 1)
    BY <1>5, <2>2 DEF inputKeys, keysOf
  <2>5. PICK m : m = e - 1 /\ m \in 0 .. Len(keysOf) /\ m \in Nat
    BY <1>1, <2>3
  <2>6. Len(inputKeys) = m /\ \A k \in 1 .. m : inputKeys[k] = keysOf[k]
    BY <1>1, <2>4, <2>5, Prefix
  <2>7. CASE n = m
    <3>1. currIndex = e /\ ~ (currIndex <= Len(inputKeys))
      BY <2>3, <2>5, <2>6, <2>7
    <3> QED
      BY <1>3, <2>3, <3>1 DEF KeyAt
  <2>8. CASE n # m
    <3>1. currIndex \in 1 .. m /\ currIndex <= Len(inputKeys)
      BY <2>5, <2>6, <2>8
    <3> QED
      BY <1>3, <2>6, <3>1 DEF KeyAt
  <2> QED
    BY <2>7, <2>8
<1> QED
  BY <1>4, <1>5

LEMMA FrameFacts ==
    ASSUME rules \in Grammars, IsSentence, NEW f, IsFrame(f)
    PROVE  /\ Size(f) \in Nat /\ f.dot \in Nat /\ f.base \in Nat /\ f.base + f.dot \in Nat
           /\ \A l \in 0 .. Size(f) : f.cut[l] \in Nat /\ f.cut[l] <= Len(inputKeys)
           /\ f.dot < Size(f) =>
                /\ f.dot + 1 \in 1 .. Size(f) /\ f.dot \in 0 .. Size(f) /\ f.dot + 1 \in 0 .. Size(f)
                /\ f.cut[f.dot] <= f.cut[f.dot + 1]
                /\ NextIn(f) \in LeftSides(rules) \cup Terminals(rules)
                /\ <<NextIn(f), Section(inputKeys, f.cut[f.dot], f.cut[f.dot + 1])>>
                     \in Sentences(rules, MaxTokens)
                /\ KeyAt(inputKeys, f.cut[f.dot + 1] + 1) \in Of(Follow(rules), NextIn(f))
<1>1. /\ inputKeys \in Seq(Terminals(rules)) /\ MaxTokens \in Nat
      /\ f.rule \in DOMAIN rules /\ IsDerived(rules, MaxTokens, f.rule, f.cut, inputKeys)
      /\ f.dot \in 0 .. Size(f) /\ f.base \in Nat
  BY WordFacts DEF IsFrame
<1>2. /\ Size(f) \in Nat
      /\ \A l \in 0 .. Size(f) : f.cut[l] \in Nat /\ f.cut[l] <= Len(inputKeys)
      /\ \A l \in 1 .. Size(f) : l - 1 \in 0 .. Size(f) /\ f.cut[l - 1] <= f.cut[l]
  BY <1>1, CutsOfDerived DEF Size
<1>3. ASSUME f.dot < Size(f)
      PROVE  /\ f.dot + 1 \in 1 .. Size(f) /\ f.dot \in 0 .. Size(f) /\ f.dot + 1 \in 0 .. Size(f)
             /\ f.cut[f.dot] <= f.cut[f.dot + 1]
             /\ NextIn(f) \in LeftSides(rules) \cup Terminals(rules)
             /\ <<NextIn(f), Section(inputKeys, f.cut[f.dot], f.cut[f.dot + 1])>>
                  \in Sentences(rules, MaxTokens)
             /\ KeyAt(inputKeys, f.cut[f.dot + 1] + 1) \in Of(Follow(rules), NextIn(f))
  <2>1. PICK l \in 1 .. Size(f) : l = f.dot + 1 /\ l - 1 = f.dot /\ l \in 0 .. Size(f)
    BY <1>1, <1>2, <1>3
  <2>2. NextIn(f) = Body(rules[f.rule])[l]
    BY <2>1 DEF NextIn
  <2>3. NextIn(f) \in LeftSides(rules) \cup Terminals(rules)
    <3>1. l \in 1 .. Len(Body(rules[f.rule]))
      BY DEF Size
    <3>2. Body(rules[f.rule])[l] \in LeftSides(rules) \cup Terminals(rules)
      BY <1>1, <3>1, BodyPlaces
    <3> QED
      BY <2>2, <3>2
  <2>4. <<Body(rules[f.rule])[l], Section(inputKeys, f.cut[l - 1], f.cut[l])>>
          \in Sentences(rules, MaxTokens)
    BY <1>1, <2>1 DEF IsDerived, Size
  <2>5. KeyAt(inputKeys, f.cut[l] + 1) \in Of(Follow(rules), Body(rules[f.rule])[l])
    <3>1. KeyAt(inputKeys, f.cut[Len(Body(rules[f.rule]))] + 1) \in
            Of(Follow(rules), rules[f.rule].nonTerminal)
      BY DEF IsFrame, Size
    <3> QED
      BY <1>1, <2>1, <3>1, AfterSymbol DEF Size
  <2> QED
    BY <1>1, <1>2, <2>1, <2>2, <2>3, <2>4, <2>5
<1> QED
  BY <1>1, <1>2, <1>3

\* The item of a frame is before the symbol that is next, or at its end.
LEMMA ItemOfFrame ==
    ASSUME Graph, NEW f, IsFrame(f), NEW k \in DOMAIN kernels,
           NEW c \in kernels[k].closure, c.rule = f.rule, c.dotIndex = f.dot
    PROVE  /\ WellFormed(c)
           /\ f.dot = Size(f) => Reducible(c)
           /\ f.dot < Size(f) => ~ AtEnd(c) /\ AfterDot(c) = NextIn(f) /\ NextIn(f) # EPSILON
<1>1. WellFormed(c)
  BY Zenon DEF Graph, ClosureRight
<1>2. /\ f.rule \in DOMAIN rules /\ f.dot \in 0 .. Size(f)
      /\ rules \in Grammars /\ development(c) = rules[f.rule].development
  BY DEF IsFrame, Graph, development
<1>3. Len(development(c)) \in Nat \ {0} /\ Head(development(c)) = development(c)[1]
  BY <1>2, RulesFacts
<1>4. CASE IsEpsilonRule(rules[f.rule])
  <2>1. Size(f) = 0 /\ f.dot = 0
    BY <1>2, <1>4, BodyIs DEF Size
  <2>2. Head(development(c)) = EPSILON
    BY <1>2, <1>3, <1>4 DEF IsEpsilonRule
  <2> QED
    BY <1>1, <2>1, <2>2 DEF Reducible
<1>5. CASE ~ IsEpsilonRule(rules[f.rule])
  <2>1. Body(rules[f.rule]) = development(c) /\ Size(f) = Len(development(c))
    BY <1>2, <1>5, BodyIs DEF Size
  <2>2. f.dot = Size(f) => Reducible(c)
    BY <1>3, <2>1 DEF Reducible, AtEnd
  <2>3. ASSUME f.dot < Size(f)
        PROVE  ~ AtEnd(c) /\ AfterDot(c) = NextIn(f) /\ NextIn(f) # EPSILON
    <3>1. ~ AtEnd(c) /\ AfterDot(c) = NextIn(f)
      BY <1>2, <1>3, <2>1, <2>3 DEF AtEnd, AfterDot, NextIn
    <3>2. f.dot + 1 \in 1 .. Len(Body(rules[f.rule]))
      BY <1>2, <1>3, <2>1, <2>3
    <3>3. NextIn(f) # EPSILON
      BY <1>2, <3>2, BodyPlaces DEF NextIn
    <3> QED
      BY <3>1, <3>3
  <2> QED
    BY <1>1, <2>2, <2>3
<1> QED
  BY <1>4, <1>5

LEMMA OfSentences ==
    ASSUME NEW R \in Grammars, NEW max \in Nat, NEW L, L \subseteq Sentences(R, max),
           NEW A, NEW s \in Of(L, A)
    PROVE  <<A, s>> \in L
<1>1. PICK p \in L : p[1] = A /\ p[2] = s
  BY DEF Of
<1>2. PICK k \in Nat : \E grown :
        /\ Sentences(R, max) = grown[k]
        /\ \A n \in 0 .. k : grown[n] \subseteq Alone(R) \cup Pairs(R, max)
  BY SentenceRounds
<1>3. p \in Alone(R) \cup Pairs(R, max)
  BY <1>1, <1>2
<1> QED
  BY <1>1, <1>3 DEF Pairs, Alone

\* If the symbol after the dot derives its section by a rule, that rule is
\* expected too.
LEMMA ChildExpected ==
    ASSUME Graph, ClosuresComplete, AxiomOnTop, IsSentence,
           NEW depth \in Nat, stack[bottom + 2 * depth].state \in DOMAIN kernels,
           NEW S, NEW f, Expects(S, f, depth), f.dot < Size(f),
           NEW L, L \subseteq Sentences(rules, MaxTokens),
           \A p \in L : p[2] \in Seq(Terminals(rules)),
           NEW r \in DOMAIN rules, rules[r].nonTerminal = NextIn(f),
           Section(inputKeys, f.cut[f.dot], f.cut[f.dot + 1]) \in
             Joined(L, Body(rules[r]), MaxTokens)
    PROVE  \E h : /\ Expects(S \cup {h}, h, depth)
                  /\ h.dot < Size(h) =>
                       <<NextIn(h), Section(inputKeys, h.cut[h.dot], h.cut[h.dot + 1])>> \in L
<1> DEFINE n == Len(Body(rules[r]))
<1>1. /\ rules \in Grammars /\ IsFrame(f) /\ HasItem(f)
      /\ f.base + f.dot = depth /\ f.cut[f.dot] = currIndex - 1
      /\ f.rule \in DOMAIN rules
  BY DEF Graph, Expects, Frames, OnTop, IsFrame
<1>2. /\ inputKeys \in Seq(Terminals(rules)) /\ Len(inputKeys) \in Nat /\ MaxTokens \in Nat
  BY <1>1, WordFacts
<1>3. PICK a \in Nat, b \in Nat :
        a = f.cut[f.dot] /\ b = f.cut[f.dot + 1] /\ a <= b /\ b <= Len(inputKeys)
  BY <1>1, FrameFacts
<1>4. KeyAt(inputKeys, b + 1) \in Of(Follow(rules), NextIn(f))
  BY <1>1, <1>3, FrameFacts
<1>5. n \in Nat
  BY <1>1, BodyPlaces
<1>6. PICK cut : IsSections(cut, inputKeys, a, b, L, Body(rules[r]), n)
  <2>1. Section(inputKeys, a, b) \in Joined(L, Body(rules[r]), MaxTokens)
    BY <1>3
  <2> QED
    BY <1>2, <1>3, <1>5, <2>1, JoinedSections
<1>7. /\ cut \in [0 .. n -> Nat] /\ Rising(cut, n) /\ cut[0] = a /\ cut[n] = b
      /\ \A l \in 1 .. n : Section(inputKeys, cut[l - 1], cut[l]) \in Of(L, Body(rules[r])[l])
  BY <1>6 DEF IsSections
<1>8. \A l \in 1 .. n : <<Body(rules[r])[l], Section(inputKeys, cut[l - 1], cut[l])>> \in L
  BY <1>1, <1>2, <1>7, OfSentences
<1>9. IsDerived(rules, MaxTokens, r, cut, inputKeys)
  BY <1>3, <1>7, <1>8 DEF IsDerived
<1>10. r # 1
  <2>1. NextIn(f) \in ToSet(rules[f.rule].development)
    <3>1. f.dot + 1 \in 1 .. Len(Body(rules[f.rule]))
      BY <1>1, FrameFacts DEF Size
    <3>2. ~ IsEpsilonRule(rules[f.rule])
      BY <1>1, <3>1, BodyIs
    <3>3. Body(rules[f.rule]) = rules[f.rule].development
          /\ DOMAIN Body(rules[f.rule]) = 1 .. Len(Body(rules[f.rule]))
      BY <1>1, <3>2, BodyIs, BodyPlaces
    <3> QED
      BY <3>1, <3>3 DEF NextIn, ToSet
  <2> QED
    BY <1>1, <2>1 DEF AxiomOnTop, axiom
<1>11. PICK h : h = FrameOf(r, 0, depth, cut)
  OBVIOUS
<1>12. h.rule = r /\ h.dot = 0 /\ h.base = depth /\ h.cut = cut /\ Size(h) = n
  BY <1>11 DEF FrameOf, Size
<1> HIDE DEF n
<1>13. IsFrame(h)
  <2>1. h.dot \in 0 .. Size(h)
    BY <1>5, <1>12
  <2>2. KeyAt(inputKeys, h.cut[Size(h)] + 1) \in Of(Follow(rules), rules[h.rule].nonTerminal)
    BY <1>4, <1>7, <1>12
  <2> QED
    BY <1>9, <1>10, <1>12, <2>1, <2>2 DEF IsFrame
<1>14. HasItem(h)
  <2> DEFINE k == stack[bottom + 2 * depth].state
  <2>1. PICK c \in kernels[k].closure : c.rule = f.rule /\ c.dotIndex = f.dot
    BY <1>1 DEF HasItem
  <2>2. ~ AtEnd(c) /\ AfterDot(c) = NextIn(f)
    BY <1>1, <2>1, ItemOfFrame
  <2>3. r \in getRulesForNonterminal(AfterDot(c))
    BY <2>2 DEF getRulesForNonterminal
  <2>4. \E d \in kernels[k].closure : d.rule = r /\ d.dotIndex = 0
    BY <2>1, <2>2, <2>3 DEF ClosuresComplete
  <2>5. h.base + h.dot = depth
    BY <1>12
  <2> QED
    BY <1>12, <2>4, <2>5 DEF HasItem
<1>15. IsParent(f, h)
  BY <1>1, <1>3, <1>7, <1>12 DEF IsParent
<1>16. Frames(S \cup {h}, depth)
  <2>1. f \in S /\ Frames(S, depth)
    BY DEF Expects
  <2>2. h.base + h.dot <= depth
    BY <1>12
  <2>3. ASSUME NEW e \in S
        PROVE  /\ IsFrame(e) /\ HasItem(e) /\ e.base + e.dot <= depth
               /\ e.rule # 1 => \E g \in S \cup {h} : IsParent(g, e)
    BY <2>1 DEF Frames
  <2>4. \E g \in S \cup {h} : IsParent(g, h)
    BY <1>15, <2>1
  <2> QED
    BY <1>13, <1>14, <2>2, <2>3, <2>4 DEF Frames
<1>17. OnTop(h, depth)
  BY <1>1, <1>3, <1>7, <1>12 DEF OnTop
<1>18. h.dot < Size(h) =>
         <<NextIn(h), Section(inputKeys, h.cut[h.dot], h.cut[h.dot + 1])>> \in L
  <2> SUFFICES ASSUME h.dot < Size(h)
               PROVE  <<NextIn(h), Section(inputKeys, h.cut[h.dot], h.cut[h.dot + 1])>> \in L
    OBVIOUS
  <2>1. PICK l \in 1 .. n : l = 1 /\ l - 1 = 0 /\ h.dot + 1 = l
    BY <1>5, <1>12
  <2>2. <<Body(rules[r])[l], Section(inputKeys, cut[l - 1], cut[l])>> \in L
    BY <1>8
  <2>3. NextIn(h) = Body(rules[r])[l] /\ h.cut[h.dot] = cut[l - 1] /\ h.cut[h.dot + 1] = cut[l]
    BY <1>12, <2>1 DEF NextIn
  <2> QED
    BY <2>2, <2>3
<1> QED
  BY <1>16, <1>17, <1>18 DEF Expects

\* What is next can always be had in a way that the parser reads it next, or has
\* read all of it: the derivations of a section end, as each round is of a
\* smaller one.
LEMMA ReadyTop ==
    ASSUME Graph, ClosuresComplete, AxiomOnTop, IsSentence,
           NEW depth \in Nat, stack[bottom + 2 * depth].state \in DOMAIN kernels,
           \E S, f : Expects(S, f, depth)
    PROVE  \E S, f : /\ Expects(S, f, depth)
                     /\ f.dot = Size(f) \/ (f.dot < Size(f) /\ NextIn(f) \in Terminals(rules))
<1> DEFINE Ready(f) ==
             f.dot = Size(f) \/ (f.dot < Size(f) /\ NextIn(f) \in Terminals(rules))
           next(f) == <<NextIn(f), Section(inputKeys, f.cut[f.dot], f.cut[f.dot + 1])>>
<1> SUFFICES ASSUME \A S, f : Expects(S, f, depth) => ~ Ready(f) PROVE FALSE
  OBVIOUS
<1>1. rules \in Grammars /\ MaxTokens \in Nat
  BY WordFacts DEF Graph
<1>2. PICK k, g :
        /\ k \in Nat /\ g[k] = Sentences(rules, MaxTokens)
        /\ \A n \in 0 .. k : /\ g[n] \subseteq Sentences(rules, MaxTokens)
                            /\ \A p \in g[n] : IsPart(p, n, g, rules, MaxTokens)
  BY <1>1, SentenceParts
<1> DEFINE Waiting(n) == \E S, f : Expects(S, f, depth) /\ f.dot < Size(f) /\ next(f) \in g[n]
           N == {n \in 0 .. k : Waiting(n)}
<1>3. ASSUME NEW S, NEW f, Expects(S, f, depth)
      PROVE  /\ f.dot < Size(f) /\ NextIn(f) \notin Terminals(rules)
             /\ next(f) \in Sentences(rules, MaxTokens)
  <2>1. IsFrame(f)
    BY <1>3 DEF Expects, Frames
  <2>2. f.dot \in 0 .. Size(f) /\ Size(f) \in Nat
    BY <1>1, <2>1, FrameFacts DEF IsFrame
  <2>3. f.dot < Size(f) /\ NextIn(f) \notin Terminals(rules)
    BY <1>3, <2>2
  <2> QED
    BY <1>1, <2>1, <2>3, FrameFacts
<1>4. Waiting(k)
  BY <1>2, <1>3
<1> HIDE DEF Ready, Waiting, next
<1>5. N # {} /\ N \subseteq Nat
  <2>1. k \in 0 .. k
    BY <1>2
  <2> QED
    BY <1>2, <1>4, <2>1
<1>6. PICK m : m \in N /\ \A n \in N : m <= n
  <2> HIDE DEF N
  <2> QED
    BY <1>5, LeastOfNats
<1>7. m \in 0 .. k /\ Waiting(m)
  BY <1>6
<1>8. PICK S, f : Expects(S, f, depth) /\ f.dot < Size(f) /\ next(f) \in g[m]
  BY <1>7 DEF Waiting
<1>9. PICK p : /\ p = next(f) /\ p[1] = NextIn(f)
               /\ p[2] = Section(inputKeys, f.cut[f.dot], f.cut[f.dot + 1])
  <2>1. PICK q : q = next(f)
    OBVIOUS
  <2>2. q[1] = NextIn(f) /\ q[2] = Section(inputKeys, f.cut[f.dot], f.cut[f.dot + 1])
    BY <2>1 DEF next
  <2> QED
    BY <2>1, <2>2
<1>10. IsPart(p, m, g, rules, MaxTokens)
  BY <1>2, <1>7, <1>8, <1>9
<1>11. p \notin Alone(rules)
  <2>1. \A q \in Alone(rules) : q[1] \in Terminals(rules)
    BY DEF Alone
  <2> QED
    BY <1>3, <1>8, <1>9, <2>1
<1>12. PICK j \in 0 .. m - 1, r \in DOMAIN rules :
         p[1] = rules[r].nonTerminal /\ p[2] \in Joined(g[j], Body(rules[r]), MaxTokens)
  BY <1>10, <1>11, Zenon DEF IsPart
<1>13. j \in 0 .. k /\ j < m
  BY <1>2, <1>7
<1>14. \A q \in g[j] : q[2] \in Seq(Terminals(rules))
  BY <1>2, <1>13 DEF IsPart
<1>15. PICK h : /\ Expects(S \cup {h}, h, depth)
                /\ h.dot < Size(h) =>
                     <<NextIn(h), Section(inputKeys, h.cut[h.dot], h.cut[h.dot + 1])>> \in g[j]
  BY <1>2, <1>8, <1>9, <1>12, <1>13, <1>14, ChildExpected
<1>16. h.dot < Size(h) /\ next(h) \in g[j]
  BY <1>3, <1>15 DEF next
<1>17. Waiting(j)
  BY <1>15, <1>16 DEF Waiting
<1>18. j \in N
  BY <1>13, <1>17
<1> HIDE DEF N
<1>19. m <= j
  BY <1>6, <1>18
<1> QED
  BY <1>7, <1>13, <1>19

LEMMA TerminalSection ==
    ASSUME rules \in Grammars, IsSentence, NEW X \in Terminals(rules),
           NEW a \in Nat, NEW b \in Nat, a <= b, b <= Len(inputKeys),
           <<X, Section(inputKeys, a, b)>> \in Sentences(rules, MaxTokens)
    PROVE  b = a + 1 /\ b <= Len(inputKeys) /\ inputKeys[b] = X
<1>1. inputKeys \in Seq(Terminals(rules)) /\ Len(inputKeys) \in Nat /\ MaxTokens \in Nat
  BY WordFacts
<1>2. PICK k, g :
        /\ k \in Nat /\ g[k] = Sentences(rules, MaxTokens)
        /\ \A n \in 0 .. k : \A p \in g[n] : IsPart(p, n, g, rules, MaxTokens)
  BY <1>1, SentenceParts
<1>3. PICK p : p = <<X, Section(inputKeys, a, b)>>
  OBVIOUS
<1>4. p[1] = X /\ p[2] = Section(inputKeys, a, b)
  BY <1>3
<1>5. IsPart(p, k, g, rules, MaxTokens)
  BY <1>2, <1>3
<1>6. \A r \in DOMAIN rules : rules[r].nonTerminal # X
  BY DEF Terminals, LeftSides
<1>7. p \in Alone(rules)
  BY <1>4, <1>5, <1>6 DEF IsPart
<1>8. PICK t : t \in Terminals(rules) /\ p = <<t, <<t>>>>
  BY <1>7 DEF Alone
<1>9. Section(inputKeys, a, b) = <<X>>
  <2>1. p[1] = t /\ p[2] = <<t>>
    BY <1>8
  <2> QED
    BY <1>4, <2>1
<1>10. b - a = 1 /\ inputKeys[a + 1] = X
  <2>1. PICK s : s = Section(inputKeys, a, b) /\ s = <<X>>
    BY <1>9
  <2>2. Len(s) = b - a /\ \A l \in 1 .. b - a : s[l] = inputKeys[a + l]
    BY <1>1, <2>1, SectionIs DEF Section
  <2>3. Len(s) = 1 /\ s[1] = X
    BY <2>1
  <2>4. b - a = 1
    BY <2>2, <2>3
  <2> QED
    BY <2>2, <2>3, <2>4
<1> QED
  BY <1>10

\* The state on top, and what it was read before.
LEMMA TopFacts ==
    ASSUME Graph, Complete, IsSentence, IsSeq(tokens), Reads, currIndex \in Nat,
           NEW k \in DOMAIN kernels, k \in DOMAIN states,
           NEW depth \in Nat, k = stack[bottom + 2 * depth].state,
           NEW S, NEW f, Expects(S, f, depth)
    PROVE  /\ rules \in Grammars /\ IsFrame(f) /\ RowComplete(k)
           /\ \E c \in kernels[k].closure :
                c.rule = f.rule /\ c.dotIndex = f.dot /\ AheadRight(c)
           /\ currIndex = f.cut[f.dot] + 1
           /\ token = KeyAt(inputKeys, f.cut[f.dot] + 1)
           /\ f.cut[f.dot] \in Nat /\ f.cut[f.dot] <= Len(inputKeys)
<1>1. /\ rules \in Grammars /\ IsFrame(f) /\ HasItem(f)
      /\ f.base + f.dot = depth /\ f.cut[f.dot] = currIndex - 1
  BY DEF Graph, Expects, Frames, OnTop
<1>2. RowComplete(k)
  BY DEF Complete
<1>3. PICK c \in kernels[k].closure : c.rule = f.rule /\ c.dotIndex = f.dot
  BY <1>1 DEF HasItem
<1>4. AheadRight(c)
  BY DEF Complete
<1>5. PICK n \in Nat : n = f.cut[f.dot] /\ n <= Len(inputKeys)
  <2>1. f.dot \in 0 .. Size(f)
    BY <1>1 DEF IsFrame
  <2> QED
    BY <1>1, <2>1, FrameFacts
<1>6. currIndex = n + 1
  BY <1>1, <1>5
<1>7. token = KeyAt(inputKeys, currIndex)
  BY <1>1, <1>5, <1>6, NextKey
<1> QED
  BY <1>1, <1>2, <1>3, <1>4, <1>5, <1>6, <1>7

\* What was read to its end is reduced.
LEMMA ReadToEnd ==
    ASSUME Graph, Complete, TableIsSound, IsSentence, IsSeq(tokens), Reads, currIndex \in Nat,
           NEW k \in DOMAIN kernels, k \in DOMAIN states,
           NEW depth \in Nat, k = stack[bottom + 2 * depth].state,
           NEW S, NEW f, Expects(S, f, depth), f.dot = Size(f)
    PROVE  /\ token \in DOMAIN states[k].lrAction
           /\ states[k].lrAction[token] =
                IF f.rule = 1 THEN Action("accept", 1) ELSE Action("reduce", f.rule)
<1>1. /\ rules \in Grammars /\ IsFrame(f) /\ RowComplete(k)
      /\ token = KeyAt(inputKeys, f.cut[f.dot] + 1)
  BY TopFacts
<1>2. PICK c \in kernels[k].closure :
        c.rule = f.rule /\ c.dotIndex = f.dot /\ AheadRight(c)
  BY TopFacts
<1>3. Reducible(c)
  BY <1>1, <1>2, ItemOfFrame
<1>4. token \in c.lookAheads
  <2>1. CASE f.rule = 1
    <3>1. f.cut[f.dot] = Len(inputKeys) /\ Len(inputKeys) \in Nat
      BY <1>1, <2>1, WordFacts DEF IsFrame
    <3>2. token = END
      BY <1>1, <3>1 DEF KeyAt
    <3> QED
      BY <1>2, <2>1, <3>2 DEF AheadRight
  <2>2. CASE f.rule # 1
    <3>1. PICK A : A = rules[f.rule].nonTerminal
      OBVIOUS
    <3>2. token \in Of(Follow(rules), A) /\ A \in nonTerminals
      BY <1>1, <3>1 DEF IsFrame, nonTerminals
    <3>3. token \in follows[A]
      BY <1>1, <3>2 DEF TableIsSound, FollowsComplete, FollowOf
    <3> QED
      BY <1>2, <2>2, <3>1, <3>3 DEF AheadRight
  <2> QED
    BY <2>1, <2>2
<1>5. PICK row : row = states[k].lrAction
  OBVIOUS
<1>6. token \in DOMAIN row /\ ReducesBy(k, row[token], token)
  BY <1>1, <1>2, <1>3, <1>4, <1>5, Zenon DEF RowComplete
<1>7. PICK i \in kernels[k].closure :
        Reducible(i) /\ token \in i.lookAheads /\ row[token] = ReduceBy(i)
  BY <1>6 DEF ReducesBy
<1>8. i = c
  BY <1>2, <1>3, <1>4, <1>7, Zenon DEF TableIsSound, WithoutConflict
<1>9. ReduceBy(c) = IF f.rule = 1 THEN Action("accept", 1) ELSE Action("reduce", f.rule)
  BY <1>2 DEF ReduceBy
<1> QED
  BY <1>5, <1>6, <1>7, <1>8, <1>9

\* A terminal that is expected is the one that is read, and is shifted.
LEMMA ReadBefore ==
    ASSUME Graph, Complete, TableIsSound, IsSentence, IsSeq(tokens), Reads, currIndex \in Nat,
           NEW k \in DOMAIN kernels, k \in DOMAIN states,
           NEW depth \in Nat, k = stack[bottom + 2 * depth].state,
           NEW S, NEW f, Expects(S, f, depth),
           f.dot < Size(f), NextIn(f) \in Terminals(rules)
    PROVE  /\ token = NextIn(f)
           /\ token \in DOMAIN states[k].lrAction
           /\ states[k].lrAction[token] = Action("shift", kernels[k].gotos[token])
           /\ f.cut[f.dot + 1] = currIndex
<1>1. /\ rules \in Grammars /\ IsFrame(f) /\ RowComplete(k)
      /\ token = KeyAt(inputKeys, f.cut[f.dot] + 1)
      /\ currIndex = f.cut[f.dot] + 1
  BY TopFacts
<1>2. PICK c \in kernels[k].closure : c.rule = f.rule /\ c.dotIndex = f.dot
  BY TopFacts
<1>3. ~ AtEnd(c) /\ AfterDot(c) = NextIn(f) /\ NextIn(f) # EPSILON
  BY <1>1, <1>2, ItemOfFrame
<1>4. PICK a \in Nat, b \in Nat :
        a = f.cut[f.dot] /\ b = f.cut[f.dot + 1] /\ a <= b /\ b <= Len(inputKeys)
  BY <1>1, FrameFacts
<1>5. b = a + 1 /\ inputKeys[b] = NextIn(f)
  <2>1. <<NextIn(f), Section(inputKeys, a, b)>> \in Sentences(rules, MaxTokens)
    BY <1>1, <1>4, FrameFacts
  <2>2. PICK X : X = NextIn(f)
    OBVIOUS
  <2>3. /\ X \in Terminals(rules)
        /\ <<X, Section(inputKeys, a, b)>> \in Sentences(rules, MaxTokens)
        /\ rules \in Grammars /\ a <= b /\ b <= Len(inputKeys)
    BY <1>1, <1>4, <2>1, <2>2
  <2>4. b = a + 1 /\ inputKeys[b] = X
    BY <2>3, TerminalSection
  <2> QED
    BY <2>2, <2>4
<1>6. token = NextIn(f)
  BY <1>1, <1>4, <1>5 DEF KeyAt
<1>7. token \in DOMAIN kernels[k].gotos \cap terminals
  <2>1. DOMAIN kernels[k].gotos = AfterDots(k)
    BY DEF Graph, GotosComplete, Done, TableIsSound
  <2>2. NextIn(f) \in AfterDots(k)
    BY <1>2, <1>3 DEF AfterDots
  <2>3. NextIn(f) \in terminals
    BY <1>1, SameTerminals DEF terminals
  <2> QED
    BY <1>6, <2>1, <2>2, <2>3
<1>8. PICK row : row = states[k].lrAction
  OBVIOUS
<1>9. /\ token \in DOMAIN row
      /\ \/ row[token] = Action("shift", kernels[k].gotos[token])
         \/ ReducesBy(k, row[token], token)
  BY <1>1, <1>7, <1>8, Zenon DEF RowComplete
<1>10. ~ ReducesBy(k, row[token], token)
  <2> SUFFICES ASSUME NEW i \in kernels[k].closure, Reducible(i), token \in i.lookAheads
               PROVE  FALSE
    BY DEF ReducesBy
  <2>1. i.lookAheads \cap DOMAIN kernels[k].gotos = {}
    BY DEF TableIsSound, WithoutConflict
  <2> QED
    BY <1>7, <2>1
<1> QED
  BY <1>1, <1>4, <1>5, <1>6, <1>8, <1>9, <1>10

\* What is said of a frame is said of the rules and the word.
LEMMA FrameSame ==
    ASSUME rules' = rules, tokens' = tokens
    PROVE  /\ inputKeys' = inputKeys
           /\ \A e : /\ IsFrame(e)' <=> IsFrame(e)
                     /\ \A g : IsParent(g, e)' <=> IsParent(g, e)
<1>1. inputKeys' = inputKeys
  BY DEF inputKeys, keyOf
<1> HIDE DEF inputKeys
<1>2. \A e : Size(e)' = Size(e) /\ NextIn(e)' = NextIn(e)
  BY DEF Size, NextIn
<1>3. ASSUME NEW e PROVE IsFrame(e)' <=> IsFrame(e)
  BY <1>1, <1>2, Zenon DEF IsFrame
<1>4. ASSUME NEW e, NEW g PROVE IsParent(g, e)' <=> IsParent(g, e)
  BY <1>2, Zenon DEF IsParent
<1> QED
  BY <1>1, <1>3, <1>4

\* When the symbol after its dot has been pushed, a frame goes on behind it, and
\* with it those whose dots are not above it.
LEMMA Advanced ==
    ASSUME Graph, Complete, phase = "ready", ShiftsComplete, IsSentence,
           bottom \in Nat \ {0},
           NEW depth \in Nat, NEW S, Frames(S, depth), NEW f \in S, f.dot < Size(f),
           NEW d \in Nat, d = f.base + f.dot,
           NEW k \in DOMAIN kernels, k = stack[bottom + 2 * d].state,
           \A j \in 1 .. bottom + 2 * d : stack'[j] = stack[j],
           stack'[bottom + 2 * (d + 1)] = Goto(kernels[k].gotos[NextIn(f)]),
           rules' = rules, kernels' = kernels, bottom' = bottom, tokens' = tokens,
           currIndex' - 1 = f.cut[f.dot + 1]
    PROVE  \E T, g : Expects(T, g, d + 1)'
<1>1. /\ rules \in Grammars /\ IsFrame(f) /\ HasItem(f)
      /\ f.rule # 1 => \E g \in S : IsParent(g, f)
  BY DEF Graph, Frames
<1>2. \A e \in S : IsFrame(e) /\ HasItem(e) /\ e.base \in Nat /\ e.dot \in Nat
  BY <1>1, FrameFacts DEF Frames
<1>3. PICK h : h = FrameOf(f.rule, f.dot + 1, f.base, f.cut)
  OBVIOUS
<1>4. /\ h.rule = f.rule /\ h.dot = f.dot + 1 /\ h.base = f.base /\ h.cut = f.cut
      /\ Size(h) = Size(f)
  BY <1>3 DEF FrameOf, Size
<1>5. h.base + h.dot = d + 1 /\ f.base <= d
  <2>1. PICK b \in Nat, m \in Nat : b = f.base /\ m = f.dot
    BY <1>2
  <2> QED
    BY <1>4, <2>1
<1>6. IsFrame(h)
  <2>1. f.dot + 1 \in 0 .. Size(f)
    BY <1>1, FrameFacts
  <2> QED
    BY <1>1, <1>4, <2>1 DEF IsFrame
<1>7. HasItem(h)'
  <2>1. PICK c \in kernels[k].closure : c.rule = f.rule /\ c.dotIndex = f.dot
    BY <1>1 DEF HasItem
  <2>2. ~ AtEnd(c) /\ AfterDot(c) = NextIn(f) /\ NextIn(f) # EPSILON
    BY <1>1, <2>1, ItemOfFrame
  <2>3. PICK n : n = kernels[k].gotos[NextIn(f)]
    OBVIOUS
  <2>4. \E i \in kernels[n].items : i.rule = f.rule /\ i.dotIndex = f.dot + 1
    <3>1. \E i \in kernels[kernels[k].gotos[AfterDot(c)]].items :
             i.rule = c.rule /\ i.dotIndex = c.dotIndex + 1
      BY <2>2 DEF ShiftsComplete
    <3>2. kernels[k].gotos[AfterDot(c)] = n
      BY <2>2, <2>3
    <3> QED
      BY <2>1, <3>1, <3>2
  <2>5. n \in DOMAIN kernels
    <3>1. NextIn(f) \in DOMAIN kernels[k].gotos
      BY <2>1, <2>2 DEF Graph, GotosComplete, Done, AfterDots
    <3>2. n \in 2 .. Len(kernels)
      BY <2>3, <3>1 DEF Graph, GotosRight
    <3>3. DOMAIN kernels = 1 .. Len(kernels) /\ Len(kernels) \in Nat
      BY KernelsFacts DEF Graph
    <3> QED
      BY <3>2, <3>3
  <2>6. kernels[n].items \subseteq kernels[n].closure
    BY <2>5 DEF Complete, Done
  <2>7. stack'[bottom' + 2 * (h.base + h.dot)].state = n
    <3>1. h.base + h.dot = d + 1
      BY <1>5
    <3> QED
      BY <2>3, <3>1 DEF Goto
  <2>8. \E i \in kernels'[n].closure : i.rule = h.rule /\ i.dotIndex = h.dot
    BY <1>4, <2>4, <2>6
  <2> QED
    BY <2>7, <2>8 DEF HasItem
<1>8. ASSUME NEW e \in S, e.base + e.dot <= d PROVE HasItem(e)'
  <2>1. PICK m \in Nat : m = e.base + e.dot /\ bottom + 2 * m \in 1 .. bottom + 2 * d
    BY <1>2, <1>8
  <2>2. stack'[bottom + 2 * m] = stack[bottom + 2 * m]
    BY <2>1
  <2> QED
    BY <1>2, <2>1, <2>2 DEF HasItem
<1> DEFINE T == {e \in S : e.base + e.dot <= d} \cup {h}
<1>9. ASSUME NEW e \in S, e.base <= d, e.rule # 1 PROVE \E g \in T : IsParent(g, e)
  <2>1. PICK g \in S : IsParent(g, e)
    BY <1>9 DEF Frames
  <2>2. g.base + g.dot <= d
    BY <1>9, <2>1 DEF IsParent
  <2> QED
    BY <2>1, <2>2
<1>10. ASSUME NEW e \in T
      PROVE  /\ IsFrame(e)' /\ HasItem(e)' /\ e.base + e.dot <= d + 1
             /\ e.rule # 1 => \E g \in T : IsParent(g, e)'
  <2>1. CASE e = h
    <3>1. h.base + h.dot = d + 1
      BY <1>5
    <3>2. ASSUME h.rule # 1 PROVE \E g \in T : IsParent(g, h)
      <4>1. f.rule # 1 /\ f.base <= d
        BY <1>4, <1>5, <3>2
      <4>2. PICK g \in T : IsParent(g, f)
        BY <1>9, <4>1
      <4>3. IsParent(g, h)
        BY <1>4, <4>2 DEF IsParent
      <4> QED
        BY <4>2, <4>3
    <3> HIDE DEF T
    <3> QED
      BY <1>6, <1>7, <2>1, <3>1, <3>2, FrameSame
  <2>2. CASE e \in S /\ e.base + e.dot <= d
    <3>1. e.base + e.dot <= d + 1 /\ e.base <= d
      BY <1>2, <2>2
    <3>2. e.rule # 1 => \E g \in T : IsParent(g, e)
      BY <1>9, <2>2, <3>1
    <3> HIDE DEF T
    <3> QED
      BY <1>2, <1>8, <2>2, <3>1, <3>2, FrameSame
  <2> QED
    BY <2>1, <2>2
<1>11. h \in T
  OBVIOUS
<1> HIDE DEF T
<1>12. Frames(T, d + 1)'
  BY <1>10 DEF Frames
<1>13. OnTop(h, d + 1)'
  <2>1. h.base + h.dot = d + 1
    BY <1>5
  <2> QED
    BY <1>4, <2>1 DEF OnTop
<1> QED
  BY <1>11, <1>12, <1>13 DEF Expects

LEMMA HopefulSame ==
    ASSUME UNCHANGED <<phase, grammarVars, kernelVars>>, tokens' = tokens
    PROVE  Hopeful' <=> Hopeful
<1>1. /\ phase' = phase /\ rules' = rules /\ follows' = follows /\ kernels' = kernels
  BY DEF grammarVars, kernelVars
<1>2. ASSUME NEW c
      PROVE  /\ AtEnd(c)' <=> AtEnd(c)
             /\ AfterDot(c)' = AfterDot(c)
             /\ Reducible(c)' <=> Reducible(c)
             /\ \A s : getRulesForNonterminal(s)' = getRulesForNonterminal(s)
  BY <1>1 DEF AtEnd, AfterDot, development, Reducible, getRulesForNonterminal
<1> HIDE DEF AtEnd, AfterDot, Reducible, getRulesForNonterminal
<1>3. ClosuresComplete' <=> ClosuresComplete
  BY <1>1 DEF ClosuresComplete, AtEnd, AfterDot, development, getRulesForNonterminal
<1>4. ShiftsComplete' <=> ShiftsComplete
  BY <1>1 DEF ShiftsComplete, AtEnd, AfterDot, development
<1>5. WithoutConflict' <=> WithoutConflict
  BY <1>1, <1>2, Zenon DEF WithoutConflict
<1>6. FollowsComplete' <=> FollowsComplete
  BY <1>1, Zenon DEF FollowsComplete, nonTerminals
<1>7. TableIsSound' <=> TableIsSound
  BY <1>1, <1>3, <1>4, <1>5, <1>6 DEF TableIsSound
<1>8. AxiomHasOneRule' <=> AxiomHasOneRule
  BY <1>1, <1>2 DEF AxiomHasOneRule, axiom
<1>9. AxiomOnTop' <=> AxiomOnTop
  BY <1>1 DEF AxiomOnTop, axiom
<1>10. IsSentence' <=> IsSentence
  BY <1>1 DEF IsSentence, inputKeys, keyOf, axiom
<1> QED
  BY <1>7, <1>8, <1>9, <1>10, Zenon DEF Hopeful

\* Where the parser is, and what is next there.
IsTop(k, depth, S, f) ==
    /\ depth \in Nat /\ IsPath(depth) /\ Len(stack) = bottom + 2 * depth
    /\ k \in DOMAIN kernels /\ k \in DOMAIN states
    /\ k = stack[bottom + 2 * depth].state /\ state = states[k]
    /\ Expects(S, f, depth)
    /\ f.dot = Size(f) \/ (f.dot < Size(f) /\ NextIn(f) \in Terminals(rules))

LEMMA TopReady ==
    ASSUME IInv, Read, Derived, Expecting, Hopeful, Reads
    PROVE  \E k, depth, S, f : IsTop(k, depth, S, f)
<1>1. outcome = "parsing"
  BY DEF Reads
<1>2. phase = "ready" /\ IsSeq(stack) /\ bottom \in Nat \ {0} /\ Graph /\ Table
  BY <1>1, Running DEF IInv
<1>3. PICK depth \in Nat : IsPath(depth) /\ Len(stack) = bottom + 2 * depth
  BY <1>1, Running
<1>4. \E S, f : Expects(S, f, depth)
  <2>1. PICK d \in Nat : Len(stack) = bottom + 2 * d /\ \E S, f : Expects(S, f, d)
    BY <1>1 DEF Expecting, Awaiting
  <2>2. d = depth
    BY <1>2, <1>3, <2>1
  <2> QED
    BY <2>1, <2>2
<1>5. PICK k : k = stack[bottom + 2 * depth].state
  OBVIOUS
<1>6. k \in DOMAIN kernels
  BY <1>3, <1>5, StateAt
<1>7. k \in DOMAIN states /\ state = states[k]
  <2>1. top = stack[bottom + 2 * depth]
    BY <1>2, <1>3, TopIs
  <2> QED
    BY <1>2, <1>5, <1>6, <2>1, RowAt DEF state
<1>8. PICK S, f : /\ Expects(S, f, depth)
                  /\ f.dot = Size(f) \/ (f.dot < Size(f) /\ NextIn(f) \in Terminals(rules))
  BY <1>2, <1>4, <1>5, <1>6, ReadyTop DEF Hopeful, TableIsSound
<1> QED
  BY <1>3, <1>5, <1>6, <1>7, <1>8 DEF IsTop

\* What the table says there: to reduce what was read to its end, to shift what
\* is expected next.
LEMMA ActionAtTop ==
    ASSUME IInv, Read, Derived, Complete, Hopeful, Reads,
           NEW k, NEW depth, NEW S, NEW f, IsTop(k, depth, S, f)
    PROVE  /\ token \in DOMAIN state.lrAction
           /\ f.dot = Size(f) =>
                action = IF f.rule = 1 THEN Action("accept", 1) ELSE Action("reduce", f.rule)
           /\ f.dot # Size(f) =>
                /\ f.dot < Size(f) /\ token = NextIn(f) /\ f.cut[f.dot + 1] = currIndex
                /\ action = Action("shift", kernels[k].gotos[token])
<1>1. /\ Graph /\ TableIsSound /\ IsSentence /\ IsSeq(tokens) /\ currIndex \in Nat
  BY Running DEF IInv, Hopeful, Reads
<1>2. /\ depth \in Nat /\ k \in DOMAIN kernels /\ k \in DOMAIN states
      /\ k = stack[bottom + 2 * depth].state /\ state = states[k]
      /\ Expects(S, f, depth)
      /\ f.dot = Size(f) \/ (f.dot < Size(f) /\ NextIn(f) \in Terminals(rules))
  BY DEF IsTop
<1>3. ASSUME f.dot = Size(f)
      PROVE  /\ token \in DOMAIN states[k].lrAction
             /\ states[k].lrAction[token] =
                  IF f.rule = 1 THEN Action("accept", 1) ELSE Action("reduce", f.rule)
  BY <1>1, <1>2, <1>3, ReadToEnd
<1>4. ASSUME f.dot < Size(f), NextIn(f) \in Terminals(rules)
      PROVE  /\ token = NextIn(f)
             /\ token \in DOMAIN states[k].lrAction
             /\ states[k].lrAction[token] = Action("shift", kernels[k].gotos[token])
             /\ f.cut[f.dot + 1] = currIndex
  BY <1>1, <1>2, <1>4, ReadBefore
<1> QED
  BY <1>2, <1>3, <1>4 DEF action

\* A shift goes on behind the terminal.
LEMMA ShiftExpects ==
    ASSUME IInv, Read, Derived, Complete, Expecting, Hopeful, shift PROVE Awaiting'
<1>1. Reads /\ action.kind = "shift"
  BY DEF shift, Does, action
<1>2. PICK k, depth, S, f : IsTop(k, depth, S, f)
  BY <1>1, TopReady
<1>3. /\ depth \in Nat /\ Len(stack) = bottom + 2 * depth
      /\ k \in DOMAIN kernels /\ k = stack[bottom + 2 * depth].state
      /\ Expects(S, f, depth)
  BY <1>2 DEF IsTop
<1>4. /\ f.dot < Size(f) /\ token = NextIn(f) /\ f.cut[f.dot + 1] = currIndex
      /\ action = Action("shift", kernels[k].gotos[NextIn(f)])
  <2>1. f.dot # Size(f)
    BY <1>1, <1>2, ActionAtTop DEF Action
  <2> QED
    BY <1>1, <1>2, <2>1, ActionAtTop
<1>5. /\ Graph /\ phase = "ready" /\ bottom \in Nat \ {0} /\ IsSeq(stack)
      /\ currIndex \in Nat
  BY <1>1, Running DEF IInv, Reads
<1>6. ShiftsComplete /\ IsSentence
  BY <1>5 DEF Hopeful, TableIsSound
<1>7. /\ rules' = rules /\ kernels' = kernels /\ bottom' = bottom /\ tokens' = tokens
      /\ currIndex' = currIndex + 1
  BY DEF shift, grammarVars, kernelVars
<1>8. PICK g : g = Goto(kernels[k].gotos[NextIn(f)])
  OBVIOUS
<1>9. \E e : stack' = stack \o <<e, g>>
  <2>1. action.n = kernels[k].gotos[NextIn(f)]
    BY <1>4 DEF Action
  <2> QED
    BY <1>8, <2>1 DEF shift
<1>10. /\ Len(stack') = Len(stack) + 2
       /\ \A j \in 1 .. Len(stack) : stack'[j] = stack[j]
       /\ stack'[Len(stack) + 2] = g
  <2>1. PICK e : stack' = stack \o <<e, g>>
    BY <1>9
  <2> DEFINE t == stack \o <<e, g>>
  <2>2. /\ Len(t) = Len(stack) + 2
        /\ \A j \in 1 .. Len(stack) : t[j] = stack[j]
        /\ t[Len(stack) + 2] = g
    BY <1>5, PushedTwo
  <2> HIDE DEF t
  <2>3. stack' = t
    BY <2>1 DEF t
  <2> QED
    BY <2>2, <2>3
<1>11. PICK h : h = bottom + 2 * depth
  OBVIOUS
<1>12. h + 2 = bottom + 2 * (depth + 1)
  BY <1>3, <1>5, <1>11
<1>13. f \in S /\ Frames(S, depth) /\ depth = f.base + f.dot
  BY <1>3 DEF Expects, OnTop
<1>14. currIndex' - 1 = f.cut[f.dot + 1]
  BY <1>4, <1>5, <1>7
<1>15. \E T, e : Expects(T, e, depth + 1)'
  <2>1. \A j \in 1 .. bottom + 2 * depth : stack'[j] = stack[j]
    BY <1>3, <1>10
  <2>2. stack'[bottom + 2 * (depth + 1)] = Goto(kernels[k].gotos[NextIn(f)])
    BY <1>3, <1>8, <1>10, <1>11, <1>12
  <2> QED
    BY <1>3, <1>4, <1>5, <1>6, <1>7, <1>13, <1>14, <2>1, <2>2, Advanced
<1>16. Len(stack') = bottom' + 2 * (depth + 1) /\ depth + 1 \in Nat
  BY <1>3, <1>7, <1>10, <1>11, <1>12
<1> QED
  BY <1>15, <1>16 DEF Awaiting

\* A reduction goes on behind the rule's left side, in the rule it was read for.
LEMMA ReduceExpects ==
    ASSUME IInv, Read, Derived, Complete, Expecting, Hopeful, reduce PROVE Awaiting'
<1>1. Reads /\ action.kind = "reduce"
  BY DEF reduce, Does, action
<1>2. PICK k, depth, S, f : IsTop(k, depth, S, f)
  BY <1>1, TopReady
<1>3. /\ depth \in Nat /\ Len(stack) = bottom + 2 * depth /\ IsPath(depth)
      /\ Expects(S, f, depth)
  BY <1>2 DEF IsTop
<1>4. f.dot = Size(f) /\ f.rule # 1 /\ action.n = f.rule
  BY <1>1, <1>2, ActionAtTop DEF Action
<1>5. /\ Graph /\ Table /\ Pushed /\ phase = "ready" /\ bottom \in Nat \ {0}
      /\ currIndex \in Nat /\ rules \in Grammars
  BY <1>1, Running DEF IInv, Reads
<1>6. ShiftsComplete /\ IsSentence
  BY <1>5 DEF Hopeful, TableIsSound
<1>7. /\ rules' = rules /\ kernels' = kernels /\ bottom' = bottom /\ tokens' = tokens
      /\ currIndex' = currIndex
  BY DEF reduce, grammarVars, kernelVars
<1>8. /\ f \in S /\ Frames(S, depth) /\ IsFrame(f)
      /\ f.base + f.dot = depth /\ f.cut[Size(f)] = currIndex - 1
  BY <1>3, <1>4 DEF Expects, OnTop, Frames
<1>9. PICK g \in S : IsParent(g, f)
  BY <1>4, <1>8 DEF Frames
<1>10. /\ g.dot < Size(g) /\ f.base = g.base + g.dot
       /\ NextIn(g) = rules[f.rule].nonTerminal
       /\ f.cut[Size(f)] = g.cut[g.dot + 1]
  BY <1>9 DEF IsParent
<1>11. reducedRule = rules[f.rule] /\ f.rule \in DOMAIN rules
  BY <1>4, <1>8 DEF reducedRule, IsFrame
<1>12. Size(f) \in Nat /\ Size(f) = PoppedSymbols
  <2>1. Size(f) \in Nat
    BY <1>5, <1>6, <1>8, FrameFacts
  <2>2. Len(Body(rules[f.rule])) = IF IsEpsilonRule(rules[f.rule]) THEN 0
                                   ELSE Len(rules[f.rule].development)
    BY <1>5, <1>11, BodyIs
  <2> QED
    BY <1>11, <2>1, <2>2 DEF Size, PoppedSymbols
<1>13. PICK n \in Nat, d \in Nat : n = Size(f) /\ d = f.base /\ d + n = depth
  BY <1>4, <1>8, <1>12 DEF IsFrame
<1>14. d = depth - n /\ Replaces(depth - n, reducedRule.nonTerminal)
  BY <1>3, <1>5, <1>12, <1>13, ReducePushes
<1>15. PICK h, j :
         /\ h = bottom + 2 * d /\ j = stack[h].state /\ j \in DOMAIN kernels
         /\ Len(stack') = h + 2
         /\ \A i \in 1 .. h : stack'[i] = stack[i]
         /\ stack'[h + 2] = Goto(kernels[j].gotos[NextIn(g)])
  <2>1. Replaces(d, NextIn(g))
    BY <1>10, <1>11, <1>14
  <2> QED
    BY <2>1, Zenon DEF Replaces
<1>16. h + 2 = bottom + 2 * (d + 1) /\ d + 1 \in Nat
  BY <1>5, <1>15
<1>17. currIndex' - 1 = g.cut[g.dot + 1] /\ d = g.base + g.dot
  BY <1>7, <1>8, <1>10, <1>13
<1>18. \E T, e : Expects(T, e, d + 1)'
  <2>1. \A i \in 1 .. bottom + 2 * d : stack'[i] = stack[i]
    BY <1>15
  <2>2. stack'[bottom + 2 * (d + 1)] = Goto(kernels[j].gotos[NextIn(g)])
    BY <1>15, <1>16
  <2>3. j = stack[bottom + 2 * d].state
    BY <1>15
  <2> QED
    BY <1>3, <1>5, <1>6, <1>7, <1>8, <1>9, <1>10, <1>15, <1>17, <2>1, <2>2, <2>3, Advanced
<1>19. Len(stack') = bottom' + 2 * (d + 1)
  BY <1>7, <1>15, <1>16
<1> QED
  BY <1>16, <1>18, <1>19 DEF Awaiting

\* A sentence is derived by the axiom's rule, and followed by the end marker.
DerivesAll(cut, w) ==
    /\ IsDerived(rules, MaxTokens, 1, cut, w)
    /\ cut[0] = 0 /\ cut[Len(Body(rules[1]))] = Len(w)

LEMMA WordDerived ==
    ASSUME rules \in Grammars, AxiomHasOneRule, NEW w \in Of(SentencesOf[rules], axiom)
    PROVE  /\ 1 \in DOMAIN rules /\ Len(w) \in Nat
           /\ \E cut : DerivesAll(cut, w)
           /\ KeyAt(w, Len(w) + 1) \in Of(Follow(rules), axiom)
<1>1. /\ MaxTokens \in Nat /\ SentencesOf[rules] = Sentences(rules, MaxTokens)
      /\ 1 \in DOMAIN rules
  BY BoundAssumption, GrammarFacts DEF SentencesOf
<1>2. PICK p : p = <<axiom, w>> /\ p[1] = axiom /\ p[2] = w
  <2>1. PICK p : p = <<axiom, w>>
    OBVIOUS
  <2>2. p[1] = axiom /\ p[2] = w
    BY <2>1
  <2> QED
    BY <2>1, <2>2
<1>3. p \in Sentences(rules, MaxTokens)
  BY <1>1, <1>2, OfSentences
<1>4. PICK k, g :
        /\ k \in Nat /\ g[k] = Sentences(rules, MaxTokens)
        /\ \A n \in 0 .. k : /\ g[n] \subseteq Sentences(rules, MaxTokens)
                            /\ \A q \in g[n] : IsPart(q, n, g, rules, MaxTokens)
  BY <1>1, SentenceParts
<1>5. IsPart(p, k, g, rules, MaxTokens)
  BY <1>3, <1>4
<1>6. w \in Seq(Terminals(rules)) /\ Len(w) \in Nat
  <2>1. w \in Seq(Terminals(rules))
    BY <1>2, <1>5 DEF IsPart
  <2> QED
    BY <2>1, LenProperties
<1>7. p \notin Alone(rules)
  <2>1. \A q \in Alone(rules) : q[1] \in Terminals(rules)
    BY DEF Alone
  <2>2. axiom \in LeftSides(rules)
    BY <1>1 DEF axiom, LeftSides
  <2> QED
    BY <1>2, <2>1, <2>2 DEF Terminals
<1>8. PICK m \in 0 .. k - 1, r \in DOMAIN rules :
        p[1] = rules[r].nonTerminal /\ p[2] \in Joined(g[m], Body(rules[r]), MaxTokens)
  BY <1>5, <1>7, Zenon DEF IsPart
<1>9. r = 1
  BY <1>2, <1>8 DEF AxiomHasOneRule, getRulesForNonterminal
<1>10. m \in 0 .. k
  BY <1>4, <1>8
<1>11. Section(w, 0, Len(w)) = w
  <2>1. w = [l \in 1 .. Len(w) |-> w[l]]
    BY <1>6, LenProperties
  <2>2. Len(w) - 0 = Len(w) /\ \A l \in 1 .. Len(w) : 0 + l = l
    BY <1>6
  <2>3. Section(w, 0, Len(w)) = [l \in 1 .. Len(w) |-> w[l]]
    BY <2>2 DEF Section
  <2> QED
    BY <2>1, <2>3
<1> DEFINE n == Len(Body(rules[1]))
<1>12. n \in Nat
  BY <1>1, BodyPlaces
<1>13. PICK cut : IsSections(cut, w, 0, Len(w), g[m], Body(rules[1]), n)
  <2>1. \A q \in g[m] : q[2] \in Seq(Terminals(rules))
    BY <1>4, <1>10 DEF IsPart
  <2>2. Section(w, 0, Len(w)) \in Joined(g[m], Body(rules[1]), MaxTokens)
    BY <1>2, <1>8, <1>9, <1>11
  <2> QED
    BY <1>6, <1>12, <2>1, <2>2, JoinedSections
<1>14. /\ cut \in [0 .. n -> Nat] /\ Rising(cut, n) /\ cut[0] = 0 /\ cut[n] = Len(w)
       /\ \A l \in 1 .. n : Section(w, cut[l - 1], cut[l]) \in Of(g[m], Body(rules[1])[l])
  BY <1>13 DEF IsSections
<1>15. \A l \in 1 .. n :
         <<Body(rules[1])[l], Section(w, cut[l - 1], cut[l])>> \in Sentences(rules, MaxTokens)
  BY <1>1, <1>4, <1>10, <1>14, OfSentences
<1>16. DerivesAll(cut, w)
  BY <1>6, <1>14, <1>15 DEF DerivesAll, IsDerived
<1>17. KeyAt(w, Len(w) + 1) = END
  BY <1>6 DEF KeyAt
<1>18. END \in Of(Follow(rules), axiom)
  <2>1. <<rules[1].nonTerminal, END>> \in Follow(rules)
    BY FollowClosed
  <2> QED
    BY <2>1, OfFollow DEF axiom
<1> QED
  BY <1>1, <1>6, <1>16, <1>17, <1>18

\* A call of parse expects the axiom.
ParseAwaits ==
    /\ stack' = Append(stack, Goto(1)) /\ bottom' = Len(stack) + 1
    /\ currIndex' = 1 /\ rules' = rules /\ kernels' = kernels

LEMMA ParseExpects ==
    ASSUME IInv, Complete, Parse, Hopeful', outcome' = "parsing" PROVE Awaiting'
<1>1. /\ ParseAwaits /\ phase = "ready"
  BY DEF Parse, parse, ParseAwaits, grammarVars, kernelVars
<1>2. /\ rules \in Grammars /\ Graph
  BY DEF IInv, Graph
<1>3. PICK w : w = inputKeys'
  OBVIOUS
<1>4. w \in Of(SentencesOf[rules], axiom) /\ AxiomHasOneRule
  <2>1. axiom' = axiom /\ rules' = rules
    BY <1>1 DEF axiom, ParseAwaits
  <2>2. AxiomHasOneRule
    BY <2>1 DEF Hopeful, AxiomHasOneRule, getRulesForNonterminal
  <2> QED
    BY <1>3, <2>1, <2>2 DEF Hopeful, IsSentence
<1>5. PICK cut : DerivesAll(cut, w)
  BY <1>2, <1>4, WordDerived
<1>6. 1 \in DOMAIN rules /\ KeyAt(w, Len(w) + 1) \in Of(Follow(rules), axiom)
  BY <1>2, <1>4, WordDerived
<1>7. PICK h : h = FrameOf(1, 0, 0, cut)
  OBVIOUS
<1>8. h.rule = 1 /\ h.dot = 0 /\ h.base = 0 /\ h.cut = cut
  BY <1>7 DEF FrameOf
<1>9. Size(h)' = Len(Body(rules[1])) /\ Len(Body(rules[1])) \in Nat
  BY <1>1, <1>2, <1>6, <1>8, BodyPlaces DEF Size, ParseAwaits
<1>10. IsFrame(h)'
  <2>1. rules' = rules /\ inputKeys' = w
    BY <1>1, <1>3 DEF ParseAwaits
  <2>2. h.dot \in 0 .. Len(Body(rules[1]))
    BY <1>8, <1>9
  <2>3. IsDerived(rules, MaxTokens, h.rule, h.cut, w)
    BY <1>5, <1>8 DEF DerivesAll
  <2>4. h.cut[Len(Body(rules[1]))] = Len(w)
    BY <1>5, <1>8 DEF DerivesAll
  <2>5. KeyAt(w, h.cut[Len(Body(rules[1]))] + 1) \in Of(Follow(rules), rules[h.rule].nonTerminal)
    BY <1>6, <1>8, <2>4 DEF axiom
  <2> QED
    BY <1>6, <1>8, <1>9, <2>1, <2>2, <2>3, <2>4, <2>5 DEF IsFrame
<1>11. IsSeq(stack) /\ Len(stack) \in Nat
  BY SeqFacts DEF IInv, Pushed
<1>12. stack'[Len(stack) + 1] = Goto(1) /\ Len(stack') = Len(stack) + 1
  BY <1>1, <1>11, Appended DEF ParseAwaits
<1>13. \E c \in kernels[1].closure : c.rule = 1 /\ c.dotIndex = 0
  <2>1. 1 \in DOMAIN kernels
    BY <1>2, KernelsFacts DEF Graph
  <2>2. kernels[1].items = {ItemOf(1, 0, {END})}
    BY <1>2, <2>1, Zenon DEF Graph, ItemsRight
  <2>3. kernels[1].items \subseteq kernels[1].closure
    BY <1>1, <2>1 DEF Complete, Done
  <2> QED
    BY <2>2, <2>3 DEF ItemOf
<1>14. HasItem(h)'
  <2>1. stack'[bottom' + 2 * (h.base + h.dot)].state = 1
    <3>1. bottom' + 2 * (h.base + h.dot) = Len(stack) + 1
      BY <1>1, <1>8, <1>11 DEF ParseAwaits
    <3> QED
      BY <1>12, <3>1 DEF Goto
  <2> QED
    BY <1>1, <1>8, <1>13, <2>1 DEF HasItem, ParseAwaits
<1>15. Frames({h}, 0)'
  <2>1. h.base + h.dot <= 0 /\ h.rule = 1
    BY <1>8
  <2> QED
    BY <1>10, <1>14, <2>1 DEF Frames
<1>16. OnTop(h, 0)'
  <2>1. cut[0] = 0 /\ currIndex' - 1 = 0
    BY <1>1, <1>5 DEF DerivesAll, ParseAwaits
  <2> QED
    BY <1>8, <2>1 DEF OnTop
<1>17. Expects({h}, h, 0)'
  BY <1>15, <1>16 DEF Expects
<1>18. Len(stack') = bottom' + 2 * 0
  BY <1>1, <1>11, <1>12 DEF ParseAwaits
<1> QED
  BY <1>17, <1>18 DEF Awaiting

\* What is expected stays so until a sentence is accepted: nothing throws.
LEMMA ExpectingKept ==
    ASSUME IInv, Read, Derived, Complete, Expecting, RejectsNoSentence,
           \/ Build \/ Parse \/ ParserStep \/ ClientStep
           \/ UNCHANGED <<phase, grammarVars, kernelVars, parserVars>>
    PROVE  Expecting' /\ RejectsNoSentence'
<1>1. ASSUME outcome' = "parsing" \/ outcome' # "thrown" PROVE RejectsNoSentence'
  BY <1>1 DEF RejectsNoSentence
<1>2. ASSUME outcome' # "parsing" PROVE Expecting'
  BY <1>2 DEF Expecting
<1>3. CASE Build
  <2>1. UNCHANGED parserVars
    BY <1>3 DEF Build
  <2>2. outcome' # "none" => phase = "ready" /\ outcome' = outcome
    BY <2>1 DEF parserVars, Complete
  <2>3. phase # "ready"
    BY <1>3 DEF Build, GrammarStep, FirstsOfEpsilonRule, FirstsOfRule, FirstsPassEnds,
                FollowsOfSymbol, FollowsRuleEnds, FollowsPassEnds, KernelStep,
                updateClosure, addGoto, NextKernel, GraphEnds, buildState, StatesEnd
  <2> QED
    BY <1>1, <1>2, <2>2, <2>3
<1>4. CASE Parse
  <2>1. outcome' = "thrown" => tokens' = <<>>
    BY <1>4 DEF Parse, parse
  <2>2. RejectsNoSentence'
    BY <2>1 DEF RejectsNoSentence
  <2>3. Expecting'
    BY <1>4, ParseExpects DEF Expecting
  <2> QED
    BY <2>2, <2>3
<1>5. ASSUME UNCHANGED <<phase, grammarVars, kernelVars>>, tokens' = tokens,
             outcome = "parsing", Hopeful => outcome' # "thrown",
             Hopeful /\ outcome' = "parsing" => Awaiting'
      PROVE  Expecting' /\ RejectsNoSentence'
  <2>1. Hopeful' <=> Hopeful
    BY <1>5, HopefulSame
  <2>2. Expecting'
    BY <1>5, <2>1 DEF Expecting
  <2>3. RejectsNoSentence'
    BY <1>5, <2>1 DEF RejectsNoSentence, Hopeful
  <2> QED
    BY <2>2, <2>3
<1>6. CASE shift
  <2>1. /\ UNCHANGED <<phase, grammarVars, kernelVars>> /\ tokens' = tokens
        /\ outcome = "parsing" /\ outcome' = outcome
    BY <1>6 DEF shift, Does, Reads
  <2> QED
    BY <1>5, <1>6, <2>1, ShiftExpects
<1>7. CASE reduce
  <2>1. /\ UNCHANGED <<phase, grammarVars, kernelVars>> /\ tokens' = tokens
        /\ outcome = "parsing" /\ outcome' = outcome
    BY <1>7 DEF reduce, Does, Reads
  <2> QED
    BY <1>5, <1>7, <2>1, ReduceExpects
<1>8. CASE throw
  <2>1. /\ UNCHANGED <<phase, grammarVars, kernelVars>> /\ tokens' = tokens
        /\ outcome = "parsing" /\ outcome' = "thrown" /\ Reads
        /\ token \notin DOMAIN state.lrAction
    BY <1>8 DEF throw, Reads
  <2>2. ~ Hopeful
    <3> SUFFICES ASSUME Hopeful PROVE FALSE
      OBVIOUS
    <3>1. PICK k, depth, S, f : IsTop(k, depth, S, f)
      BY <2>1, TopReady
    <3> QED
      BY <2>1, <3>1, ActionAtTop
  <2> QED
    BY <1>5, <2>1, <2>2
<1>9. CASE accept \/ ReadPastEnd \/ ClientStep
  <2>1. outcome' # "parsing" /\ outcome' # "thrown"
    BY <1>9 DEF accept, ReadPastEnd, ClientStep
  <2> QED
    BY <1>1, <1>2, <2>1
<1>10. CASE UNCHANGED <<phase, grammarVars, kernelVars, parserVars>>
  <2>1. /\ UNCHANGED <<phase, grammarVars, kernelVars>> /\ tokens' = tokens
        /\ outcome' = outcome
    BY <1>10 DEF parserVars
  <2>2. Hopeful' <=> Hopeful
    BY <2>1, HopefulSame
  <2>3. RejectsNoSentence'
    BY <2>1, <2>2 DEF RejectsNoSentence, Hopeful
  <2>4. ASSUME outcome = "parsing", Hopeful PROVE Awaiting'
    <3>1. PICK d \in Nat : Len(stack) = bottom + 2 * d /\ \E S, f : Expects(S, f, d)
      BY <2>4 DEF Expecting, Awaiting
    <3>2. PICK S, f : Expects(S, f, d)
      BY <3>1
    <3>3. /\ stack' = stack /\ bottom' = bottom /\ kernels' = kernels /\ rules' = rules
          /\ currIndex' = currIndex
      BY <1>10 DEF parserVars, grammarVars, kernelVars
    <3>4. \A e : /\ IsFrame(e)' <=> IsFrame(e)
                 /\ \A g : IsParent(g, e)' <=> IsParent(g, e)
      BY <2>1, <3>3, FrameSame
    <3>5. \A e : (HasItem(e)' <=> HasItem(e)) /\ (OnTop(e, d)' <=> OnTop(e, d))
      BY <3>3 DEF HasItem, OnTop
    <3>6. Expects(S, f, d)'
      BY <3>2, <3>4, <3>5, Zenon DEF Expects, Frames
    <3> QED
      BY <3>1, <3>3, <3>6 DEF Awaiting
  <2> QED
    BY <2>1, <2>2, <2>3, <2>4 DEF Expecting
<1> QED
  BY <1>3, <1>4, <1>6, <1>7, <1>8, <1>9, <1>10 DEF ParserStep

\* Whatever the grammar: if the table built for it has every item, no conflict
\* and complete FOLLOW sets, and its first rule is the axiom's only one and the
\* axiom is on no right side, then no sentence of it that has a token is
\* rejected, whatever earlier parses left on the stack.
THEOREM SentencesNotRejected == ParserSpec => []RejectsNoSentence
<1> DEFINE Next == Build \/ Parse \/ ParserStep \/ ClientStep
           vars == <<phase, grammarVars, kernelVars, parserVars>>
           Inv == /\ IInv /\ Read /\ Derived /\ AcceptsOnlySentences
                  /\ Complete /\ Expecting /\ RejectsNoSentence
<1>1. GrammarInit /\ KernelInit /\ ParserInit => Inv
  BY InitRight, CompleteInit
     DEF ParserInit, Read, TokensSuffice, Derived, AcceptsOnlySentences, Expecting,
         RejectsNoSentence
<1>2. Inv /\ [Next]_vars => Inv'
  <2>1. ASSUME Inv, Next PROVE Inv'
    <3>1. IInv' /\ Read' /\ Derived' /\ AcceptsOnlySentences'
      BY <2>1, StepKeeps, ReadKept, AcceptedKept
    <3>2. Complete' /\ Expecting' /\ RejectsNoSentence'
      BY <2>1, CompleteKept, ExpectingKept
    <3> QED
      BY <3>1, <3>2
  <2>2. ASSUME Inv, UNCHANGED vars PROVE Inv'
    <3>1. Read'
      BY <2>2 DEF Read, TokensSuffice, Ends, keyOf, Token, vars, parserVars
    <3>2. IInv' /\ Derived' /\ AcceptsOnlySentences'
      BY <2>2, StutterKeeps, AcceptedKept
    <3>3. Complete' /\ Expecting' /\ RejectsNoSentence'
      BY <2>2, CompleteKept, ExpectingKept
    <3> QED
      BY <3>1, <3>2, <3>3
  <2> QED
    BY <2>1, <2>2, Zenon
<1>3. Inv => RejectsNoSentence
  OBVIOUS
<1> QED
  BY <1>1, <1>2, <1>3, PTL DEF ParserSpec
=============================================================================
