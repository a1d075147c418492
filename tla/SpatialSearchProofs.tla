------------------------ MODULE SpatialSearchProofs ------------------------
(***************************************************************************)
(* What SearchTag reports and misses, for every size of a node, every      *)
(* number of dimensions, every set of boxes and any callback, one that     *)
(* inserts into the tree included.                                         *)
(***************************************************************************)
EXTENDS SpatialSearch, SpatialIndexProofs

\* A search changes nothing of the index: seen without its own variables it is
\* calls of Insert, and steps that do nothing.
LEMMA SearchStepsStutter ==
    ASSUME SearchStep \/ \E a_target \in Targets : SearchTag(a_target)
    PROVE  UNCHANGED vars
  BY DEF SearchStep, SearchTag, Process, Answer, Pass, Visit, LeaveNode, EndSearch

LEMMA SearchIsIndex == SearchSpec => Spec
  <1>1. SearchInit => Init
    BY DEF SearchInit
  <1>2. [SearchNext]_allVars => [Next]_vars
    <2>1. CASE CallIndex
      BY <2>1 DEF CallIndex
    <2>2. CASE SearchStep \/ \E a_target \in Targets : SearchTag(a_target)
      BY <2>2, SearchStepsStutter
    <2>3. CASE UNCHANGED allVars
      BY <2>3 DEF allVars
    <2> QED
      BY <2>1, <2>2, <2>3 DEF SearchNext
  <1> QED
    BY <1>1, <1>2, PTL DEF SearchSpec, Spec

\* Searches, and inserts from within a search, keep the tree as Insert does.
THEOREM SearchKeepsTree ==
    SearchSpec => [](/\ TypeOK /\ HeightsStep /\ Occupancy /\ NodesLinkedOnce
                     /\ BoxesExact /\ EntriesKept /\ IndexInBounds)
  BY SearchIsIndex, SpatialTypes, SpatialHeights, SpatialOccupancy, SpatialLinks,
     SpatialBoxes, SpatialEntries, SpatialIndexInBounds, PTL
-----------------------------------------------------------------------------
\* What a step of the index leaves as it is for the loops of a search: the
\* nodes and their heights.
LEMMA NextExtends ==
    ASSUME ShapeInv, [Next]_vars
    PROVE  Extends(heap, heap') /\ m_size' >= m_size
  <1>0. m_size \in Nat /\ heap \in Seq(Node) /\ Len(heap) \in Nat
    BY MaxInsertsAssumption DEF ShapeInv, TypeOK
  <1>1. CASE heap' = heap /\ m_size' = m_size
    BY <1>0, <1>1 DEF Extends
  <1>2. CASE AddToLeaf
    BY <1>0, <1>2, AddToLeafShape DEF AddToLeaf
  <1>3. CASE AllocateSibling
    BY <1>0, <1>3, AllocateSiblingShape DEF AllocateSibling
  <1>4. CASE FillNext
    BY <1>0, <1>4, FillNextShape DEF FillNext
  <1>5. CASE ReturnUnsplit
    BY <1>0, <1>5, ReturnUnsplitShape DEF ReturnUnsplit
  <1>6. CASE ReturnSplit
    BY <1>0, <1>6, ReturnSplitShape DEF ReturnSplit
  <1>7. CASE Finish
    <2>1. m_size' = m_size + 1
      BY <1>7 DEF Finish
    <2>2. Extends(heap, heap')
      BY <1>7, FinishShape
    <2> QED
      BY <1>0, <2>1, <2>2
  <1>8. CASE SplitStep /\ UNCHANGED <<indexVars, callVars>>
    BY <1>1, <1>8 DEF indexVars
  <1>9. CASE Descend \/ DescendNowhere \/ DanglingRead \/ Stopped \/ UNCHANGED vars
    BY <1>1, <1>9 DEF Descend, DescendNowhere, DanglingRead, Stopped, vars, indexVars
  <1>10. CASE FillDone
    BY <1>1, <1>10 DEF FillDone
  <1>11. CASE \E a_box \in Boxes : Insert(a_box)
    BY <1>1, <1>11 DEF Insert, indexVars
  <1> QED
    BY <1>2, <1>3, <1>4, <1>5, <1>6, <1>7, <1>8, <1>9, <1>10, <1>11
    DEF Next, InsertStep

\* The loops of a search.
Loops == [p_node : Nodes, i : Nat]

LEMMA WalkFacts ==
    ASSUME walk \in Seq(Loops)
    PROVE  /\ Len(walk) \in Nat /\ DOMAIN walk = 1 .. Len(walk)
           /\ \A j \in DOMAIN walk : walk[j].p_node \in Nodes /\ walk[j].i \in Nat
           /\ walk # <<>> => /\ Len(walk) >= 1 /\ Len(walk) \in DOMAIN walk
                             /\ top = walk[Len(walk)]
           /\ open = {walk[j].p_node : j \in 1 .. Len(walk)}
  <1>1. Len(walk) \in Nat /\ DOMAIN walk = 1 .. Len(walk)
    OBVIOUS
  <1>2. \A j \in DOMAIN walk : walk[j] \in Loops
    OBVIOUS
  <1>3. walk # <<>> => Len(walk) >= 1
    BY <1>1
  <1> QED
    BY <1>1, <1>2, <1>3 DEF Loops, top, Last, open

\* The loop at the end of a stack goes on.
LEMMA ResumedFacts ==
    ASSUME NEW N, NEW stack \in Seq([p_node : N, i : Nat])
    PROVE  /\ Resumed(stack) \in Seq([p_node : N, i : Nat])
           /\ Len(Resumed(stack)) = Len(stack)
           /\ \A j \in 1 .. Len(stack) :
                /\ Resumed(stack)[j].p_node = stack[j].p_node
                /\ Resumed(stack)[j].i = IF j = Len(stack) THEN stack[j].i + 1
                                         ELSE stack[j].i
  <1> DEFINE S == [p_node : N, i : Nat]
             n == Len(stack)
             last == [stack[n] EXCEPT !.i = stack[n].i + 1]
  <1>1. CASE stack = <<>>
    BY <1>1 DEF Resumed
  <1>2. CASE stack # <<>>
    <2>1. n \in Nat /\ n \in 1 .. n
      BY <1>2
    <2>2. \A j \in 1 .. n : stack[j] \in S
      <3>1. stack \in Seq(S)
        OBVIOUS
      <3> HIDE DEF S
      <3> QED
        BY <3>1
    <2>3. /\ last \in S /\ last.p_node = stack[n].p_node /\ last.i = stack[n].i + 1
      BY <2>1, <2>2
    <2>4. Resumed(stack) = [stack EXCEPT ![n] = last]
      BY <1>2 DEF Resumed
    <2>5. stack \in Seq(S)
      OBVIOUS
    <2> HIDE DEF S, last, n
    <2>6. /\ [stack EXCEPT ![n] = last] \in Seq(S)
          /\ Len([stack EXCEPT ![n] = last]) = n
          /\ \A j \in 1 .. n : [stack EXCEPT ![n] = last][j]
                                 = IF j = n THEN last ELSE stack[j]
      BY <2>1, <2>3, <2>5 DEF n
    <2> QED
      BY <2>1, <2>3, <2>4, <2>6 DEF n, S
  <1> QED
    BY <1>1, <1>2

\* The innermost loop ends.
LEMMA FrontFacts ==
    ASSUME NEW S, NEW stack \in Seq(S), stack # <<>>
    PROVE  /\ Front(stack) \in Seq(S) /\ Len(stack) >= 1
           /\ Len(Front(stack)) = Len(stack) - 1
           /\ \A j \in 1 .. Len(stack) - 1 : Front(stack)[j] = stack[j]
  <1>1. Len(stack) \in Nat /\ Len(stack) >= 1
    OBVIOUS
  <1> DEFINE n == Len(stack) - 1
  <1>2. n \in Nat /\ \A j \in 1 .. n : stack[j] \in S
    BY <1>1
  <1>3. Front(stack) = SubSeq(stack, 1, n)
    BY DEF Front
  <1> HIDE DEF n
  <1>4. /\ SubSeq(stack, 1, n) \in Seq(S)
        /\ Len(SubSeq(stack, 1, n)) = IF 1 <= n THEN n - 1 + 1 ELSE 0
        /\ \A j \in 1 .. n - 1 + 1 : SubSeq(stack, 1, n)[j] = stack[1 + j - 1]
    BY <1>2, SubSeqProperties
  <1>5. n - 1 + 1 = n /\ \A j \in 1 .. n : 1 + j - 1 = j
    BY <1>2
  <1>6. /\ Front(stack) \in Seq(S) /\ Len(Front(stack)) = n
        /\ \A j \in 1 .. n : Front(stack)[j] = stack[j]
    BY <1>2, <1>3, <1>4, <1>5
  <1> QED
    BY <1>1, <1>6 DEF n

\* The three ways a step changes the stack of loops.
Advances ==
    /\ Len(walk') = Len(walk)
    /\ \A j \in 1 .. Len(walk) :
         /\ walk'[j].p_node = walk[j].p_node
         /\ walk'[j].i = IF j = Len(walk) THEN walk[j].i + 1 ELSE walk[j].i

Leaves ==
    /\ Len(walk') = Len(walk) - 1
    /\ \A j \in 1 .. Len(walk) - 1 :
         /\ walk'[j].p_node = walk[j].p_node
         /\ walk'[j].i = IF j = Len(walk) - 1 THEN walk[j].i + 1 ELSE walk[j].i

Enters(n) ==
    /\ Len(walk') = Len(walk) + 1
    /\ \A j \in 1 .. Len(walk) : walk'[j] = walk[j]
    /\ walk'[Len(walk) + 1] = [p_node |-> n, i |-> 0]

LEMMA AdvanceFacts ==
    ASSUME walk \in Seq(Loops), walk # <<>>, walk' = Resumed(walk)
    PROVE  Advances /\ walk' \in Seq(Loops)
  BY ResumedFacts DEF Loops, Advances

LEMMA LeaveFacts ==
    ASSUME walk \in Seq(Loops), walk # <<>>, walk' = Resumed(Front(walk))
    PROVE  Leaves /\ walk' \in Seq(Loops) /\ (walk' = <<>> <=> Len(walk) = 1)
  <1>1. /\ Front(walk) \in Seq(Loops) /\ Len(walk) >= 1 /\ Len(walk) \in Nat
        /\ Len(Front(walk)) = Len(walk) - 1
        /\ \A j \in 1 .. Len(walk) - 1 : Front(walk)[j] = walk[j]
    BY FrontFacts
  <1>2. PICK f \in Seq(Loops) : f = Front(walk)
    BY <1>1
  <1>3. /\ Resumed(f) \in Seq(Loops) /\ Len(Resumed(f)) = Len(f)
        /\ \A j \in 1 .. Len(f) :
             /\ Resumed(f)[j].p_node = f[j].p_node
             /\ Resumed(f)[j].i = IF j = Len(f) THEN f[j].i + 1 ELSE f[j].i
    BY ResumedFacts DEF Loops
  <1>4. Leaves /\ walk' \in Seq(Loops) /\ Len(walk') = Len(walk) - 1
    BY <1>1, <1>2, <1>3 DEF Leaves
  <1> QED
    BY <1>1, <1>4

LEMMA EnterFacts ==
    ASSUME walk \in Seq(Loops), NEW n \in Nodes,
           walk' = Append(walk, [p_node |-> n, i |-> 0])
    PROVE  Enters(n) /\ walk' \in Seq(Loops) /\ walk' # <<>>
  <1>1. [p_node |-> n, i |-> 0] \in Loops
    BY DEF Loops
  <1>2. /\ walk' \in Seq(Loops) /\ Len(walk') = Len(walk) + 1
        /\ \A j \in 1 .. Len(walk) : walk'[j] = walk[j]
        /\ walk'[Len(walk) + 1] = [p_node |-> n, i |-> 0]
    BY <1>1, AppendProperties
  <1> QED
    BY <1>2 DEF Enters
-----------------------------------------------------------------------------
\* The loops of a search are on one path downwards, each in another child.
Descending ==
    /\ \A j \in 1 .. Len(walk) : walk[j].i <= MaxChildren
    /\ \A j \in 1 .. Len(walk) - 1 :
         /\ walk[j].i < MaxChildren
         /\ height(walk[j].p_node) = height(walk[j + 1].p_node) + 1

\* The types of a search's variables, and what they say of one another; only a
\* leaf's entry goes to the callback.
WalkShape ==
    /\ searching \in {"no", "walk", "callback"}
    /\ walk \in Seq(Loops)
    /\ reported \in Seq(SubNode)
    /\ \A k \in DOMAIN reported : reported[k].m_data # NoData
    /\ declined \subseteq ToSet(reported)
    /\ before \in Nat /\ before <= m_size
    /\ entered \subseteq Nodes /\ open \subseteq entered
    /\ searching = "no" =>
         walk = <<>> /\ reported = <<>> /\ entered = {} /\ torn = {}
    /\ searching = "walk" => pc = "idle"
    /\ searching = "callback" => /\ walk # <<>> /\ reported # <<>>
                                 /\ isLeaf(top.p_node) /\ top.i < MaxChildren
    /\ Descending

WalkInv == TreeInv /\ WalkShape

\* What the innermost loop is at.
LEMMA TopFacts ==
    ASSUME WalkInv, walk # <<>>
    PROVE  /\ top.p_node \in Nodes /\ top.i \in Nat /\ top = walk[Len(walk)]
           /\ height(top.p_node) \in Nat /\ csize(top.p_node) \in 0 .. MaxChildren
           /\ top.i < csize(top.p_node) =>
                /\ top.i \in Slots /\ top.i < MaxChildren
                /\ <<top.p_node, top.i>> \in Homes
                /\ held(<<top.p_node, top.i>>) = topEntry
                /\ topEntry \in SubNode
                /\ Fits(heap, topEntry, height(top.p_node))
  <1>1. /\ TypeOK /\ Shape /\ HomesTyped /\ walk \in Seq(Loops)
    BY HomeFacts DEF WalkInv, WalkShape, TreeInv, OccupiedInv, ShapeInv
  <1>2. top.p_node \in Nodes /\ top.i \in Nat /\ top = walk[Len(walk)]
    BY <1>1, WalkFacts
  <1>3. PICK n \in Nodes, s \in Nat : n = top.p_node /\ s = top.i
    BY <1>2
  <1>4. height(n) \in Nat /\ csize(n) \in 0 .. MaxChildren
    BY <1>1, FrameFields
  <1>5. ASSUME s < csize(n)
        PROVE  /\ s \in Slots /\ s < MaxChildren /\ <<n, s>> \in Homes
               /\ held(<<n, s>>) = sub(n, s) /\ sub(n, s) \in SubNode
               /\ Fits(heap, sub(n, s), height(n))
    <2>1. s \in Slots /\ s < MaxChildren
      BY <1>4, <1>5, SlotFacts
    <2>2. <<n, s>> \in Homes /\ held(<<n, s>>) = sub(n, s) /\ sub(n, s) \in SubNode
      BY <1>1, <1>5, <2>1, FrameFields DEF HomesTyped
    <2>3. Fits(heap, sub(n, s), height(n))
      BY <1>1, <1>5, <2>1 DEF Shape, Levels, sub, height, csize, Nodes
    <2> QED
      BY <2>1, <2>2, <2>3
  <1> QED
    BY <1>2, <1>3, <1>4, <1>5 DEF topEntry

LEMMA InitWalk == SearchInit => WalkInv
  <1> SUFFICES ASSUME SearchInit PROVE WalkInv
    OBVIOUS
  <1>1. TreeInv /\ m_size = 0 /\ pc = "idle"
    BY InitTree DEF SearchInit, Init
  <1>2. /\ walk = <<>> /\ reported = <<>> /\ searching = "no" /\ declined = {}
        /\ before = 0 /\ entered = {} /\ torn = {}
    BY DEF SearchInit
  <1>3. open = {} /\ walk \in Seq(Loops) /\ reported \in Seq(SubNode) /\ Len(walk) = 0
    BY <1>2 DEF open
  <1> QED
    BY <1>1, <1>2, <1>3 DEF WalkInv, WalkShape, Descending

\* The callback inserts: the loops stay where they are.
LEMMA CallIndexWalk ==
    ASSUME WalkInv, TreeInv', CallIndex
    PROVE  WalkShape'
  <1>1. /\ ShapeInv /\ ShapeInv' /\ WalkShape /\ Next /\ searching # "walk"
        /\ UNCHANGED <<searching, r_target, walk, reported, declined, before, entered>>
        /\ heap \in Seq(Node) /\ heap' \in Seq(Node)
    BY DEF WalkInv, TreeInv, OccupiedInv, CallIndex, ShapeInv, TypeOK
  <1>2. /\ Len(heap') >= Len(heap) /\ m_size' >= m_size
        /\ \A n \in Nodes : n \in Nodes' /\ height(n)' = height(n)
    <2>1. Extends(heap, heap') /\ m_size' >= m_size
      BY <1>1, NextExtends
    <2>2. Len(heap) \in Nat /\ Len(heap') \in Nat
      BY <1>1
    <2> QED
      BY <2>1, <2>2 DEF Extends, Nodes, height
  <1>3. /\ DOMAIN walk = 1 .. Len(walk) /\ Len(walk) \in Nat
        /\ \A j \in DOMAIN walk : walk[j] \in Loops /\ walk[j].p_node \in Nodes
        /\ walk # <<>> => top.p_node \in Nodes
    <2>1. walk \in Seq(Loops)
      BY <1>1 DEF WalkShape
    <2>2. \A j \in DOMAIN walk : walk[j] \in Loops
      BY <2>1
    <2> QED
      BY <2>1, <2>2, WalkFacts
  <1>4. walk' \in Seq(Loops)'
    <2>1. \A x \in Loops : x \in [p_node : Nodes', i : Nat]
      BY <1>2 DEF Loops
    <2> DEFINE T == [p_node : Nodes', i : Nat]
    <2>2. \A j \in 1 .. Len(walk) : walk[j] \in T
      BY <1>3, <2>1
    <2>3. walk = [j \in 1 .. Len(walk) |-> walk[j]]
      BY <1>1, <1>3 DEF WalkShape
    <2> HIDE DEF T
    <2>4. walk \in Seq(T)
      BY <1>3, <2>2, <2>3
    <2> QED
      BY <1>1, <2>4 DEF T, Loops
  <1>5. open' = open /\ top' = top
    BY <1>1 DEF open, top
  <1>6. before <= m_size'
    <2>1. m_size \in Nat /\ m_size' \in Nat
      BY <1>1, MaxInsertsAssumption DEF ShapeInv, TypeOK
    <2> QED
      BY <1>1, <1>2, <2>1 DEF WalkShape
  <1>7. searching = "no" => torn' = {}
    BY <1>1 DEF CallIndex, WalkShape
  <1>8. walk # <<>> /\ isLeaf(top.p_node) => isLeaf(top.p_node)'
    BY <1>2, <1>3, <1>5 DEF isLeaf, height
  <1>9. \A j \in 1 .. Len(walk) - 1 :
          height(walk[j].p_node)' = height(walk[j + 1].p_node)' + 1
    <2>1. ASSUME NEW j \in 1 .. Len(walk) - 1
          PROVE  height(walk[j].p_node)' = height(walk[j + 1].p_node)' + 1
      <3>1. j \in 1 .. Len(walk) /\ j + 1 \in 1 .. Len(walk)
        BY <1>3
      <3>2. PICK n \in Nodes, m \in Nodes : n = walk[j].p_node /\ m = walk[j + 1].p_node
        BY <1>3, <3>1
      <3>3. height(n) = height(m) + 1
        BY <1>1, <3>2 DEF WalkShape, Descending
      <3>4. height(n)' = height(m)' + 1
        BY <1>2, <3>3
      <3> QED
        BY <1>1, <3>2, <3>4
    <2> QED
      BY <2>1
  <1> QED
    BY <1>1, <1>2, <1>4, <1>5, <1>6, <1>7, <1>8, <1>9 DEF WalkShape, Descending

\* The loops of the search's own steps.
LEMMA LoopsStep ==
    ASSUME WalkInv, heap' = heap, walk # <<>>, walk' \in Seq(Loops),
           \/ Advances /\ top.i < MaxChildren
           \/ Leaves
           \/ \E n \in Nodes : /\ Enters(n) /\ top.i < MaxChildren
                               /\ height(top.p_node) = height(n) + 1
    PROVE  /\ walk' \in Seq(Loops)' /\ Descending'
           /\ \A n \in open' \ open : Enters(n)
  <1>1. /\ walk \in Seq(Loops) /\ Descending /\ Len(walk) \in Nat
        /\ \A j \in 1 .. Len(walk) : walk[j].p_node \in Nodes /\ walk[j].i \in Nat
        /\ top = walk[Len(walk)] /\ Len(walk) >= 1
        /\ open = {walk[j].p_node : j \in 1 .. Len(walk)}
    BY WalkFacts DEF WalkInv, WalkShape
  <1>2. walk' \in Seq(Loops)' /\ \A n : height(n)' = height(n)
    BY DEF Loops, Nodes, height
  <1>3. /\ open' = {walk'[j].p_node : j \in 1 .. Len(walk')}
    <2>1. PICK w \in Seq(Loops) : w = walk'
      OBVIOUS
    <2>2. DOMAIN w = 1 .. Len(w)
      BY <2>1
    <2> QED
      BY <2>1, <2>2 DEF open
  <1>4. CASE Advances /\ top.i < MaxChildren
    <2>1. ASSUME NEW j \in 1 .. Len(walk')
          PROVE  walk'[j].i <= MaxChildren
      <3>1. j \in 1 .. Len(walk)
        BY <1>4 DEF Advances
      <3>2. CASE j = Len(walk)
        <4>1. walk'[j].i = top.i + 1
          BY <1>1, <1>4, <3>1, <3>2 DEF Advances
        <4>2. top.i \in Nat /\ top.i < MaxChildren
          BY <1>1, <1>4, <3>1, <3>2
        <4> QED
          BY <4>1, <4>2, SlotFacts
      <3>3. CASE j # Len(walk)
        BY <1>1, <1>4, <3>1, <3>3 DEF Descending, Advances
      <3> QED
        BY <3>2, <3>3
    <2>2. ASSUME NEW j \in 1 .. Len(walk') - 1
          PROVE  /\ walk'[j].i < MaxChildren
                 /\ height(walk'[j].p_node) = height(walk'[j + 1].p_node) + 1
      <3>1. /\ j \in 1 .. Len(walk) - 1 /\ j \in 1 .. Len(walk)
            /\ j + 1 \in 1 .. Len(walk) /\ j # Len(walk)
        BY <1>1, <1>4, <2>2 DEF Advances
      <3>2. /\ walk'[j].p_node = walk[j].p_node /\ walk'[j].i = walk[j].i
            /\ walk'[j + 1].p_node = walk[j + 1].p_node
        BY <1>4, <3>1 DEF Advances
      <3> QED
        BY <1>1, <3>1, <3>2 DEF Descending
    <2>3. Descending'
      BY <1>2, <2>1, <2>2 DEF Descending
    <2>4. open' \subseteq open
      BY <1>1, <1>3, <1>4 DEF Advances
    <2> QED
      BY <1>2, <2>3, <2>4
  <1>5. CASE Leaves
    <2>1. \A j \in 1 .. Len(walk) - 1 : walk[j].i + 1 <= MaxChildren /\ j \in 1 .. Len(walk)
      BY <1>1, SlotFacts DEF Descending
    <2>2. ASSUME NEW j \in 1 .. Len(walk')
          PROVE  walk'[j].i <= MaxChildren
      BY <1>1, <1>5, <2>1, <2>2 DEF Descending, Leaves
    <2>3. ASSUME NEW j \in 1 .. Len(walk') - 1
          PROVE  /\ walk'[j].i < MaxChildren
                 /\ height(walk'[j].p_node) = height(walk'[j + 1].p_node) + 1
      <3>1. /\ j \in 1 .. Len(walk) - 1 /\ j + 1 \in 1 .. Len(walk) - 1
            /\ j # Len(walk) - 1
        BY <1>1, <1>5, <2>3 DEF Leaves
      <3>2. /\ walk'[j].p_node = walk[j].p_node /\ walk'[j].i = walk[j].i
            /\ walk'[j + 1].p_node = walk[j + 1].p_node
        BY <1>5, <3>1 DEF Leaves
      <3> QED
        BY <1>1, <3>1, <3>2 DEF Descending
    <2>4. Descending'
      BY <1>2, <2>2, <2>3 DEF Descending
    <2>5. open' \subseteq open
      BY <1>1, <1>3, <1>5, <2>1 DEF Leaves
    <2> QED
      BY <1>2, <2>4, <2>5
  <1>6. ASSUME NEW n \in Nodes, Enters(n), top.i < MaxChildren,
               height(top.p_node) = height(n) + 1
        PROVE  Descending' /\ \A k \in open' \ open : k = n
    <2>1. ASSUME NEW j \in 1 .. Len(walk')
          PROVE  walk'[j].i <= MaxChildren
      <3>1. CASE j = Len(walk) + 1
        <4>1. walk'[j].i = 0
          BY <1>6, <3>1 DEF Enters
        <4> QED
          BY <4>1, SlotFacts
      <3>2. CASE j # Len(walk) + 1
        <4>1. j \in 1 .. Len(walk) /\ walk'[j] = walk[j]
          BY <1>1, <1>6, <2>1, <3>2 DEF Enters
        <4> QED
          BY <1>1, <4>1 DEF Descending
      <3> QED
        BY <3>1, <3>2
    <2>2. ASSUME NEW j \in 1 .. Len(walk') - 1
          PROVE  /\ walk'[j].i < MaxChildren
                 /\ height(walk'[j].p_node) = height(walk'[j + 1].p_node) + 1
      <3>1. j \in 1 .. Len(walk) /\ walk'[j] = walk[j]
        BY <1>1, <1>6, <2>2 DEF Enters
      <3>2. CASE j = Len(walk)
        <4>1. walk'[j + 1].p_node = n
          BY <1>6, <3>2 DEF Enters
        <4> QED
          BY <1>1, <1>6, <3>1, <3>2, <4>1
      <3>3. CASE j # Len(walk)
        <4>1. j \in 1 .. Len(walk) - 1 /\ j + 1 \in 1 .. Len(walk)
          BY <1>1, <3>1, <3>3
        <4>2. walk'[j + 1] = walk[j + 1]
          BY <1>6, <4>1 DEF Enters
        <4> QED
          BY <1>1, <3>1, <4>1, <4>2 DEF Descending
      <3> QED
        BY <3>2, <3>3
    <2>3. Descending'
      BY <1>2, <2>1, <2>2 DEF Descending
    <2>4. \A k \in open' \ open : k = n
      BY <1>1, <1>3, <1>6 DEF Enters
    <2> QED
      BY <2>3, <2>4
  <1> QED
    BY <1>2, <1>4, <1>5, <1>6

LEMMA OnlyVisitEnters ==
    ASSUME walk \in Seq(Loops), Advances \/ Leaves
    PROVE  \A n : ~ Enters(n)
  <1>1. Len(walk) \in Nat /\ (Len(walk') = Len(walk) \/ Len(walk') = Len(walk) - 1)
    BY DEF Advances, Leaves
  <1>2. Len(walk') # Len(walk) + 1
    BY <1>1
  <1> QED
    BY <1>2 DEF Enters

\* What a search has open and reported goes on from step to step.
LEMMA WalkStep ==
    ASSUME WalkInv, UNCHANGED <<vars, before, torn>>, pc = "idle",
           searching # "no", searching' # "no",
           walk' \in Seq(Loops)', Descending',
           entered \subseteq entered', entered' \subseteq Nodes,
           open' \subseteq entered',
           reported' \in Seq(SubNode),
           \A k \in DOMAIN reported' : reported'[k].m_data # NoData,
           declined' \subseteq ToSet(reported'),
           \/ searching' = "walk"
           \/ /\ searching' = "callback" /\ walk' = walk /\ walk # <<>>
              /\ reported' # <<>> /\ isLeaf(top.p_node) /\ top.i < MaxChildren
    PROVE  WalkShape'
  <1>1. /\ pc' = pc /\ heap' = heap /\ m_size' = m_size /\ before' = before
    BY DEF vars, indexVars
  <1>2. Nodes' = Nodes /\ \A n : isLeaf(n)' = isLeaf(n)
    BY <1>1 DEF Nodes, isLeaf
  <1>3. walk' = walk => top' = top
    BY DEF top
  <1>4. searching' = "callback" =>
          /\ walk' # <<>> /\ reported' # <<>>
          /\ isLeaf(top.p_node)' /\ (top.i < MaxChildren)'
    <2> SUFFICES ASSUME searching' = "callback"
                 PROVE  /\ walk' # <<>> /\ reported' # <<>>
                        /\ isLeaf(top.p_node)' /\ (top.i < MaxChildren)'
      OBVIOUS
    <2>1. /\ walk' = walk /\ walk # <<>> /\ top' = top
          /\ reported' # <<>> /\ isLeaf(top.p_node) /\ top.i < MaxChildren
      BY <1>3
    <2>2. PICK n : n = top.p_node
      OBVIOUS
    <2>3. isLeaf(n) /\ n = top'.p_node
      BY <2>1, <2>2
    <2> QED
      BY <1>2, <2>1, <2>3
  <1> QED
    BY <1>1, <1>2, <1>4 DEF WalkInv, WalkShape

\* The innermost loop goes on with its next index.
LEMMA AdvanceWalk ==
    ASSUME WalkInv, UNCHANGED <<vars, historyVars, reported, declined>>,
           searching # "no", pc = "idle", searching' = "walk", walk # <<>>,
           \/ walk' = Resumed(walk) /\ top.i < MaxChildren
           \/ walk' = Resumed(Front(walk))
    PROVE  WalkShape'
  <1>1. WalkShape /\ walk \in Seq(Loops) /\ Descending
    BY DEF WalkInv, WalkShape
  <1>2. walk' \in Seq(Loops) /\ ((Advances /\ top.i < MaxChildren) \/ Leaves)
    BY <1>1, AdvanceFacts, LeaveFacts
  <1>3. heap' = heap /\ \A n : ~ Enters(n)
    BY <1>1, <1>2, OnlyVisitEnters DEF vars, indexVars
  <1>4. walk' \in Seq(Loops)' /\ Descending' /\ open' \subseteq open
    BY <1>2, <1>3, LoopsStep
  <1> QED
    BY <1>1, <1>4, WalkStep DEF WalkShape, historyVars

\* A false ends the loop over the leaf.
LEMMA AnswerWalk ==
    ASSUME WalkInv, NEW conti \in BOOLEAN, Answer(conti)
    PROVE  WalkShape'
  <1>1. /\ searching = "callback" /\ pc = "idle" /\ searching' = "walk"
        /\ UNCHANGED <<vars, r_target, reported, historyVars>>
    BY DEF Answer
  <1>2. /\ WalkShape /\ walk # <<>> /\ top.i < MaxChildren /\ walk \in Seq(Loops)
        /\ reported # <<>> /\ reported \in Seq(SubNode)
    BY <1>1 DEF WalkInv, WalkShape
  <1>3. CASE conti
    BY <1>1, <1>2, <1>3, AdvanceWalk DEF Answer
  <1>4. CASE ~ conti
    <2>1. walk' = Resumed(Front(walk)) /\ declined' = declined \cup {Last(reported)}
      BY <1>4 DEF Answer
    <2>2. walk' \in Seq(Loops) /\ Leaves
      BY <1>2, <2>1, LeaveFacts
    <2>3. heap' = heap /\ \A n : ~ Enters(n)
      BY <1>1, <1>2, <2>2, OnlyVisitEnters DEF vars, indexVars
    <2>4. walk' \in Seq(Loops)' /\ Descending' /\ open' \subseteq open
      BY <1>2, <2>2, <2>3, LoopsStep
    <2>5. declined' \subseteq ToSet(reported)
      <3>1. Last(reported) = reported[Len(reported)] /\ Len(reported) \in DOMAIN reported
        BY <1>2 DEF Last
      <3> QED
        BY <1>2, <2>1, <3>1 DEF ToSet, WalkShape
    <2> QED
      BY <1>1, <1>2, <2>4, <2>5, WalkStep DEF WalkShape, historyVars
  <1> QED
    BY <1>3, <1>4

\* The entry goes to the callback.
LEMMA ProcessWalk ==
    ASSUME WalkInv, Process
    PROVE  WalkShape'
  <1>1. /\ searching = "walk" /\ searching' = "callback" /\ walk # <<>>
        /\ top.i < csize(top.p_node) /\ isLeaf(top.p_node)
        /\ reported' = Append(reported, topEntry)
        /\ UNCHANGED <<vars, r_target, walk, declined, historyVars>>
    BY DEF Process, InLoop, csize
  <1>2. /\ WalkShape /\ reported \in Seq(SubNode) /\ pc = "idle"
        /\ topEntry \in SubNode /\ top.i < MaxChildren
        /\ topEntry.m_data # NoData
    <2>1. height(top.p_node) = 0
      BY <1>1 DEF isLeaf, height
    <2> QED
      BY <1>1, <2>1, TopFacts DEF WalkInv, WalkShape, Fits
  <1>3. /\ reported' \in Seq(SubNode) /\ reported' # <<>>
        /\ Len(reported') = Len(reported) + 1 /\ Len(reported) \in Nat
        /\ \A k \in 1 .. Len(reported) : reported'[k] = reported[k]
        /\ reported'[Len(reported) + 1] = topEntry
    BY <1>1, <1>2, AppendProperties
  <1>4. DOMAIN reported = 1 .. Len(reported) /\ DOMAIN reported' = 1 .. Len(reported')
    BY <1>2, <1>3
  <1>5. \A k \in DOMAIN reported' : reported'[k].m_data # NoData
    BY <1>2, <1>3, <1>4 DEF WalkShape
  <1>6. ToSet(reported) \subseteq ToSet(reported')
    BY <1>3, <1>4 DEF ToSet
  <1>7. walk' \in Seq(Loops)' /\ Descending' /\ open' = open
    <2>1. heap' = heap /\ walk' = walk
      BY <1>1 DEF vars, indexVars
    <2> QED
      BY <1>2, <2>1 DEF WalkShape, Loops, Nodes, Descending, height, open
  <1> QED
    BY <1>1, <1>2, <1>3, <1>5, <1>6, <1>7, WalkStep DEF WalkShape, historyVars

\* A loop over a child begins, one level further down.
LEMMA VisitFacts ==
    ASSUME WalkInv, Visit
    PROVE  /\ walk # <<>> /\ top.i < csize(top.p_node) /\ top.i < MaxChildren
           /\ \E n \in Nodes :
                /\ n = topEntry.m_child /\ entered' = entered \cup {n}
                /\ height(top.p_node) = height(n) + 1
                /\ Enters(n) /\ walk' \in Seq(Loops)
  <1>1. /\ walk # <<>> /\ top.i < csize(top.p_node) /\ ~ isLeaf(top.p_node)
        /\ walk' = Append(walk, [p_node |-> topEntry.m_child, i |-> 0])
        /\ entered' = entered \cup {topEntry.m_child}
    BY DEF Visit, InLoop, csize
  <1>2. /\ top.i < MaxChildren /\ Fits(heap, topEntry, height(top.p_node))
        /\ height(top.p_node) \in Nat /\ height(top.p_node) # 0
    BY <1>1, TopFacts DEF isLeaf, height
  <1>3. PICK n \in Nodes : n = topEntry.m_child /\ height(top.p_node) = height(n) + 1
    <2>1. /\ topEntry.m_child \in Nodes
          /\ heap[topEntry.m_child].m_height = height(top.p_node) - 1
      BY <1>2 DEF Fits, Nodes
    <2>2. height(topEntry.m_child) = height(top.p_node) - 1
      BY <2>1 DEF height
    <2> QED
      BY <1>2, <2>1, <2>2
  <1>4. Enters(n) /\ walk' \in Seq(Loops)
    <2>1. walk \in Seq(Loops)
      BY DEF WalkInv, WalkShape
    <2> QED
      BY <1>1, <1>3, <2>1, EnterFacts
  <1> QED
    BY <1>1, <1>2, <1>3, <1>4

LEMMA VisitWalk ==
    ASSUME WalkInv, Visit
    PROVE  WalkShape'
  <1>1. /\ searching = "walk" /\ searching' = "walk"
        /\ UNCHANGED <<vars, r_target, reported, declined, before, torn>>
    BY DEF Visit, InLoop
  <1>2. PICK n \in Nodes : /\ entered' = entered \cup {n}
                           /\ height(top.p_node) = height(n) + 1
                           /\ Enters(n) /\ walk' \in Seq(Loops)
    BY VisitFacts
  <1>3. walk # <<>> /\ top.i < MaxChildren
    BY VisitFacts
  <1>4. heap' = heap /\ WalkShape /\ pc = "idle" /\ Len(walk) \in Nat
    BY <1>1, WalkFacts DEF vars, indexVars, WalkInv, WalkShape
  <1>5. /\ walk' \in Seq(Loops)' /\ Descending' /\ \A k \in open' \ open : Enters(k)
    BY <1>2, <1>3, <1>4, LoopsStep
  <1>6. \A k : Enters(k) => k = n
    BY <1>2 DEF Enters
  <1> QED
    BY <1>1, <1>2, <1>4, <1>5, <1>6, WalkStep DEF WalkShape

LEMMA NextWalk == WalkInv /\ [SearchNext]_allVars => WalkInv'
  <1> SUFFICES ASSUME WalkInv, [SearchNext]_allVars PROVE WalkShape'
    <2>1. WalkInv /\ [SearchNext]_allVars => TreeInv'
      BY NextTree, SearchStepsStutter DEF WalkInv, SearchNext, CallIndex, allVars
    <2> QED
      BY <2>1 DEF WalkInv
  <1>1. CASE CallIndex
    <2>1. TreeInv'
      BY <1>1, NextTree DEF WalkInv, CallIndex
    <2> QED
      BY <1>1, <2>1, CallIndexWalk
  <1>2. ASSUME NEW a_target \in Targets, SearchTag(a_target)
        PROVE  WalkShape'
    <2>1. /\ searching = "no" /\ pc = "idle" /\ searching' = "walk"
          /\ walk' = <<[p_node |-> m_root, i |-> 0]>>
          /\ before' = m_size /\ entered' = {m_root}
          /\ UNCHANGED <<vars, reported, declined, torn>>
      BY <1>2 DEF SearchTag
    <2>2. /\ pc' = pc /\ heap' = heap /\ m_size' = m_size /\ m_root' = m_root
          /\ Nodes' = Nodes
      BY <2>1 DEF vars, indexVars, Nodes
    <2>3. m_root \in Nodes /\ m_size \in Nat /\ WalkShape
      BY MaxInsertsAssumption DEF WalkInv, TreeInv, OccupiedInv, ShapeInv, TypeOK
    <2>4. /\ walk' \in Seq(Loops)' /\ Len(walk') = 1 /\ open' = {m_root}
          /\ walk'[1].i = 0
      <3>1. [p_node |-> m_root, i |-> 0] \in Loops'
        BY <2>2, <2>3 DEF Loops
      <3>2. DOMAIN walk' = {1} /\ walk'[1].p_node = m_root /\ Len(walk') = 1
        BY <2>1
      <3> QED
        BY <2>1, <3>1, <3>2 DEF open
    <2>5. Descending'
      BY <2>4, SlotFacts DEF Descending
    <2> QED
      BY <2>1, <2>2, <2>3, <2>4, <2>5 DEF WalkShape
  <1>3. CASE Process
    BY <1>3, ProcessWalk
  <1>4. ASSUME NEW conti \in BOOLEAN, Answer(conti) PROVE WalkShape'
    BY <1>4, AnswerWalk
  <1>5. CASE Pass
    <2>1. top.i < MaxChildren /\ walk # <<>>
      BY <1>5, TopFacts DEF Pass, InLoop, csize
    <2>2. searching = "walk" /\ pc = "idle"
      BY <1>5 DEF Pass, InLoop, WalkInv, WalkShape
    <2> QED
      BY <1>5, <2>1, <2>2, AdvanceWalk DEF Pass
  <1>6. CASE Visit
    BY <1>6, VisitWalk
  <1>7. CASE LeaveNode
    <2>1. searching = "walk" /\ pc = "idle" /\ walk # <<>>
      BY <1>7 DEF LeaveNode, WalkInv, WalkShape
    <2> QED
      BY <1>7, <2>1, AdvanceWalk DEF LeaveNode
  <1>8. CASE EndSearch
    <2>1. /\ walk = <<>> /\ walk' = <<>> /\ searching' = "no" /\ reported' = <<>>
          /\ declined' = {} /\ before' = 0 /\ entered' = {} /\ torn' = {}
          /\ UNCHANGED vars
      BY <1>8 DEF EndSearch
    <2>2. open' = {} /\ Len(walk') = 0 /\ m_size' \in Nat /\ walk' \in Seq(Loops)'
      BY <2>1, MaxInsertsAssumption
      DEF open, WalkInv, TreeInv, OccupiedInv, ShapeInv, TypeOK, vars, indexVars
    <2> QED
      BY <2>1, <2>2 DEF WalkShape, Descending
  <1>9. CASE UNCHANGED allVars
    <2>1. /\ UNCHANGED <<searching, walk, reported, declined, before, entered, torn>>
          /\ UNCHANGED <<pc, heap, m_size>>
      BY <1>9 DEF allVars, searchVars, historyVars, vars, indexVars
    <2> QED
      BY <2>1 DEF WalkInv, WalkShape, Descending, Loops, Nodes, open, top, height, isLeaf
  <1> QED
    BY <1>1, <1>2, <1>3, <1>4, <1>5, <1>6, <1>7, <1>8, <1>9 DEF SearchNext, SearchStep

LEMMA WalkInvariant == SearchSpec => []WalkInv
  BY InitWalk, NextWalk, PTL DEF SearchSpec
-----------------------------------------------------------------------------
\* c holds how many entries fit below the nodes of the heights 0 to h.
IsRooms(c, h) ==
    c = [level \in 0 .. h |->
           IF level = 0 THEN MaxChildren ELSE MaxChildren * c[level - 1]]

LEMMA RoomsExist == \A h \in Nat : \E c : IsRooms(c, h)
  <1> DEFINE Bad == {h \in Nat : ~ \E c : IsRooms(c, h)}
  <1> SUFFICES ASSUME Bad # {} PROVE FALSE
    OBVIOUS
  <1>1. PICK h \in Bad : \A k \in Bad : h <= k
    <2>1. Bad \in SUBSET Nat
      OBVIOUS
    <2> HIDE DEF Bad
    <2> QED
      BY <2>1, LeastNat
  <1>2. h \in Nat /\ ~ \E c : IsRooms(c, h)
    OBVIOUS
  <1>3. h # 0
    <2>1. IsRooms([k \in 0 .. 0 |-> MaxChildren], 0)
      BY DEF IsRooms
    <2> QED
      BY <1>2, <2>1
  <1>4. h - 1 \in Nat /\ h - 1 \notin Bad
    BY <1>1, <1>2, <1>3
  <1>5. PICK c : IsRooms(c, h - 1)
    BY <1>4
  <1> DEFINE d == [k \in 0 .. h |-> IF k = h THEN MaxChildren * c[h - 1] ELSE c[k]]
  <1>6. ASSUME NEW k \in 0 .. h
        PROVE  d[k] = IF k = 0 THEN MaxChildren ELSE MaxChildren * d[k - 1]
    <2>1. CASE k = h
      <3>1. d[k] = MaxChildren * c[h - 1] /\ d[k - 1] = c[h - 1]
        BY <1>2, <1>3, <2>1
      <3> QED
        BY <1>3, <2>1, <3>1
    <2>2. CASE k # h
      <3>1. k \in 0 .. h - 1 /\ d[k] = c[k]
        BY <1>2, <2>2
      <3>2. c[k] = IF k = 0 THEN MaxChildren ELSE MaxChildren * c[k - 1]
        BY <1>5, <3>1 DEF IsRooms
      <3>3. k # 0 => d[k - 1] = c[k - 1]
        BY <1>2, <3>1
      <3> QED
        BY <3>1, <3>2, <3>3
    <2> QED
      BY <2>1, <2>2
  <1>7. IsRooms(d, h)
    <2>1. d = [k \in 0 .. h |-> d[k]]
      OBVIOUS
    <2> HIDE DEF d
    <2> QED
      BY <1>6, <2>1 DEF IsRooms
  <1> QED
    BY <1>2, <1>7

\* They are numbers, and those of one level are those of its children together.
LEMMA RoomFacts ==
    ASSUME NEW h \in Nat, NEW c, IsRooms(c, h)
    PROVE  /\ \A k \in 0 .. h : c[k] \in Nat
           /\ c[0] = MaxChildren
           /\ \A k \in 1 .. h : c[k] = MaxChildren * c[k - 1]
  <1>1. /\ c[0] = MaxChildren
        /\ \A k \in 1 .. h : c[k] = MaxChildren * c[k - 1]
    BY DEF IsRooms
  <1> DEFINE Bad == {k \in 0 .. h : c[k] \notin Nat}
  <1>2. Bad = {}
    <2> SUFFICES ASSUME Bad # {} PROVE FALSE
      OBVIOUS
    <2>1. PICK k \in Bad : \A j \in Bad : k <= j
      <3>1. Bad \in SUBSET Nat
        OBVIOUS
      <3> HIDE DEF Bad
      <3> QED
        BY <3>1, LeastNat
    <2>2. k \in 1 .. h
      BY <1>1, SlotFacts
    <2>3. k - 1 \in 0 .. h /\ k - 1 \notin Bad
      BY <2>1, <2>2
    <2>4. c[k - 1] \in Nat
      BY <2>3
    <2>5. MaxChildren * c[k - 1] \in Nat
      BY <2>4, SlotFacts
    <2> QED
      BY <1>1, <2>2, <2>5
  <1> QED
    BY <1>1, <1>2

LEMMA CapacityIsRoom ==
    ASSUME NEW h \in Nat
    PROVE  \E c : IsRooms(c, h) /\ capacity(h) = c[h]
  <1> DEFINE step(c) == [level \in 0 .. h |->
                           IF level = 0 THEN MaxChildren
                           ELSE MaxChildren * c[level - 1]]
             room == CHOOSE c : c = step(c)
  <1>1. \E c : c = step(c)
    BY RoomsExist DEF IsRooms
  <1>2. room = step(room)
    <2> HIDE DEF step
    <2> QED
      BY <1>1
  <1>3. capacity(h) = room[h]
    BY DEF capacity
  <1> QED
    BY <1>2, <1>3 DEF IsRooms

\* Two such functions agree where both are defined.
LEMMA RoomsAgree ==
    ASSUME NEW h \in Nat, NEW c, IsRooms(c, h), NEW k \in 0 .. h, NEW d, IsRooms(d, k)
    PROVE  c[k] = d[k]
  <1> DEFINE Bad == {j \in 0 .. k : c[j] # d[j]}
  <1>1. Bad = {}
    <2> SUFFICES ASSUME Bad # {} PROVE FALSE
      OBVIOUS
    <2>1. PICK j \in Bad : \A i \in Bad : j <= i
      <3>1. Bad \in SUBSET Nat
        OBVIOUS
      <3> HIDE DEF Bad
      <3> QED
        BY <3>1, LeastNat
    <2>2. k \in Nat /\ j \in 0 .. k /\ c[0] = d[0]
      BY RoomFacts
    <2>3. j \in 1 .. h /\ j \in 1 .. k /\ j - 1 \in 0 .. k
      BY <2>2
    <2>4. c[j - 1] = d[j - 1]
      BY <2>1, <2>3
    <2>5. c[j] = MaxChildren * c[j - 1] /\ d[j] = MaxChildren * d[j - 1]
      BY <2>2, <2>3, RoomFacts
    <2> QED
      BY <2>4, <2>5
  <1> QED
    BY <1>1

LEMMA CapacityFacts ==
    /\ \A h \in Nat : capacity(h) \in Nat
    /\ capacity(0) = MaxChildren
    /\ \A h \in Nat : capacity(h + 1) = MaxChildren * capacity(h)
  <1>1. ASSUME NEW h \in Nat
        PROVE  capacity(h) \in Nat
    <2>1. PICK c : IsRooms(c, h) /\ capacity(h) = c[h]
      BY CapacityIsRoom
    <2> QED
      BY <2>1, RoomFacts
  <1>2. capacity(0) = MaxChildren
    <2>1. PICK c : IsRooms(c, 0) /\ capacity(0) = c[0]
      BY CapacityIsRoom
    <2> QED
      BY <2>1, RoomFacts
  <1>3. ASSUME NEW h \in Nat
        PROVE  capacity(h + 1) = MaxChildren * capacity(h)
    <2>1. PICK c : IsRooms(c, h + 1) /\ capacity(h + 1) = c[h + 1]
      BY CapacityIsRoom
    <2>2. PICK d : IsRooms(d, h) /\ capacity(h) = d[h]
      BY CapacityIsRoom
    <2>3. c[h] = d[h]
      BY <2>1, <2>2, RoomsAgree
    <2>4. c[h + 1] = MaxChildren * c[h]
      <3>1. h + 1 \in 1 .. h + 1 /\ h + 1 - 1 = h
        OBVIOUS
      <3> QED
        BY <2>1, <3>1, RoomFacts
    <2> QED
      BY <2>1, <2>2, <2>3, <2>4
  <1> QED
    BY <1>1, <1>2, <1>3

\* The entries that fit below the first i slots of a node of height h.
fitBelow(i, h) == i * (IF h = 0 THEN 1 ELSE capacity(h - 1))

LEMMA FitFacts ==
    ASSUME NEW h \in Nat
    PROVE  /\ fitBelow(MaxChildren, h) = capacity(h) /\ capacity(h) \in Nat
           /\ fitBelow(0, h) = 0
           /\ h = 0 => \A i \in Nat : fitBelow(i, h) = i
           /\ h # 0 => \A i \in Nat : fitBelow(i + 1, h)
                                       = fitBelow(i, h) + capacity(h - 1)
           /\ \A i \in Nat : fitBelow(i, h) \in Nat /\ fitBelow(i, h) <= fitBelow(i + 1, h)
           /\ \A i \in 0 .. MaxChildren : fitBelow(i, h) <= capacity(h)
  <1>1. PICK x \in Nat : x = IF h = 0 THEN 1 ELSE capacity(h - 1)
    BY CapacityFacts
  <1>2. \A i : fitBelow(i, h) = i * x
    BY <1>1 DEF fitBelow
  <1>3. capacity(h) = MaxChildren * x /\ capacity(h) \in Nat
    <2>1. CASE h = 0
      BY <1>1, <2>1, CapacityFacts, SlotFacts
    <2>2. CASE h # 0
      <3>1. h - 1 \in Nat /\ h - 1 + 1 = h
        BY <2>2
      <3>2. capacity(h - 1 + 1) = MaxChildren * capacity(h - 1)
        BY <3>1, CapacityFacts
      <3> QED
        BY <1>1, <2>2, <3>1, <3>2, CapacityFacts
    <2> QED
      BY <2>1, <2>2
  <1>4. 0 * x = 0 /\ \A i \in Nat : i * x \in Nat /\ (i + 1) * x = i * x + x
    OBVIOUS
  <1>5. ASSUME NEW i \in 0 .. MaxChildren
        PROVE  i * x <= MaxChildren * x
    BY SlotFacts, ProductGrows
  <1>6. h = 0 => \A i \in Nat : i * x = i
    BY <1>1
  <1>7. \A i \in Nat : i * x <= (i + 1) * x
    BY <1>4
  <1>8. PICK f : f = [i \in Nat |-> i * x]
    OBVIOUS
  <1>9. \A i \in Nat : f[i] = fitBelow(i, h) /\ f[i] = i * x
    BY <1>2, <1>8
  <1>10. /\ f[MaxChildren] = capacity(h) /\ f[0] = 0
         /\ \A i \in Nat : /\ f[i] \in Nat /\ f[i + 1] = f[i] + x
                            /\ f[i] <= f[i + 1]
                            /\ h = 0 => f[i] = i
    <2>1. MaxChildren \in Nat /\ \A i \in Nat : i + 1 \in Nat
      BY SlotFacts
    <2> QED
      BY <1>3, <1>4, <1>6, <1>7, <1>9, <2>1
  <1>11. \A i \in 0 .. MaxChildren : f[i] <= f[MaxChildren] /\ i \in Nat
    <2>1. MaxChildren \in Nat /\ \A i \in 0 .. MaxChildren : i \in Nat
      BY SlotFacts
    <2> QED
      BY <1>5, <1>9, <2>1
  <1>12. MaxChildren \in Nat /\ \A i \in Nat : i + 1 \in Nat
    BY SlotFacts
  <1> QED
    BY <1>1, <1>3, <1>9, <1>10, <1>11, <1>12

\* R holds, for every open loop, a bound on the entries reported before it was
\* begun; there remains the room for those below its own node.
level(j) == height(walk[j].p_node)

Spent(R) ==
    /\ R \in [Nat -> Nat]
    /\ \A j \in 1 .. Len(walk) : R[j] + capacity(level(j)) <= capacity(level(1))
    /\ \A j \in 1 .. Len(walk) - 1 : R[j + 1] <= R[j] + fitBelow(walk[j].i, level(j))
    /\ Len(reported) <= R[Len(walk)] + fitBelow(walk[Len(walk)].i, level(Len(walk)))
                        + (IF searching = "callback" THEN 1 ELSE 0)

BudgetInv == WalkInv /\ (walk # <<>> => \E R : Spent(R))

\* The numbers of the loops.
LEMMA LoopFacts ==
    ASSUME WalkInv, walk # <<>>
    PROVE  /\ Len(walk) \in Nat /\ Len(walk) >= 1 /\ Len(reported) \in Nat
           /\ \A j \in 1 .. Len(walk) :
                level(j) \in Nat /\ walk[j].i \in 0 .. MaxChildren /\ walk[j].i \in Nat
           /\ \A j \in 1 .. Len(walk) - 1 : level(j) = level(j + 1) + 1
           /\ searching = "callback" =>
                level(Len(walk)) = 0 /\ walk[Len(walk)].i < MaxChildren
  <1>1. /\ walk \in Seq(Loops) /\ Descending /\ Len(walk) \in Nat /\ Len(walk) >= 1
        /\ \A j \in 1 .. Len(walk) : walk[j].p_node \in Nodes /\ walk[j].i \in Nat
        /\ \A n \in Nodes : height(n) \in Nat
        /\ top = walk[Len(walk)]
    BY WalkFacts, FrameFields
    DEF WalkInv, WalkShape, TreeInv, OccupiedInv, ShapeInv
  <1>2. \A j \in 1 .. Len(walk) : level(j) \in Nat /\ walk[j].i \in 0 .. MaxChildren
    BY <1>1, SlotFacts DEF level, Descending
  <1>3. \A j \in 1 .. Len(walk) - 1 : level(j) = level(j + 1) + 1
    BY <1>1 DEF level, Descending
  <1>4. searching = "callback" =>
          level(Len(walk)) = 0 /\ walk[Len(walk)].i < MaxChildren
    BY <1>1 DEF WalkInv, WalkShape, isLeaf, height, level
  <1>5. \A j \in 1 .. Len(walk) : walk[j].i \in Nat
    BY <1>1
  <1> QED
    BY <1>1, <1>2, <1>3, <1>4, <1>5 DEF WalkInv, WalkShape

LEMMA SumBelow ==
    \A m, r, f, g \in Nat : m <= r + f /\ f <= g => m <= r + g
  OBVIOUS

\* The budget of the innermost loop covers what was reported, and the first
\* one's covers it all.
LEMMA SpentFacts ==
    ASSUME WalkInv, walk # <<>>, NEW R, Spent(R)
    PROVE  /\ Len(reported) <= R[Len(walk)] + capacity(level(Len(walk)))
           /\ Len(reported) <= capacity(level(1))
           /\ Len(reported) <= R[Len(walk)]
                               + fitBelow(walk[Len(walk)].i + 1, level(Len(walk)))
  <1>1. PICK n \in Nat, i \in Nat, h \in Nat, H \in Nat :
          /\ n = Len(walk) /\ n >= 1 /\ i = walk[n].i /\ h = level(n)
          /\ H = level(1) /\ i <= MaxChildren
          /\ searching = "callback" => h = 0 /\ i < MaxChildren
    BY LoopFacts, SlotFacts
  <1>2. /\ R[n] \in Nat /\ Len(reported) \in Nat
        /\ R[n] + capacity(h) <= capacity(H)
        /\ Len(reported) <= R[n] + fitBelow(i, h)
                            + (IF searching = "callback" THEN 1 ELSE 0)
    BY <1>1, LoopFacts DEF Spent
  <1>3. /\ capacity(h) \in Nat /\ capacity(H) \in Nat
        /\ fitBelow(i, h) \in Nat /\ fitBelow(i, h) <= capacity(h)
        /\ fitBelow(i, h) <= fitBelow(i + 1, h) /\ fitBelow(i + 1, h) \in Nat
        /\ h = 0 => fitBelow(i, h) = i /\ fitBelow(i + 1, h) = i + 1
        /\ h = 0 => capacity(h) = MaxChildren
    <2>1. i \in 0 .. MaxChildren /\ i + 1 \in Nat /\ MaxChildren \in Nat
      BY <1>1, SlotFacts
    <2> QED
      BY <2>1, FitFacts
  <1>4. PICK r \in Nat, m \in Nat, a \in Nat, b \in Nat, f \in Nat, g \in Nat :
          /\ r = R[n] /\ m = Len(reported) /\ a = capacity(h) /\ b = capacity(H)
          /\ f = fitBelow(i, h) /\ g = fitBelow(i + 1, h)
    BY <1>2, <1>3
  <1>5. m <= r + a /\ m <= r + g
    <2>1. CASE searching = "callback"
      <3>1. f = i /\ g = i + 1 /\ a = MaxChildren /\ i < MaxChildren /\ m <= r + f + 1
        BY <1>1, <1>2, <1>3, <1>4, <2>1
      <3> QED
        BY <3>1, SlotFacts
    <2>2. CASE searching # "callback"
      <3>1. f <= a /\ f <= g
        BY <1>3, <1>4
      <3>2. m <= r + f
        <4>1. Len(reported) <= R[n] + fitBelow(i, h) + 0
          BY <1>2, <2>2
        <4>2. m <= r + f + 0
          BY <1>4, <4>1
        <4> QED
          BY <4>2
      <3> QED
        BY <3>1, <3>2, SumBelow
    <2> QED
      BY <2>1, <2>2
  <1>6. m <= b
    <2>1. r + a <= b
      BY <1>2, <1>4
    <2> QED
      BY <1>5, <2>1
  <1>7. Len(reported) = m /\ capacity(level(1)) = b /\ R[Len(walk)] = r
    BY <1>1, <1>4
  <1>8. /\ capacity(level(Len(walk))) = a
        /\ fitBelow(walk[Len(walk)].i + 1, level(Len(walk))) = g
    BY <1>1, <1>4
  <1> QED
    BY <1>5, <1>6, <1>7, <1>8

\* The budgets stand when the loops keep their places.
LEMMA SpentStays ==
    ASSUME WalkInv, walk # <<>>, NEW R, Spent(R), walk' = walk,
           \A n \in Nodes : height(n)' = height(n),
           \/ reported' = reported /\ searching' = searching
           \/ /\ searching # "callback" /\ searching' = "callback"
              /\ Len(reported') = Len(reported) + 1
    PROVE  Spent(R)'
  <1>1. Len(walk) \in Nat /\ Len(walk) >= 1 /\ Len(reported) \in Nat
    BY LoopFacts
  <1>2. \A j \in 1 .. Len(walk) : level(j)' = level(j)
    <2>1. ASSUME NEW j \in 1 .. Len(walk)
          PROVE  level(j)' = level(j)
      <3>1. PICK n \in Nodes : n = walk[j].p_node /\ n = walk'[j].p_node
        BY WalkFacts DEF WalkInv, WalkShape
      <3>2. height(n)' = height(n)
        OBVIOUS
      <3> QED
        BY <3>1, <3>2 DEF level
    <2> QED
      BY <2>1
  <1>3. Len(walk) \in 1 .. Len(walk) /\ 1 \in 1 .. Len(walk)
        /\ \A j \in 1 .. Len(walk) - 1 : j \in 1 .. Len(walk)
    BY <1>1
  <1>4. PICK b \in Nat :
          b = R[Len(walk)] + fitBelow(walk[Len(walk)].i, level(Len(walk)))
    <2>1. /\ R[Len(walk)] \in Nat /\ walk[Len(walk)].i \in Nat
          /\ level(Len(walk)) \in Nat
      <3>1. R \in [Nat -> Nat]
        BY DEF Spent
      <3>2. level(Len(walk)) \in Nat /\ walk[Len(walk)].i \in 0 .. MaxChildren
        BY <1>3, LoopFacts
      <3>3. PICK k \in Nat : k = Len(walk)
        BY <1>1
      <3>4. R[k] \in Nat
        BY <3>1
      <3>5. walk[k].i \in Nat
        BY <3>2, <3>3, SlotFacts
      <3> QED
        BY <3>2, <3>3, <3>4, <3>5
    <2>2. fitBelow(walk[Len(walk)].i, level(Len(walk))) \in Nat
      BY <2>1, FitFacts
    <2> QED
      BY <2>1, <2>2
  <1>5. Len(reported) <= b + (IF searching = "callback" THEN 1 ELSE 0)
    BY <1>4 DEF Spent
  <1>6. Len(reported') <= b + (IF searching' = "callback" THEN 1 ELSE 0)
    BY <1>1, <1>5
  <1>7. PICK k \in 1 .. Len(walk) : k = Len(walk) /\ k = Len(walk')
    BY <1>3
  <1>8. Len(reported') <= R[k] + fitBelow(walk'[k].i, level(k)')
                          + (IF searching' = "callback" THEN 1 ELSE 0)
    <2>1. b = R[k] + fitBelow(walk'[k].i, level(k)')
      BY <1>2, <1>4, <1>7
    <2> QED
      BY <1>6, <2>1
  <1>9. \A j \in 1 .. k - 1 : R[j + 1] <= R[j] + fitBelow(walk'[j].i, level(j)')
    BY <1>2, <1>3, <1>7 DEF Spent
  <1>10. \A j \in 1 .. k : R[j] + capacity(level(j)') <= capacity(level(1)')
    BY <1>2, <1>3, <1>7 DEF Spent
  <1> QED
    BY <1>7, <1>8, <1>9, <1>10 DEF Spent

\* The innermost loop goes on with its next index.
LEMMA SpentAdvances ==
    ASSUME WalkInv, walk # <<>>, NEW R, Spent(R), Advances,
           heap' = heap, searching' # "callback", reported' = reported
    PROVE  Spent(R)'
  <1>1. Len(walk) \in Nat /\ Len(walk) >= 1 /\ \A n : height(n)' = height(n)
    BY LoopFacts DEF height
  <1>2. PICK k \in 1 .. Len(walk) : k = Len(walk) /\ k = Len(walk') /\ k \in Nat
    BY <1>1 DEF Advances
  <1>3. \A j \in 1 .. k - 1 : j \in 1 .. k /\ j # k /\ 1 \in 1 .. k
    BY <1>2
  <1>4. \A j \in 1 .. k : level(j)' = level(j)
    BY <1>1, <1>2 DEF Advances, level
  <1>5. walk'[k].i = walk[k].i + 1 /\ \A j \in 1 .. k - 1 : walk'[j].i = walk[j].i
    BY <1>2, <1>3 DEF Advances
  <1>6. Len(reported) <= R[k] + fitBelow(walk'[k].i, level(k)')
    BY <1>2, <1>4, <1>5, SpentFacts
  <1>7. Len(reported') <= R[k] + fitBelow(walk'[k].i, level(k)')
                          + (IF searching' = "callback" THEN 1 ELSE 0)
    <2>1. R \in [Nat -> Nat] /\ walk[k].i \in 0 .. MaxChildren /\ level(k) \in Nat
      BY <1>2, LoopFacts DEF Spent
    <2>2. R[k] \in Nat /\ walk'[k].i \in Nat /\ level(k)' \in Nat
      <3>1. R[k] \in Nat
        BY <1>2, <2>1
      <3>2. PICK i \in Nat : i = walk[k].i
        BY LoopFacts
      <3>3. i + 1 \in Nat /\ walk'[k].i = i + 1
        BY <1>5, <3>2
      <3>4. level(k)' \in Nat
        BY <1>2, <1>4, <2>1
      <3> QED
        BY <3>1, <3>3, <3>4
    <2>3. fitBelow(walk'[k].i, level(k)') \in Nat
      BY <2>2, FitFacts
    <2>4. PICK a \in Nat, b \in Nat : a = R[k] /\ b = fitBelow(walk'[k].i, level(k)')
      BY <2>2, <2>3
    <2> QED
      BY <1>6, <2>4
  <1>8. \A j \in 1 .. k - 1 : R[j + 1] <= R[j] + fitBelow(walk'[j].i, level(j)')
    BY <1>2, <1>3, <1>4, <1>5 DEF Spent
  <1>9. \A j \in 1 .. k : R[j] + capacity(level(j)') <= capacity(level(1)')
    BY <1>2, <1>4 DEF Spent
  <1> QED
    BY <1>2, <1>7, <1>8, <1>9 DEF Spent

\* The innermost loop ends: what it reported had room below one slot.
LEMMA SpentLeaves ==
    ASSUME WalkInv, walk # <<>>, NEW R, Spent(R), Leaves, Len(walk) # 1,
           heap' = heap, searching' # "callback", reported' = reported
    PROVE  Spent(R)'
  <1>1. Len(walk) \in Nat /\ Len(walk) >= 1 /\ \A n : height(n)' = height(n)
    BY LoopFacts DEF height
  <1>2. PICK k \in Nat : k = Len(walk) - 1 /\ k = Len(walk') /\ k >= 1
    BY <1>1 DEF Leaves
  <1>3. /\ \A j \in 1 .. k : j \in 1 .. Len(walk) /\ j \in 1 .. Len(walk) - 1
        /\ \A j \in 1 .. k - 1 : j \in 1 .. k /\ j # k
        /\ k + 1 = Len(walk) /\ k + 1 \in 1 .. Len(walk)
        /\ k \in 1 .. k /\ 1 \in 1 .. k
    BY <1>1, <1>2
  <1>4. \A j \in 1 .. k : level(j)' = level(j)
    BY <1>1, <1>2 DEF Leaves, level
  <1>5. walk'[k].i = walk[k].i + 1 /\ \A j \in 1 .. k - 1 : walk'[j].i = walk[j].i
    BY <1>2, <1>3 DEF Leaves
  <1>6. PICK i \in Nat, h \in Nat :
          i = walk[k].i /\ h = level(k) /\ h # 0 /\ level(k + 1) = h - 1
    <2>1. /\ walk[k].i \in 0 .. MaxChildren /\ level(k) \in Nat
          /\ level(k + 1) \in Nat /\ level(k) = level(k + 1) + 1
      BY <1>3, LoopFacts
    <2>2. walk[k].i \in Nat
      BY <2>1, SlotFacts
    <2>3. level(k) # 0 /\ level(k + 1) = level(k) - 1
      BY <2>1
    <2> QED
      BY <2>1, <2>2, <2>3
  <1>7. PICK a \in Nat, b \in Nat, m \in Nat, f \in Nat, g \in Nat, c \in Nat :
          /\ a = R[k] /\ b = R[k + 1] /\ m = Len(reported) /\ f = fitBelow(i, h)
          /\ g = fitBelow(i + 1, h) /\ c = capacity(h - 1) /\ g = f + c
    <2>1. R \in [Nat -> Nat] /\ Len(reported) \in Nat
      BY LoopFacts DEF Spent
    <2>2. R[k] \in Nat /\ R[k + 1] \in Nat
      <3>1. \A j \in Nat : R[j] \in Nat
        BY <2>1
      <3>2. k + 1 \in Nat
        OBVIOUS
      <3> QED
        BY <3>1, <3>2
    <2>3. h - 1 \in Nat /\ i + 1 \in Nat
      BY <1>6
    <2>4. /\ fitBelow(i, h) \in Nat /\ fitBelow(i + 1, h) \in Nat
          /\ capacity(h - 1) \in Nat
      <3>1. \A j \in Nat : fitBelow(j, h) \in Nat
        BY FitFacts
      <3>2. \A g \in Nat : capacity(g) \in Nat
        BY CapacityFacts
      <3> QED
        BY <2>3, <3>1, <3>2
    <2>5. fitBelow(i + 1, h) = fitBelow(i, h) + capacity(h - 1)
      BY <1>6, FitFacts
    <2> QED
      BY <2>1, <2>2, <2>4, <2>5
  <1>8. m <= b + c
    BY <1>3, <1>6, <1>7, SpentFacts
  <1>9. b <= a + f
    BY <1>2, <1>3, <1>6, <1>7 DEF Spent
  <1>10. Len(reported') <= R[k] + fitBelow(walk'[k].i, level(k)')
                          + (IF searching' = "callback" THEN 1 ELSE 0)
    <2>0. g = f + c
      BY <1>7
    <2>1. m <= a + g
      BY <1>8, <1>9, <2>0
    <2>2. g = fitBelow(walk'[k].i, level(k)')
      BY <1>3, <1>4, <1>5, <1>6, <1>7
    <2>3. Len(reported') = m /\ R[k] = a /\ searching' # "callback"
      BY <1>7
    <2>4. m <= a + g + 0
      BY <2>1
    <2> QED
      BY <2>2, <2>3, <2>4
  <1>11. \A j \in 1 .. k - 1 : R[j + 1] <= R[j] + fitBelow(walk'[j].i, level(j)')
    BY <1>2, <1>3, <1>4, <1>5 DEF Spent
  <1>12. \A j \in 1 .. k : R[j] + capacity(level(j)') <= capacity(level(1)')
    BY <1>3, <1>4 DEF Spent
  <1> QED
    BY <1>2, <1>10, <1>11, <1>12 DEF Spent

\* A loop over a child begins with what the slots before it had room for.
LEMMA SpentVisits ==
    ASSUME WalkInv, walk # <<>>, NEW R, Spent(R), NEW n \in Nodes, Enters(n),
           height(top.p_node) = height(n) + 1, top.i < MaxChildren,
           heap' = heap, searching = "walk", searching' = "walk",
           reported' = reported
    PROVE  \E Q : Spent(Q)'
  <1>1. /\ Len(walk) \in Nat /\ Len(walk) >= 1 /\ \A m : height(m)' = height(m)
        /\ top = walk[Len(walk)]
    BY LoopFacts, TopFacts DEF height
  <1>2. PICK k \in Nat : k = Len(walk) /\ k + 1 = Len(walk') /\ k >= 1
    BY <1>1 DEF Enters
  <1>3. /\ k \in 1 .. Len(walk) /\ k + 1 # k /\ 1 \in 1 .. k
        /\ \A j \in 1 .. k : j \in Nat /\ j # k + 1 /\ j \in 1 .. Len(walk)
        /\ \A j \in 1 .. k - 1 : j \in 1 .. k /\ j + 1 \in 1 .. k
    BY <1>2
  <1>4. /\ \A j \in 1 .. k : level(j)' = level(j) /\ walk'[j] = walk[j]
        /\ walk'[k + 1].i = 0 /\ level(k + 1)' = height(n)
    <2>1. \A j \in 1 .. k : walk'[j] = walk[j]
      BY <1>2 DEF Enters
    <2>2. walk'[k + 1] = [p_node |-> n, i |-> 0]
      BY <1>2 DEF Enters
    <2> QED
      BY <1>1, <2>1, <2>2 DEF level
  <1>5. PICK i \in Nat, h \in Nat, l \in Nat, L \in Nat :
          /\ i = walk[k].i /\ h = level(k) /\ h = l + 1 /\ level(k + 1)' = l
          /\ l = h - 1 /\ h # 0 /\ L = level(1) /\ i < MaxChildren
    <2>1. level(k) \in Nat /\ walk[k].i \in Nat /\ level(1) \in Nat
      BY <1>3, LoopFacts
    <2>2. height(n) \in Nat /\ level(k) = height(n) + 1
      BY <1>1, <1>2, FrameFields DEF WalkInv, TreeInv, OccupiedInv, ShapeInv, level
    <2>3. level(k) # 0 /\ height(n) = level(k) - 1
      BY <2>1, <2>2
    <2> QED
      BY <1>1, <1>2, <1>4, <2>1, <2>2, <2>3
  <1>6. PICK r \in Nat, m \in Nat, f \in Nat, g \in Nat, c \in Nat, d \in Nat, b \in Nat :
          /\ r = R[k] /\ m = Len(reported) /\ f = fitBelow(i, h)
          /\ g = fitBelow(i + 1, h) /\ c = capacity(l) /\ g = f + c
          /\ d = capacity(h) /\ b = capacity(L) /\ g <= d
    <2>1. R \in [Nat -> Nat] /\ Len(reported) \in Nat
      BY LoopFacts DEF Spent
    <2>2. R[k] \in Nat
      BY <2>1
    <2>3. i + 1 \in Nat /\ i + 1 \in 0 .. MaxChildren
      <3>1. PICK M \in Nat : M = MaxChildren
        BY SlotFacts
      <3>2. i < M
        BY <1>5, <3>1
      <3>3. i + 1 \in Nat /\ i + 1 \in 0 .. M
        BY <3>2
      <3> QED
        BY <3>1, <3>3
    <2>4. \A j \in Nat : fitBelow(j, h) \in Nat
      BY FitFacts
    <2>5. \A j \in Nat : capacity(j) \in Nat
      BY CapacityFacts
    <2>6. fitBelow(i + 1, h) = fitBelow(i, h) + capacity(h - 1)
      BY <1>5, FitFacts
    <2>7. fitBelow(i + 1, h) <= capacity(h)
      BY <2>3, FitFacts
    <2> QED
      BY <1>5, <2>1, <2>2, <2>3, <2>4, <2>5, <2>6, <2>7
  <1> DEFINE Q == [j \in Nat |-> IF j = k + 1 THEN r + f ELSE R[j]]
  <1>7. Q \in [Nat -> Nat] /\ Q[k + 1] = r + f /\ \A j \in 1 .. k : Q[j] = R[j]
    <2>0. R \in [Nat -> Nat]
      BY DEF Spent
    <2>1. r + f \in Nat /\ k + 1 \in Nat
      OBVIOUS
    <2>2. \A j \in 1 .. k : j \in Nat /\ j # k + 1
      BY <1>3
    <2> QED
      BY <2>0, <2>1, <2>2
  <1> HIDE DEF Q
  <1>8. m <= r + f /\ r + d <= b
    <2>1. Len(reported) <= R[k] + fitBelow(walk[k].i, level(k))
                           + (IF searching = "callback" THEN 1 ELSE 0)
      BY <1>2 DEF Spent
    <2>2. searching # "callback"
      OBVIOUS
    <2>3. m <= r + f + 0
      BY <1>5, <1>6, <2>1, <2>2
    <2>4. R[k] + capacity(level(k)) <= capacity(level(1))
      BY <1>3 DEF Spent
    <2>5. r + d <= b
      BY <1>5, <1>6, <2>4
    <2> QED
      BY <2>3, <2>5
  <1>9. Len(reported') <= Q[k + 1] + fitBelow(walk'[k + 1].i, level(k + 1)')
                          + (IF searching' = "callback" THEN 1 ELSE 0)
    <2>1. fitBelow(walk'[k + 1].i, level(k + 1)') = 0
      BY <1>4, <1>5, FitFacts
    <2>2. Len(reported') = m /\ searching' # "callback"
      BY <1>6
    <2>3. m <= r + f + 0 + 0
      BY <1>8
    <2> QED
      BY <1>7, <2>1, <2>2, <2>3
  <1>10. \A j \in 1 .. k : Q[j + 1] <= Q[j] + fitBelow(walk'[j].i, level(j)')
    <2>1. ASSUME NEW j \in 1 .. k - 1
          PROVE  Q[j + 1] <= Q[j] + fitBelow(walk'[j].i, level(j)')
      <3>1. R[j + 1] <= R[j] + fitBelow(walk[j].i, level(j))
        BY <1>2 DEF Spent
      <3> QED
        BY <1>3, <1>4, <1>7, <3>1
    <2>2. Q[k + 1] <= Q[k] + fitBelow(walk'[k].i, level(k)')
      <3>1. Q[k] = r /\ fitBelow(walk'[k].i, level(k)') = f
        BY <1>2, <1>3, <1>4, <1>5, <1>6, <1>7
      <3>2. r + f <= r + f
        OBVIOUS
      <3> QED
        BY <1>7, <3>1, <3>2
    <2>3. \A j \in 1 .. k : j \in 1 .. k - 1 \/ j = k
      OBVIOUS
    <2> QED
      BY <2>1, <2>2, <2>3
  <1>11. \A j \in 1 .. k + 1 : Q[j] + capacity(level(j)') <= capacity(level(1)')
    <2>1. level(1)' = L
      BY <1>3, <1>4, <1>5
    <2>2. ASSUME NEW j \in 1 .. k
          PROVE  Q[j] + capacity(level(j)') <= capacity(L)
      <3>1. R[j] + capacity(level(j)) <= capacity(level(1))
        BY <1>3 DEF Spent
      <3> QED
        BY <1>4, <1>5, <1>7, <3>1
    <2>3. Q[k + 1] + capacity(level(k + 1)') <= capacity(L)
      <3>0. g = f + c /\ g <= d /\ r + d <= b
        BY <1>6, <1>8
      <3>1. r + f + c <= b
        BY <3>0
      <3> QED
        BY <1>5, <1>6, <1>7, <3>1
    <2>4. \A j \in 1 .. k + 1 : j \in 1 .. k \/ j = k + 1
      OBVIOUS
    <2> QED
      BY <2>1, <2>2, <2>3, <2>4
  <1>12. PICK p \in Nat : p = k + 1 /\ p = Len(walk') /\ p - 1 = k
    BY <1>2
  <1>13. /\ \A j \in 1 .. p : Q[j] + capacity(level(j)') <= capacity(level(1)')
         /\ Len(reported') <= Q[p] + fitBelow(walk'[p].i, level(p)')
                              + (IF searching' = "callback" THEN 1 ELSE 0)
    BY <1>9, <1>11, <1>12
  <1>14. \A j \in 1 .. p - 1 : Q[j + 1] <= Q[j] + fitBelow(walk'[j].i, level(j)')
    BY <1>10, <1>12
  <1>15. Spent(Q)'
    BY <1>7, <1>12, <1>13, <1>14 DEF Spent
  <1> QED
    BY <1>15

\* A search begins with nothing spent.
LEMMA SpentBegins ==
    ASSUME WalkInv, NEW a_target \in Targets, SearchTag(a_target)
    PROVE  \E R : Spent(R)'
  <1>1. /\ Len(walk') = 1 /\ walk'[1] = [p_node |-> m_root, i |-> 0]
        /\ reported' = <<>> /\ searching' # "callback" /\ heap' = heap
    <2>1. searching = "no"
      BY DEF SearchTag
    <2>2. reported = <<>>
      BY <2>1 DEF WalkInv, WalkShape
    <2> QED
      BY <2>2 DEF SearchTag, vars, indexVars
  <1>2. PICK h \in Nat : h = level(1)'
    <2>1. m_root \in Nodes /\ height(m_root) \in Nat
      BY FrameFields DEF WalkInv, TreeInv, OccupiedInv, ShapeInv, TypeOK
    <2> QED
      BY <1>1, <2>1 DEF level, height
  <1> DEFINE R == [j \in Nat |-> 0]
  <1>3. fitBelow(walk'[1].i, h) = 0 /\ capacity(h) \in Nat
    BY <1>1, FitFacts
  <1>4. Len(reported') = 0
    BY <1>1
  <1>5. \A j \in 1 .. 1 : j = 1
    OBVIOUS
  <1>6. 1 .. 1 - 1 = {}
    OBVIOUS
  <1>7. R \in [Nat -> Nat] /\ R[1] = 0
    OBVIOUS
  <1> HIDE DEF R
  <1>8. Len(reported') <= R[1] + fitBelow(walk'[1].i, level(1)')
                          + (IF searching' = "callback" THEN 1 ELSE 0)
    BY <1>1, <1>2, <1>3, <1>4, <1>7
  <1>9. R[1] + capacity(level(1)') <= capacity(level(1)')
    BY <1>2, <1>3, <1>7
  <1>10. Spent(R)'
    BY <1>1, <1>5, <1>6, <1>7, <1>8, <1>9 DEF Spent
  <1> QED
    BY <1>10

LEMMA NextBudget == BudgetInv /\ [SearchNext]_allVars => BudgetInv'
  <1> SUFFICES ASSUME BudgetInv, [SearchNext]_allVars, walk' # <<>>
               PROVE  \E R : Spent(R)'
    BY NextWalk DEF BudgetInv
  <1>0. WalkInv /\ ShapeInv /\ walk \in Seq(Loops)
    BY DEF BudgetInv, WalkInv, WalkShape, TreeInv, OccupiedInv
  <1>1. ASSUME walk # <<>>
        PROVE  \E R : Spent(R)
    BY <1>1 DEF BudgetInv
  <1>2. ASSUME Next \/ UNCHANGED vars
        PROVE  \A n \in Nodes : height(n)' = height(n)
    BY <1>0, <1>2, NextExtends DEF Extends, Nodes, height
  <1>3. CASE CallIndex
    <2>1. /\ walk' = walk /\ reported' = reported /\ searching' = searching
          /\ \A n \in Nodes : height(n)' = height(n)
      BY <1>2, <1>3 DEF CallIndex
    <2>2. PICK R : Spent(R)
      BY <1>1, <2>1
    <2> QED
      BY <1>0, <2>1, <2>2, SpentStays
  <1>4. ASSUME NEW a_target \in Targets, SearchTag(a_target)
        PROVE  \E R : Spent(R)'
    BY <1>0, <1>4, SpentBegins
  <1>5. CASE Process
    <2>1. /\ walk' = walk /\ walk # <<>> /\ searching # "callback"
          /\ searching' = "callback" /\ reported' = Append(reported, topEntry)
          /\ \A n \in Nodes : height(n)' = height(n)
      BY <1>2, <1>5 DEF Process, InLoop
    <2>2. PICK R : Spent(R)
      BY <1>1, <2>1
    <2>3. Len(reported') = Len(reported) + 1
      BY <1>0, <2>1 DEF WalkInv, WalkShape
    <2> QED
      BY <1>0, <2>1, <2>2, <2>3, SpentStays
  <1>6. ASSUME walk # <<>>, walk' = Resumed(walk), heap' = heap,
               searching' = "walk", reported' = reported
        PROVE  \E R : Spent(R)'
    <2>1. PICK R : Spent(R)
      BY <1>1, <1>6
    <2>2. Advances
      BY <1>0, <1>6, AdvanceFacts
    <2> QED
      BY <1>0, <1>6, <2>1, <2>2, SpentAdvances
  <1>7. ASSUME walk # <<>>, walk' = Resumed(Front(walk)), heap' = heap,
               searching' = "walk", reported' = reported
        PROVE  \E R : Spent(R)'
    <2>1. PICK R : Spent(R)
      BY <1>1, <1>7
    <2>2. Leaves /\ Len(walk) # 1
      BY <1>0, <1>7, LeaveFacts
    <2> QED
      BY <1>0, <1>7, <2>1, <2>2, SpentLeaves
  <1>8. ASSUME NEW conti \in BOOLEAN, Answer(conti)
        PROVE  \E R : Spent(R)'
    <2>1. /\ searching' = "walk" /\ reported' = reported /\ heap' = heap
          /\ walk # <<>>
          /\ walk' = Resumed(walk) \/ walk' = Resumed(Front(walk))
      BY <1>0, <1>8 DEF Answer, vars, indexVars, WalkInv, WalkShape
    <2> QED
      BY <1>6, <1>7, <2>1
  <1>9. CASE Pass
    BY <1>6, <1>9 DEF Pass, InLoop, vars, indexVars
  <1>10. CASE Visit
    <2>1. PICK n \in Nodes : Enters(n) /\ height(top.p_node) = height(n) + 1
      BY <1>0, <1>10, VisitFacts
    <2>2. /\ walk # <<>> /\ top.i < MaxChildren /\ searching = "walk"
          /\ searching' = "walk" /\ reported' = reported /\ heap' = heap
      BY <1>0, <1>10, VisitFacts DEF Visit, InLoop, vars, indexVars
    <2>3. PICK R : Spent(R)
      BY <1>1, <2>2
    <2> QED
      BY <1>0, <2>1, <2>2, <2>3, SpentVisits
  <1>11. CASE LeaveNode
    BY <1>7, <1>11 DEF LeaveNode, vars, indexVars
  <1>12. CASE EndSearch
    BY <1>12 DEF EndSearch
  <1>13. CASE UNCHANGED allVars
    <2>1. /\ walk' = walk /\ reported' = reported /\ searching' = searching
          /\ UNCHANGED vars
      BY <1>13 DEF allVars, searchVars
    <2>2. PICK R : Spent(R)
      BY <1>1, <2>1
    <2>3. \A n \in Nodes : height(n)' = height(n)
      BY <1>2, <2>1
    <2> QED
      BY <1>0, <2>1, <2>2, <2>3, SpentStays
  <1> QED
    BY <1>3, <1>4, <1>5, <1>8, <1>9, <1>10, <1>11, <1>12, <1>13
    DEF SearchNext, SearchStep

\* A search makes no more calls of the callback than its root had room for
\* entries below it, whatever the callback inserts.
THEOREM SearchCallsBounded == SearchSpec => []CallsBounded
  <1>1. SearchInit => BudgetInv
    BY InitWalk DEF SearchInit, BudgetInv
  <1>2. BudgetInv => CallsBounded
    <2> SUFFICES ASSUME BudgetInv, walk # <<>>
                 PROVE  Len(reported) <= capacity(heap[walk[1].p_node].m_height)
      BY DEF CallsBounded
    <2>1. PICK R : Spent(R)
      BY DEF BudgetInv
    <2>2. Len(reported) <= capacity(level(1))
      BY <2>1, SpentFacts DEF BudgetInv
    <2> QED
      BY <2>2 DEF level, height
  <1> QED
    BY <1>1, <1>2, NextBudget, PTL DEF SearchSpec
-----------------------------------------------------------------------------
\* What a search has been at.  An entry is passed when the loop over its node
\* goes on behind it, and behind the search when that loop has ended: D are
\* the nodes whose loops have, together with siblings that took their entries.
Passed(h) == \E j \in 1 .. Len(walk) : walk[j].p_node = h[1] /\ h[2] < walk[j].i
Behind(D, h) == owner(h) \in D \/ Passed(h)

\* An entry that the search is due to report and has not.
Unseen(h) ==
    /\ held(h).m_child = nullptr /\ held(h).m_data <= before
    /\ isOverlap(held(h).m_box, r_target)
    /\ held(h) \notin ToSet(reported)

\* It stands behind one for which the callback returned false.
Explained(h) ==
    /\ h[1] # 0
    /\ \E s \in Slots : /\ s < h[2] /\ <<h[1], s>> \in Homes
                        /\ held(<<h[1], s>>) \in declined

Fine(D, h) ==
    held(h).m_child \in D \cup {nullptr} /\ (Unseen(h) => Explained(h))
Settled(D) == \A h \in Homes : Behind(D, h) => Fine(D, h)

\* A sibling is done with the node whose entries it takes.
Together(D) ==
    /\ pc = "fill" => (t_node \in D <=> p_node \in D)
    /\ Pending /\ p_node \in D => m_nodeBuffer \in D

Done(D) ==
    /\ D \subseteq Nodes
    /\ torn = {} => D \subseteq entered
    /\ walk = <<>> => m_root \in D
    /\ Together(D)
    /\ Settled(D)

\* Where the j-th loop is.
spot(j) == <<walk[j].p_node, walk[j].i>>

\* The loops lead down from the root, and no node under one is being split.
PathOpen ==
    /\ walk # <<>> => /\ walk[1].p_node = m_root
                      /\ walk[Len(walk)].i <= csize(walk[Len(walk)].p_node)
    /\ \A j \in 1 .. Len(walk) - 1 :
         spot(j) \in Homes /\ held(spot(j)).m_child = walk[j + 1].p_node
    /\ searching = "callback" => /\ spot(Len(walk)) \in Homes
                                 /\ held(spot(Len(walk))) = Last(reported)
    /\ pc = "fill" => p_node \notin open /\ t_node \notin open
    /\ Pending => p_node \notin open

Untorn == "open" \notin torn /\ (torn = {} \/ declined = {})

SearchedInv ==
    /\ WalkInv
    /\ searching # "no" /\ ~ Dead /\ Untorn => PathOpen /\ \E D : Done(D)

\* An entry, not a link to a child, is the same record wherever it moves.
LEMMA SameEntry ==
    ASSUME HomesTyped, HomesTyped', NEW origin, NEW Extra, NEW Changed,
           Moves(origin, Extra, Changed),
           \A h \in Changed \cap Homes : held(h).m_data = NoData,
           NEW k \in Homes' \ Extra, held(origin[k]).m_data # NoData
    PROVE  held(k)' = held(origin[k])
  <1>1. origin[k] \in Homes /\ k \in Homes' /\ origin[k] \notin Changed
    BY DEF Moves
  <1>2. PICK e \in SubNode : e = held(origin[k])
    BY <1>1 DEF HomesTyped
  <1>3. PICK f \in SubNode : f = held(k)'
    BY <1>1 DEF HomesTyped
  <1>4. f.m_child = e.m_child /\ f.m_data = e.m_data /\ f.m_box = e.m_box
    BY <1>1, <1>2, <1>3 DEF Moves
  <1>5. e = f
    BY <1>4 DEF SubNode
  <1> QED
    BY <1>2, <1>3, <1>5

\* The sizes of nodes, also of those that a step leaves behind.
SizesTyped == \A n \in Nodes : csize(n) \in Nat /\ csize(n) \in 0 .. MaxChildren

LEMMA SizeFacts == TypeOK => SizesTyped
  <1> SUFFICES ASSUME TypeOK, NEW n \in Nodes
               PROVE  csize(n) \in Nat /\ csize(n) \in 0 .. MaxChildren
    BY DEF SizesTyped
  <1>1. csize(n) \in 0 .. MaxChildren
    BY FrameFields
  <1> QED
    BY <1>1, SlotFacts

LEMMA SizeFactsNext == TypeOK' => SizesTyped'
  BY SizeFacts, PTL

\* What is in an open node keeps the loops where they are.
LEMMA PathMoves ==
    ASSUME WalkInv, PathOpen, searching = "callback", TypeOK, TypeOK',
           UNCHANGED <<walk, reported, searching, m_root>>,
           NEW origin, NEW Extra, NEW Changed, Moves(origin, Extra, Changed),
           \A h \in Changed \cap Homes : held(h).m_data = NoData,
           \A j \in 1 .. Len(walk) :
             spot(j) \in Homes' \ Extra /\ origin[spot(j)] = spot(j),
           pc' = "fill" => p_node' \notin open /\ t_node' \notin open,
           Pending' => p_node' \notin open
    PROVE  PathOpen'
  <1>1. /\ walk # <<>> /\ Len(walk) \in Nat /\ Len(walk) >= 1
        /\ \A j \in 1 .. Len(walk) : walk[j].p_node \in Nodes /\ walk[j].i \in Nat
        /\ reported # <<>> /\ reported \in Seq(SubNode)
        /\ \A j \in DOMAIN reported : reported[j].m_data # NoData
    BY WalkFacts DEF WalkInv, WalkShape
  <1>2. open' = open /\ HomesTyped /\ HomesTyped' /\ \A j : spot(j)' = spot(j)
    BY HomeFacts, HomeFactsNext DEF open, spot
  <1>3. \A j \in 1 .. Len(walk) :
          /\ spot(j) \in Homes'
          /\ held(spot(j))'.m_child = held(spot(j)).m_child
    <2>1. ASSUME NEW j \in 1 .. Len(walk)
          PROVE  /\ spot(j) \in Homes'
                 /\ held(spot(j))'.m_child = held(spot(j)).m_child
      <3>1. PICK k \in Homes' \ Extra : k = spot(j) /\ origin[k] = k
        OBVIOUS
      <3>2. held(k)'.m_child = held(k).m_child
        BY <3>1 DEF Moves
      <3> QED
        BY <1>2, <3>1, <3>2
    <2> QED
      BY <2>1
  <1>4. \A j \in 1 .. Len(walk) - 1 :
          spot(j)' \in Homes' /\ held(spot(j))'.m_child = walk'[j + 1].p_node
    BY <1>1, <1>2, <1>3 DEF PathOpen
  <1>5. PICK k \in Homes' \ Extra :
          /\ k = spot(Len(walk)) /\ k = spot(Len(walk))' /\ origin[k] = k
    BY <1>1, <1>2
  <1>6. held(k)' = Last(reported)
    <2>1. held(k) = Last(reported)
      BY <1>5 DEF PathOpen
    <2>2. Last(reported) = reported[Len(reported)] /\ Len(reported) \in DOMAIN reported
      BY <1>1 DEF Last
    <2>3. held(k).m_data # NoData
      BY <1>1, <2>1, <2>2
    <2>4. held(k)' = held(k)
      BY <1>2, <1>5, <2>3, SameEntry
    <2> QED
      BY <2>1, <2>4
  <1>7. walk[Len(walk)].i <= csize(walk[Len(walk)].p_node)'
    <2>1. PICK n \in Nodes, i \in Nat : n = walk[Len(walk)].p_node /\ i = walk[Len(walk)].i
      BY <1>1
    <2>2. <<n, i>> \in Homes' /\ n # 0
      BY <1>5, <2>1 DEF spot, Nodes
    <2>3. i < csize(n)' /\ n \in Nodes'
      BY <1>2, <2>2 DEF HomesTyped
    <2>4. csize(n)' \in Nat
      BY <2>3, SizeFactsNext DEF SizesTyped
    <2> QED
      BY <2>1, <2>3, <2>4
  <1> QED
    BY <1>1, <1>2, <1>4, <1>5, <1>6, <1>7 DEF PathOpen

\* A step of the index keeps what the search has done, when it puts nothing
\* behind the search but what was there, and links to siblings.
LEMMA SettledMoves ==
    ASSUME WalkInv, HomesTyped, HomesTyped',
           UNCHANGED <<walk, reported, declined, before, r_target>>,
           NEW origin, NEW Extra, NEW Changed, Moves(origin, Extra, Changed),
           \A h \in Changed \cap Homes : held(h).m_data = NoData,
           ShapeInv, NEW D, NEW E, D \subseteq E, Settled(D),
           \A k \in Homes' \ Extra : Behind(E, k)' => Behind(D, origin[k]),
           \A k \in Homes' \ Extra :
             Behind(E, k)' /\ Explained(origin[k]) =>
               /\ origin[k] = k
               /\ \A s : <<k[1], s>> \in Homes =>
                    /\ <<k[1], s>> \in Homes' \ Extra
                    /\ origin[<<k[1], s>>] = <<k[1], s>>,
           \A k \in Extra : Behind(E, k)' => Fine(E, k)'
    PROVE  Settled(E)'
  <1> SUFFICES ASSUME NEW k \in Homes' \ Extra, Behind(E, k)'
               PROVE  Fine(E, k)'
    BY DEF Settled
  <1>1. PICK h \in Homes : h = origin[k]
    BY DEF Moves
  <1>2. Fine(D, h)
    BY <1>1 DEF Settled
  <1>3. held(k)'.m_child \in E \cup {nullptr}
    BY <1>1, <1>2 DEF Moves, Fine
  <1>4. ASSUME Unseen(k)'
        PROVE  Explained(k)'
    <2>1. /\ held(k)'.m_child = nullptr /\ held(k)'.m_data <= before
          /\ isOverlap(held(k)'.m_box, r_target) /\ held(k)' \notin ToSet(reported)
      BY <1>4 DEF Unseen
    <2>2. held(h).m_data # NoData
      <3>1. held(h).m_child = nullptr
        BY <1>1, <2>1 DEF Moves
      <3> QED
        BY <1>1, <3>1, HomeChildren DEF ChildrenTyped
    <2>3. held(k)' = held(h)
      BY <1>1, <2>2, SameEntry
    <2>4. Explained(h)
      BY <1>2, <2>1, <2>3 DEF Fine, Unseen
    <2>5. PICK s \in Slots : /\ k[1] # 0 /\ s < k[2] /\ <<k[1], s>> \in Homes
                             /\ held(<<k[1], s>>) \in declined
      BY <1>1, <2>4 DEF Explained
    <2>6. PICK g \in Homes' \ Extra : g = <<k[1], s>> /\ origin[g] = g
      BY <1>1, <2>4, <2>5
    <2>7. held(g).m_data # NoData
      BY <2>5, <2>6 DEF WalkInv, WalkShape, ToSet
    <2>8. held(g)' = held(g)
      BY <2>6, <2>7, SameEntry
    <2> QED
      BY <2>5, <2>6, <2>8 DEF Explained
  <1> QED
    BY <1>3, <1>4 DEF Fine

\* The same for steps that leave every entry in its place.
LEMMA SettledStays ==
    ASSUME WalkInv, ShapeInv, HomesTyped, HomesTyped',
           UNCHANGED <<walk, reported, declined, before, r_target>>,
           NEW Extra, NEW Changed, Moves([h \in Homes |-> h], Extra, Changed),
           \A h \in Changed \cap Homes : held(h).m_data = NoData,
           NEW D, Settled(D), Buffered = {} \/ p_node' = p_node,
           \A k \in Extra : Behind(D, k)' => Fine(D, k)'
    PROVE  Settled(D)'
  <1>1. Homes' \ Extra = Homes
    BY DEF Moves
  <1>2. ASSUME NEW k \in Homes
        PROVE  owner(k)' = owner(k) /\ (Passed(k)' <=> Passed(k))
    <2>1. Buffered # {} \/ k[1] # 0
      BY DEF HomesTyped, Homes, Places, Nodes
    <2> QED
      BY <2>1 DEF owner, Passed
  <1>3. \A k \in Homes : Behind(D, k)' => Behind(D, k)
    BY <1>2 DEF Behind
  <1>4. \A k \in Homes : [h \in Homes |-> h][k] = k
    OBVIOUS
  <1>5. PICK origin : origin = [h \in Homes |-> h]
    OBVIOUS
  <1>6. Moves(origin, Extra, Changed) /\ \A k \in Homes : origin[k] = k
    BY <1>4, <1>5
  <1>7. \A k \in Homes' \ Extra : Behind(D, k)' => Behind(D, origin[k])
    BY <1>1, <1>3, <1>6
  <1>8. \A k \in Homes' \ Extra :
          Behind(D, k)' /\ Explained(origin[k]) =>
            /\ origin[k] = k
            /\ \A s : <<k[1], s>> \in Homes =>
                 /\ <<k[1], s>> \in Homes' \ Extra
                 /\ origin[<<k[1], s>>] = <<k[1], s>>
    BY <1>1, <1>6
  <1> QED
    BY <1>6, <1>7, <1>8, SettledMoves
-----------------------------------------------------------------------------
\* The callback inserts, no assertion fails, and what follows may still miss
\* an entry only behind a declined one.
Undisturbed ==
    CallIndex /\ searching = "callback" /\ TreeInv' /\ ~ Dead' /\ Untorn'

LEMMA CallFacts ==
    ASSUME SearchedInv, Undisturbed
    PROVE  /\ Next /\ WalkInv /\ TreeInv /\ ShapeInv /\ ShapeInv' /\ TypeOK /\ TypeOK'
           /\ HomesTyped /\ HomesTyped' /\ ~ Dead /\ PathOpen /\ \E D : Done(D)
           /\ UNCHANGED <<searching, r_target, walk, reported, declined,
                          before, entered>>
           /\ walk # <<>> /\ Len(walk) \in Nat /\ Len(walk) >= 1
           /\ pc # "assigned" => torn' = torn
           /\ pc = "assigned" => p_node \notin open
           /\ pc = "assigned" /\ p_node \in entered => torn' # {} /\ declined = {}
           /\ torn' = {} => torn = {}
           /\ \A D : Done(D) => D \subseteq Nodes'
           /\ \A D : Done(D) /\ torn' = {} => D \subseteq entered'
           /\ \A j \in 1 .. Len(walk) : spot(j) \in Homes /\ spot(j)[1] \in open
  <1>1. /\ CallIndex /\ searching = "callback" /\ TreeInv' /\ ~ Dead' /\ Untorn'
        /\ WalkInv /\ TreeInv /\ ShapeInv /\ ShapeInv' /\ TypeOK /\ TypeOK'
    BY DEF Undisturbed, SearchedInv, WalkInv, TreeInv, OccupiedInv, ShapeInv
  <1>2. /\ Next
        /\ UNCHANGED <<searching, r_target, walk, reported, declined,
                       before, entered>>
        /\ torn' = IF pc = "assigned" /\ p_node \in entered
                     THEN torn \cup {IF p_node \in open THEN "open" ELSE "left"}
                     ELSE torn
    BY <1>1 DEF CallIndex
  <1>3. ~ Dead
    <2> SUFFICES ASSUME Dead PROVE FALSE
      OBVIOUS
    <2>1. pc' = pc
      <3>1. CASE Stopped
        BY <3>1 DEF Stopped, vars
      <3>2. CASE \E a_box \in Boxes : Insert(a_box)
        BY <3>2 DEF Insert, Dead
      <3>3. CASE SplitStep
        BY <3>3, SplitStepFrame DEF Dead
      <3> QED
        BY <1>2, <3>1, <3>2, <3>3
        DEF Next, InsertStep, Dead, Descend, DescendNowhere, AddToLeaf,
            AllocateSibling, FillNext, FillDone, ReturnUnsplit, ReturnSplit,
            DanglingRead, Finish
    <2> QED
      BY <1>1, <2>1 DEF Dead
  <1>4. /\ "open" \notin torn /\ (torn = {} \/ declined = {})
        /\ torn' = {} => torn = {}
        /\ pc = "assigned" /\ p_node \in entered => torn' # {} /\ declined = {}
        /\ pc = "assigned" /\ p_node \in entered => p_node \notin open
    BY <1>1, <1>2 DEF Untorn
  <1>5. PathOpen /\ \E D : Done(D)
    BY <1>1, <1>3, <1>4 DEF SearchedInv, Untorn
  <1>6. /\ walk # <<>> /\ Len(walk) \in Nat /\ Len(walk) >= 1 /\ open \subseteq entered
        /\ open = {walk[j].p_node : j \in 1 .. Len(walk)}
    BY <1>1, WalkFacts DEF WalkInv, WalkShape
  <1>7. Nodes \subseteq Nodes'
    <2>1. Extends(heap, heap')
      BY <1>1, <1>2, NextExtends
    <2>2. Len(heap) \in Nat /\ Len(heap') \in Nat
      BY <1>1 DEF TypeOK
    <2> QED
      BY <2>1, <2>2 DEF Extends, Nodes
  <1>8. \A D : Done(D) => D \subseteq Nodes'
    BY <1>7 DEF Done
  <1>9. \A D : Done(D) /\ torn' = {} => D \subseteq entered'
    BY <1>2, <1>4 DEF Done
  <1>10. \A j \in 1 .. Len(walk) : spot(j) \in Homes /\ spot(j)[1] \in open
    <2>1. \A j \in 1 .. Len(walk) : j \in 1 .. Len(walk) - 1 \/ j = Len(walk)
      BY <1>6
    <2> QED
      BY <1>1, <1>5, <1>6, <2>1 DEF PathOpen, spot
  <1> QED
    BY <1>1, <1>2, <1>3, <1>4, <1>5, <1>6, <1>8, <1>9, <1>10, HomeFacts, HomeFactsNext

\* A step that leaves every entry in its place.
LEMMA StaySearched ==
    ASSUME SearchedInv, Undisturbed, pc # "assigned", pc' # "fill", m_root' = m_root,
           NEW Extra, NEW Changed, Moves([h \in Homes |-> h], Extra, Changed),
           \A h \in Changed \cap Homes : held(h).m_data = NoData,
           Buffered = {} \/ p_node' = p_node,
           Pending' => /\ p_node' = p_node
                       /\ \/ Pending /\ m_nodeBuffer' = m_nodeBuffer
                          \/ pc = "fill" /\ m_nodeBuffer' = t_node,
           NEW D, Done(D), \A k \in Extra : Behind(D, k)' => Fine(D, k)'
    PROVE  PathOpen' /\ \E E : Done(E)'
  <1>1. /\ WalkInv /\ ShapeInv /\ TypeOK /\ TypeOK' /\ HomesTyped /\ HomesTyped'
        /\ PathOpen /\ searching = "callback" /\ walk # <<>>
        /\ UNCHANGED <<searching, r_target, walk, reported, declined, before, entered>>
        /\ \A j \in 1 .. Len(walk) : spot(j) \in Homes
        /\ D \subseteq Nodes' /\ (torn' = {} => D \subseteq entered')
    BY CallFacts DEF Undisturbed
  <1>2. Settled(D)'
    BY <1>1, SettledStays DEF Done
  <1>3. PathOpen'
    <2>1. Homes' \ Extra = Homes
      BY DEF Moves
    <2>2. PICK origin : origin = [h \in Homes |-> h]
      OBVIOUS
    <2>3. \A j \in 1 .. Len(walk) :
            spot(j) \in Homes' \ Extra /\ origin[spot(j)] = spot(j)
      BY <1>1, <2>1, <2>2
    <2>4. Pending' => p_node' \notin open
      BY <1>1 DEF PathOpen
    <2>5. Moves(origin, Extra, Changed)
      BY <2>2
    <2> QED
      BY <1>1, <2>3, <2>4, <2>5, PathMoves
  <1>4. Together(D)'
    BY DEF Together, Done
  <1> QED
    BY <1>1, <1>2, <1>3, <1>4 DEF Done

\* A step that moves no entry at all.
LEMMA SameSearched ==
    ASSUME SearchedInv, Undisturbed, pc # "assigned", pc' # "fill", m_root' = m_root,
           heap' = heap, Buffered' = Buffered,
           \A i \in Buffered : t_overflowBuffer'[i] = t_overflowBuffer[i],
           Buffered = {} \/ p_node' = p_node,
           Pending' => /\ p_node' = p_node
                       /\ \/ Pending /\ m_nodeBuffer' = m_nodeBuffer
                          \/ pc = "fill" /\ m_nodeBuffer' = t_node
    PROVE  PathOpen' /\ \E E : Done(E)'
  <1>1. TypeOK /\ TypeOK' /\ \E D : Done(D)
    BY CallFacts
  <1>2. PICK D : Done(D)
    BY <1>1
  <1>3. Moves([h \in Homes |-> h], {}, {})
    BY <1>1, SameHomes
  <1> QED
    BY <1>2, <1>3, StaySearched

\* The new entry has a number that the search is not due to report.
LEMMA AddToLeafSearched ==
    ASSUME SearchedInv, Undisturbed, AddToLeaf
    PROVE  PathOpen' /\ \E E : Done(E)'
  <1>1. /\ ShapeInv /\ ShapeInv' /\ WalkInv /\ \E D : Done(D)
        /\ UNCHANGED <<r_target, reported, before>>
    BY CallFacts
  <1>2. PICK D : Done(D)
    BY <1>1
  <1>3. PICK x : held(x)' = r_subNode /\ Moves([k \in Homes |-> k], {x}, {})
    BY <1>1, AddToLeafMoves
  <1>4. /\ pc = "insert" /\ pc' # "fill" /\ pc' # "assigned" /\ ~ Pending'
        /\ m_root' = m_root /\ p_node' = p_node
    BY DEF AddToLeaf, AddSubNode, StartSplit, Pending
  <1>5. r_subNode.m_child = nullptr /\ ~ (r_subNode.m_data <= before)
    <2>1. NewEntry /\ before \in Nat /\ m_size \in Nat /\ before <= m_size
      BY <1>1, <1>4, MaxInsertsAssumption
      DEF ShapeInv, Shape, Active, WalkInv, WalkShape, TypeOK
    <2> QED
      BY <2>1 DEF NewEntry
  <1>6. Fine(D, x)'
    BY <1>1, <1>3, <1>5 DEF Fine, Unseen
  <1> QED
    BY <1>2, <1>3, <1>4, <1>6, StaySearched

\* The box of a child grows, which is no entry.
LEMMA ReturnUnsplitSearched ==
    ASSUME SearchedInv, Undisturbed, ReturnUnsplit
    PROVE  PathOpen' /\ \E E : Done(E)'
  <1>1. ShapeInv /\ ShapeInv' /\ \E D : Done(D)
    BY CallFacts
  <1>2. PICK D : Done(D)
    BY <1>1
  <1>3. PICK at_ : Moves([h \in Homes |-> h], {}, {at_}) /\ held(at_).m_data = NoData
    BY <1>1, ReturnUnsplitMoves
  <1>4. /\ pc = "return" /\ pc' = "return" /\ ~ Pending' /\ m_root' = m_root
        /\ Buffered = {}
    BY DEF ReturnUnsplit, Pending, Buffered, Splitting
  <1> QED
    BY <1>2, <1>3, <1>4, StaySearched

\* The link to the new sibling stands behind the loops, or in a node the
\* search is done with, and then it is done with the sibling, too.
LEMMA ReturnSplitSearched ==
    ASSUME SearchedInv, Undisturbed, ReturnSplit
    PROVE  PathOpen' /\ \E E : Done(E)'
  <1>1. /\ ShapeInv /\ ShapeInv' /\ WalkInv /\ PathOpen /\ \E D : Done(D)
        /\ UNCHANGED <<walk, r_target, reported, before>>
        /\ HomesTyped /\ HomesTyped' /\ TypeOK
        /\ \A j \in 1 .. Len(walk) : spot(j) \in Homes
        /\ walk # <<>> /\ searching = "callback" /\ Len(walk) \in Nat
    BY CallFacts DEF Undisturbed
  <1>2. PICK D : Done(D)
    BY <1>1
  <1>3. /\ caller.p_node \in Nodes
        /\ (pc' = "return" /\ splited' = FALSE) \/ pc' = "seed"
    BY <1>1, ReturnSplitMoves
  <1>4. PICK x, e, at_ :
          /\ x \notin Homes /\ Homes' = Homes \cup {x} /\ held(x)' = e
          /\ Lands(x, caller.p_node)
          /\ Moves([k \in Homes |-> k], {x}, {at_})
          /\ at_ = <<caller.p_node, caller.index>> /\ held(at_).m_data = NoData
          /\ e.m_child = m_nodeBuffer /\ e.m_data = NoData
    BY <1>1, ReturnSplitMoves
  <1>5. /\ pc = "return" /\ splited /\ frames # <<>> /\ m_root' = m_root
        /\ p_node' = caller.p_node /\ Buffered = {}
    BY DEF ReturnSplit, Buffered, Splitting
  <1>6. /\ pc' # "fill" /\ ~ Pending' /\ Pending /\ Active
    BY <1>3, <1>5 DEF Pending, Active
  <1>7. at_ \in Homes /\ held(at_).m_child = p_node /\ m_nodeBuffer \in Nodes
    BY <1>1, <1>4, <1>5, <1>6, CallerHome DEF ShapeInv, Shape
  <1>8. ASSUME caller.p_node \in D
        PROVE  m_nodeBuffer \in D
    <2>1. caller.p_node # 0 /\ p_node # nullptr
      BY <1>1, <1>3, <1>6 DEF Nodes, ShapeInv, Shape, Path, nullptr
    <2>2. Behind(D, at_)
      BY <1>4, <1>8, <2>1 DEF Behind, owner
    <2>3. p_node \in D
      BY <1>2, <1>7, <2>1, <2>2 DEF Done, Settled, Fine
    <2> QED
      BY <1>2, <1>6, <2>3 DEF Done, Together
  <1>9. Passed(x)' => FALSE
    <2> SUFFICES ASSUME Passed(x)' PROVE FALSE
      OBVIOUS
    <2>1. PICK j \in 1 .. Len(walk) : walk[j].p_node = x[1] /\ x[2] < walk[j].i
      BY <1>1 DEF Passed
    <2>2. PICK n \in Nodes, i \in Nat : n = walk[j].p_node /\ i = walk[j].i
      BY <1>1, WalkFacts DEF WalkInv, WalkShape
    <2>3. x = <<n, csize(n)>>
      <3>1. n # 0
        BY DEF Nodes
      <3> QED
        BY <1>4, <2>1, <2>2, <3>1 DEF Lands
    <2>4. <<n, i>> \in Homes
      BY <1>1, <2>2 DEF spot
    <2>5. i < csize(n) /\ csize(n) < i /\ csize(n) \in Nat
      <3>1. n # 0
        BY DEF Nodes
      <3> QED
        BY <1>1, <2>1, <2>2, <2>3, <2>4, <3>1, SizeFacts DEF HomesTyped, SizesTyped
    <2> QED
      BY <2>5
  <1>10. ASSUME Behind(D, x)'
         PROVE  Fine(D, x)'
    <2>1. owner(x)' \in D
      BY <1>9, <1>10 DEF Behind
    <2>2. owner(x)' = caller.p_node
      BY <1>4, <1>5 DEF owner, Lands
    <2>3. e.m_child \in D /\ e.m_child # nullptr
      BY <1>4, <1>7, <1>8, <2>1, <2>2 DEF Nodes, nullptr
    <2> QED
      BY <1>4, <2>3 DEF Fine, Unseen
  <1> QED
    BY <1>2, <1>4, <1>5, <1>6, <1>10, StaySearched

\* The node to be split is emptied.  No loop is over it; if the search is done
\* with it, it is done with its sibling.
LEMMA AllocateSiblingSearched ==
    ASSUME SearchedInv, Undisturbed, AllocateSibling
    PROVE  PathOpen' /\ \E E : Done(E)'
  <1>1. /\ ShapeInv /\ ShapeInv' /\ TypeOK /\ TypeOK' /\ WalkInv
        /\ PathOpen /\ \E D : Done(D) /\ HomesTyped /\ HomesTyped'
        /\ UNCHANGED <<searching, walk, r_target, reported, declined, before, entered>>
        /\ \A j \in 1 .. Len(walk) : spot(j) \in Homes /\ spot(j)[1] \in open
        /\ walk # <<>> /\ searching = "callback"
        /\ torn' = {} => torn = {}
    BY CallFacts DEF Undisturbed
  <1>2. PICK D : Done(D) /\ D \subseteq Nodes' /\ (torn' = {} => D \subseteq entered')
    BY CallFacts
  <1>3. /\ pc = "assigned" /\ pc' = "fill" /\ p_node' = p_node /\ m_root' = m_root
        /\ p_node \notin open /\ (p_node \in entered => torn' # {} /\ declined = {})
    BY CallFacts DEF AllocateSibling
  <1>4. PICK new : /\ new = Len(heap) + 1 /\ new \in Nodes' /\ new \notin Nodes
                   /\ t_node' = new /\ p_node \in Nodes
    <2>1. Len(heap) \in Nat /\ Len(heap') = Len(heap) + 1
      BY <1>1 DEF AllocateSibling, TypeOK
    <2>2. p_node \in Nodes
      BY <1>1, <1>3 DEF ShapeInv, Shape, Active, Splitting, Path
    <2> QED
      BY <2>1, <2>2 DEF Nodes, t_node
  <1>5. PICK origin :
          /\ Moves(origin, {}, {})
          /\ \A k \in Homes' : \/ origin[k] = k
                               \/ k[1] = 0 /\ origin[k][1] = p_node
    BY <1>1, <1>3, AllocateSiblingMoves
  <1>6. open \subseteq Nodes /\ p_node # 0 /\ D \subseteq Nodes
        /\ (torn = {} => D \subseteq entered)
    BY <1>1, <1>2, <1>4 DEF WalkInv, WalkShape, Nodes, Done
  <1>7. ASSUME NEW g \in Homes, g[1] # p_node
        PROVE  g \in Homes' /\ origin[g] = g
    BY <1>5, <1>7 DEF Moves
  <1>8. PICK E : E = IF p_node \in D THEN D \cup {new} ELSE D
    OBVIOUS
  <1>9. \A k \in Homes' : owner(k)' = IF k[1] = 0 THEN p_node ELSE k[1]
    BY <1>3 DEF owner
  <1>10. ASSUME NEW k \in Homes', Behind(E, k)'
         PROVE  Behind(D, origin[k])
    <2>1. PICK h \in Homes : h = origin[k]
      BY <1>5 DEF Moves
    <2>2. CASE h = k
      <3>1. k[1] \in Nodes \/ k[1] = 0
        BY <2>2 DEF Homes, Places
      <3>2. owner(k)' = owner(k) /\ (Passed(k)' <=> Passed(k))
        BY <1>1, <1>3 DEF owner, Passed
      <3>3. owner(k)' \in Nodes
        BY <1>4, <1>9, <3>1
      <3> QED
        BY <1>4, <1>8, <1>10, <2>1, <2>2, <3>2, <3>3 DEF Behind
    <2>3. CASE k[1] = 0 /\ h[1] = p_node
      <3>1. ~ Passed(k)'
        BY <1>1, <2>3, WalkFacts DEF Passed, WalkInv, WalkShape, Nodes
      <3>2. owner(k)' = p_node /\ owner(h) = p_node
        BY <1>3, <1>6, <2>3 DEF owner
      <3>3. p_node \in D
        BY <1>4, <1>8, <1>10, <3>1, <3>2 DEF Behind
      <3> QED
        BY <2>1, <3>2, <3>3 DEF Behind
    <2> QED
      BY <1>5, <2>1, <2>2, <2>3
  <1>11. ASSUME NEW k \in Homes', Behind(E, k)', Explained(origin[k])
         PROVE  /\ origin[k] = k
                /\ \A s : <<k[1], s>> \in Homes =>
                     <<k[1], s>> \in Homes' /\ origin[<<k[1], s>>] = <<k[1], s>>
    <2>1. PICK h \in Homes : h = origin[k]
      BY <1>5 DEF Moves
    <2>2. declined # {}
      BY <1>11, <2>1 DEF Explained
    <2>3. p_node \notin D
      <3>1. p_node \notin entered /\ torn' = {}
        BY <1>3, <2>2, <1>1 DEF Undisturbed, Untorn
      <3> QED
        BY <1>1, <1>6, <3>1
    <2>4. h[1] # p_node
      <3>1. Behind(D, h) /\ (h[1] = p_node => ~ Passed(h))
        BY <1>1, <1>3, <1>10, <1>11, <2>1, WalkFacts DEF Passed, WalkInv, WalkShape
      <3> QED
        BY <1>6, <2>3, <3>1 DEF Behind, owner
    <2>5. h = k
      BY <1>5, <2>1, <2>4
    <2> QED
      BY <1>7, <2>1, <2>4, <2>5
  <1>12. Settled(E)'
    <2>1. Homes' \ {} = Homes' /\ D \subseteq E /\ Settled(D)
      BY <1>2, <1>8 DEF Done
    <2> QED
      BY <1>1, <1>5, <1>10, <1>11, <2>1, SettledMoves
  <1>13. PathOpen'
    <2>1. \A j \in 1 .. Len(walk) :
            spot(j) \in Homes' \ {} /\ origin[spot(j)] = spot(j)
      BY <1>1, <1>3, <1>7
    <2>2. p_node' \notin open /\ t_node' \notin open /\ ~ Pending'
      BY <1>3, <1>4, <1>6 DEF Pending
    <2> QED
      BY <1>1, <1>3, <1>5, <2>1, <2>2, PathMoves
  <1>14. E \subseteq Nodes' /\ (torn' = {} => E \subseteq entered')
    <2>1. torn' = {} => p_node \notin D
      BY <1>1, <1>3, <1>6
    <2> QED
      BY <1>2, <1>4, <1>8, <2>1
  <1>15. Together(E)'
    <2>1. new \in E <=> p_node \in E
      BY <1>4, <1>6, <1>8
    <2> QED
      BY <1>3, <1>4, <2>1 DEF Together, Pending
  <1> QED
    BY <1>1, <1>12, <1>13, <1>14, <1>15 DEF Done

\* The entries go back into the two halves, over which no loop is.
LEMMA FillNextSearched ==
    ASSUME SearchedInv, Undisturbed, FillNext
    PROVE  PathOpen' /\ \E E : Done(E)'
  <1>1. /\ ShapeInv /\ ShapeInv' /\ TypeOK /\ TypeOK' /\ WalkInv /\ OccupiedInv
        /\ PathOpen /\ \E D : Done(D) /\ HomesTyped /\ HomesTyped'
        /\ UNCHANGED <<searching, walk, r_target, reported, declined, before, entered>>
        /\ \A j \in 1 .. Len(walk) : spot(j) \in Homes /\ spot(j)[1] \in open
        /\ walk # <<>> /\ searching = "callback"
    BY CallFacts DEF Undisturbed, TreeInv
  <1>2. PICK D : Done(D) /\ D \subseteq Nodes' /\ (torn' = {} => D \subseteq entered')
    BY CallFacts
  <1>3. /\ pc = "fill" /\ pc' = "fill" /\ p_node' = p_node /\ m_root' = m_root
        /\ t_node' = t_node
    BY <1>1, FillNextMoves DEF FillNext
  <1>4. PICK origin :
          /\ Moves(origin, {}, {})
          /\ \A k \in Homes' : \/ origin[k] = k
                               \/ origin[k][1] = 0 /\ k[1] \in {p_node, t_node}
    BY <1>1, FillNextMoves
  <1>5. /\ p_node \notin open /\ t_node \notin open /\ (t_node \in D <=> p_node \in D)
        /\ open \subseteq Nodes
    BY <1>1, <1>2, <1>3 DEF PathOpen, Done, Together, WalkInv, WalkShape
  <1>6. ASSUME NEW g \in Homes, g[1] # 0
        PROVE  g \in Homes' /\ origin[g] = g
    BY <1>4, <1>6 DEF Moves
  <1>7. \A k : owner(k)' = owner(k) /\ (Passed(k)' <=> Passed(k))
    BY <1>1, <1>3 DEF owner, Passed
  <1>8. ASSUME NEW k \in Homes', Behind(D, k)'
        PROVE  Behind(D, origin[k])
    <2>1. PICK h \in Homes : h = origin[k]
      BY <1>4 DEF Moves
    <2>2. Behind(D, k)
      BY <1>7, <1>8 DEF Behind
    <2>3. CASE h = k
      BY <2>1, <2>2, <2>3
    <2>4. CASE h[1] = 0 /\ k[1] \in {p_node, t_node}
      <3>1. ~ Passed(k) /\ k[1] # 0
        <4>1. p_node \in Nodes /\ t_node \in Nodes
          BY <1>1, <1>3, FrameFields DEF ShapeInv, Shape, Active, Path, t_node, Nodes
        <4> QED
          BY <1>1, <1>5, <2>4, <4>1, WalkFacts DEF Passed, WalkInv, WalkShape, Nodes
      <3>2. owner(h) = p_node /\ owner(k) = k[1]
        BY <2>4, <3>1 DEF owner
      <3>3. p_node \in D
        BY <1>5, <2>2, <2>4, <3>1, <3>2 DEF Behind
      <3> QED
        BY <2>1, <3>2, <3>3 DEF Behind
    <2> QED
      BY <1>4, <2>1, <2>3, <2>4
  <1>9. ASSUME NEW k \in Homes', Explained(origin[k])
        PROVE  /\ origin[k] = k
               /\ \A s : <<k[1], s>> \in Homes =>
                    <<k[1], s>> \in Homes' /\ origin[<<k[1], s>>] = <<k[1], s>>
    <2>1. PICK h \in Homes : h = origin[k]
      BY <1>4 DEF Moves
    <2>2. h = k /\ k[1] # 0
      BY <1>4, <1>9, <2>1 DEF Explained
    <2> QED
      BY <1>6, <2>1, <2>2
  <1>10. Settled(D)'
    <2>1. Homes' \ {} = Homes' /\ Settled(D)
      BY <1>2 DEF Done
    <2> QED
      BY <1>1, <1>4, <1>8, <1>9, <2>1, SettledMoves
  <1>11. PathOpen'
    <2>1. \A j \in 1 .. Len(walk) :
            spot(j) \in Homes' \ {} /\ origin[spot(j)] = spot(j)
      <3>1. \A j \in 1 .. Len(walk) : spot(j)[1] # 0
        BY <1>1, <1>5 DEF Nodes
      <3> QED
        BY <1>1, <1>6, <3>1
    <2>2. p_node' \notin open /\ t_node' \notin open /\ ~ Pending'
      BY <1>3, <1>5 DEF Pending
    <2> QED
      BY <1>1, <1>3, <1>4, <2>1, <2>2, PathMoves
  <1>12. Together(D)'
    BY <1>3, <1>5 DEF Together, Pending
  <1> QED
    BY <1>1, <1>2, <1>10, <1>11, <1>12 DEF Done

\* The call returns.  The root is not replaced: a loop is over it, and no such
\* node was split.
LEMMA FinishSearched ==
    ASSUME SearchedInv, Undisturbed, Finish
    PROVE  PathOpen' /\ \E E : Done(E)'
  <1>1. /\ PathOpen /\ ShapeInv /\ walk # <<>> /\ Len(walk) >= 1 /\ WalkInv
        /\ Len(walk) \in Nat
    BY CallFacts
  <1>2. /\ pc = "return" /\ frames = <<>> /\ pc' = "idle" /\ Buffered = {}
        /\ Buffered' = {} /\ ~ Pending'
    BY DEF Finish, Buffered, Splitting, Pending
  <1>3. ~ splited
    <2> SUFFICES ASSUME splited PROVE FALSE
      OBVIOUS
    <2>1. p_node \notin open
      BY <1>1, <1>2 DEF PathOpen, Pending
    <2>2. walk[1].p_node = m_root /\ walk[1].p_node \in open
      BY <1>1, WalkFacts DEF PathOpen, WalkInv, WalkShape
    <2>3. p_node = m_root
      <3>1. Len(frames) = 0
        BY <1>2
      <3> QED
        BY <1>1, <1>2, <3>1 DEF ShapeInv, Shape, Active, Path, node
    <2> QED
      BY <2>1, <2>2, <2>3
  <1>4. heap' = heap /\ m_root' = m_root
    BY <1>3 DEF Finish
  <1> QED
    BY <1>2, <1>4, SameSearched

LEMMA CallSearched ==
    ASSUME SearchedInv, Undisturbed
    PROVE  PathOpen' /\ \E E : Done(E)'
  <1>0. Next /\ ~ Dead /\ ~ Dead'
    BY CallFacts DEF Undisturbed
  <1>1. ASSUME NEW a_box \in Boxes, Insert(a_box)
        PROVE  PathOpen' /\ \E E : Done(E)'
    <2>1. /\ pc = "idle" /\ pc' = "insert" /\ heap' = heap /\ m_root' = m_root
          /\ ~ Pending' /\ Buffered = {} /\ Buffered' = {}
      BY <1>1 DEF Insert, indexVars, Pending, Buffered, Splitting
    <2> QED
      BY <2>1, SameSearched
  <1>2. CASE Descend
    <2>1. /\ pc = "insert" /\ pc' = "insert" /\ heap' = heap /\ m_root' = m_root
          /\ ~ Pending' /\ Buffered = {} /\ Buffered' = {}
      BY <1>2 DEF Descend, indexVars, Pending, Buffered, Splitting
    <2> QED
      BY <2>1, SameSearched
  <1>3. CASE AddToLeaf
    BY <1>3, AddToLeafSearched
  <1>4. CASE SplitStep /\ UNCHANGED <<indexVars, callVars>>
    <2>1. /\ heap' = heap /\ m_root' = m_root /\ t_overflowBuffer' = t_overflowBuffer
          /\ p_node' = p_node /\ pc \in {"seed", "deal", "rest", "check"}
          /\ pc' \in {"deal", "rest", "check", "assigned"}
      BY <1>0, <1>4, SplitStepFrame DEF indexVars, callVars, Dead
    <2>2. Buffered' = Buffered /\ ~ Pending'
      BY <2>1 DEF Buffered, Splitting, Pending
    <2> QED
      BY <2>1, <2>2, SameSearched
  <1>5. CASE AllocateSibling
    BY <1>5, AllocateSiblingSearched
  <1>6. CASE FillNext
    BY <1>6, FillNextSearched
  <1>7. CASE FillDone
    <2>1. /\ pc = "fill" /\ pc' = "return" /\ next = Size /\ heap' = heap
          /\ m_nodeBuffer' = t_node /\ m_root' = m_root /\ p_node' = p_node
      BY <1>7 DEF FillDone
    <2>2. Buffered = {} /\ Buffered' = {}
      BY <2>1, SlotFacts DEF Buffered, Splitting
    <2> QED
      BY <2>1, <2>2, SameSearched
  <1>8. CASE ReturnUnsplit
    BY <1>8, ReturnUnsplitSearched
  <1>9. CASE ReturnSplit
    BY <1>9, ReturnSplitSearched
  <1>10. CASE Finish
    BY <1>10, FinishSearched
  <1>11. CASE DescendNowhere \/ DanglingRead
    BY <1>0, <1>11 DEF DescendNowhere, DanglingRead, Dead
  <1>12. CASE Stopped
    <2>1. /\ pc = "idle" /\ pc' = "idle" /\ heap' = heap /\ m_root' = m_root
          /\ Buffered = {} /\ Buffered' = {} /\ ~ Pending'
      BY <1>0, <1>12 DEF Stopped, vars, indexVars, Buffered, Splitting, Pending
    <2> QED
      BY <2>1, SameSearched
  <1> QED
    BY <1>0, <1>1, <1>2, <1>3, <1>4, <1>5, <1>6, <1>7, <1>8, <1>9, <1>10, <1>11,
       <1>12 DEF Next, InsertStep
-----------------------------------------------------------------------------
\* Between two calls of the index every entry is in a node.
LEMMA IdleFacts ==
    ASSUME WalkInv, pc = "idle"
    PROVE  /\ ShapeInv /\ TypeOK /\ HomesTyped /\ Buffered = {} /\ ~ Pending
           /\ \A D : Together(D)
           /\ \A h \in Homes :
                /\ owner(h) = h[1] /\ h[1] # 0 /\ h[1] \in Nodes /\ h[2] \in Slots
                /\ h[2] \in Nat /\ h[2] < csize(h[1]) /\ h = <<h[1], h[2]>>
                /\ held(h) \in SubNode
  <1>1. /\ ShapeInv /\ TypeOK /\ HomesTyped
    BY HomeFacts DEF WalkInv, TreeInv, OccupiedInv, ShapeInv
  <1>2. Buffered = {} /\ ~ Pending /\ \A D : Together(D)
    BY DEF Buffered, Splitting, Pending, Together
  <1>3. ASSUME NEW h \in Homes
        PROVE  /\ owner(h) = h[1] /\ h[1] # 0 /\ h[1] \in Nodes /\ h[2] \in Slots
               /\ h[2] \in Nat /\ h[2] < csize(h[1]) /\ h = <<h[1], h[2]>>
               /\ held(h) \in SubNode
    <2>1. PICK n, s : h = <<n, s>>
      BY <1>1 DEF HomesTyped
    <2>2. n \in Nodes /\ s \in Slots /\ s < csize(n) /\ n # 0 /\ held(h) \in SubNode
      BY <1>1, <1>2, <2>1 DEF HomesTyped
    <2>3. s \in Nat
      BY <2>2, SlotFacts
    <2> QED
      BY <2>1, <2>2, <2>3 DEF owner
  <1> QED
    BY <1>1, <1>2, <1>3

LEMMA IdleStays ==
    ASSUME WalkInv, pc = "idle", UNCHANGED vars
    PROVE  /\ pc' = "idle" /\ Nodes' = Nodes /\ m_root' = m_root /\ Homes' = Homes
           /\ \A h \in Homes : held(h)' = held(h) /\ owner(h)' = h[1]
           /\ \A n : csize(n)' = csize(n)
           /\ \A D : Together(D)'
           /\ ~ Pending'
  <1>1. /\ UNCHANGED <<pc, heap, m_root, t_overflowBuffer, next>> /\ TypeOK
        /\ Buffered = {}
    BY IdleFacts DEF vars, splitVars, indexVars, callVars
  <1>2. Buffered' = {} /\ ~ Pending' /\ \A D : Together(D)'
    BY <1>1 DEF Buffered, Splitting, Pending, Together
  <1>3. TypeOK'
    BY <1>1 DEF TypeOK, vars, splitVars, indexVars, callVars, LocalsOK, Nodes
  <1>4. Homes' = Homes /\ \A h \in Homes : held(h)' = held(h)
    BY <1>1, <1>2, <1>3, SameHomes
  <1>5. \A h \in Homes : owner(h)' = h[1]
    BY IdleFacts DEF owner
  <1> QED
    BY <1>1, <1>2, <1>4, <1>5 DEF Nodes, csize

\* A step of the search keeps what it has done, when it puts nothing behind
\* itself that it has missed.
LEMMA WalkSettled ==
    ASSUME WalkInv, pc = "idle", UNCHANGED <<vars, r_target, before>>,
           ToSet(reported) \subseteq ToSet(reported'), declined \subseteq declined',
           NEW D, NEW E, D \subseteq E, Settled(D),
           \A h \in Homes : Behind(E, h)' => Behind(D, h) \/ Fine(E, h)'
    PROVE  Settled(E)'
  <1>1. Homes' = Homes /\ \A h \in Homes : held(h)' = held(h)
    BY IdleStays
  <1> SUFFICES ASSUME NEW h \in Homes, Behind(D, h)
               PROVE  Fine(E, h)'
    BY <1>1 DEF Settled
  <1>2. Fine(D, h) /\ held(h)' = held(h)
    BY <1>1 DEF Settled
  <1>3. Unseen(h)' => Unseen(h)
    BY <1>2 DEF Unseen
  <1>4. Explained(h) => Explained(h)'
    <2> SUFFICES ASSUME Explained(h) PROVE Explained(h)'
      OBVIOUS
    <2>1. PICK s \in Slots : /\ h[1] # 0 /\ s < h[2] /\ <<h[1], s>> \in Homes
                             /\ held(<<h[1], s>>) \in declined
      BY DEF Explained
    <2>2. PICK g \in Homes : g = <<h[1], s>>
      BY <2>1
    <2>3. g \in Homes' /\ held(g)' \in declined'
      BY <1>1, <2>1, <2>2
    <2> QED
      BY <2>1, <2>2, <2>3 DEF Explained
  <1> QED
    BY <1>2, <1>3, <1>4 DEF Fine

\* The innermost loop goes on, past an entry that is not due to be reported,
\* or has been.
LEMMA AdvanceSearched ==
    ASSUME WalkInv, PathOpen, NEW D, Done(D), pc = "idle",
           UNCHANGED <<vars, historyVars, reported, declined, r_target>>,
           searching' = "walk", walk # <<>>, walk' = Resumed(walk),
           spot(Len(walk)) \in Homes, held(spot(Len(walk))).m_child = nullptr,
           ~ Unseen(spot(Len(walk)))
    PROVE  PathOpen' /\ Done(D)'
  <1>1. /\ Advances /\ Len(walk) \in Nat /\ Len(walk) >= 1 /\ walk' # <<>>
        /\ walk' \in Seq(Loops)
        /\ \A j \in 1 .. Len(walk) : walk[j].p_node \in Nodes /\ walk[j].i \in Nat
    <2>1. /\ Advances /\ walk' \in Seq(Loops) /\ Len(walk) \in Nat /\ Len(walk) >= 1
          /\ \A j \in 1 .. Len(walk) : walk[j].p_node \in Nodes /\ walk[j].i \in Nat
      BY AdvanceFacts, WalkFacts DEF WalkInv, WalkShape
    <2>2. walk' # <<>>
      BY <2>1 DEF Advances
    <2> QED
      BY <2>1, <2>2
  <1>2. PICK k \in Nat : k = Len(walk) /\ k = Len(walk') /\ k >= 1 /\ k \in 1 .. Len(walk)
    BY <1>1 DEF Advances
  <1>3. PICK n \in Nodes, i \in Nat :
          n = walk[k].p_node /\ i = walk[k].i /\ spot(k) = <<n, i>>
    BY <1>1, <1>2 DEF spot
  <1>4. /\ walk'[k].p_node = n /\ walk'[k].i = i + 1
        /\ \A j \in 1 .. k - 1 : spot(j)' = spot(j)
        /\ \A j \in 1 .. k : walk'[j].p_node = walk[j].p_node
        /\ \A j \in 1 .. k : j # k => walk'[j].i = walk[j].i
    BY <1>1, <1>2, <1>3 DEF Advances, spot
  <1>5. /\ Homes' = Homes /\ \A h \in Homes : held(h)' = held(h) /\ owner(h)' = h[1]
        /\ Nodes' = Nodes /\ pc' = "idle" /\ m_root' = m_root /\ ~ Pending'
        /\ csize(n)' = csize(n) /\ Together(D)'
    BY IdleStays
  <1>6. i < csize(n) /\ csize(n) \in Nat
    BY <1>2, <1>3, IdleFacts, SizeFacts DEF SizesTyped, HomesTyped
  <1>7. PathOpen'
    <2>1. /\ walk'[1].p_node = m_root'
          /\ n = walk'[k].p_node /\ walk'[k].i <= csize(n)'
      <3>1. walk'[1].p_node = walk[1].p_node
        BY <1>2, <1>4
      <3>2. i + 1 <= csize(n)
        BY <1>6
      <3> QED
        BY <1>4, <1>5, <3>1, <3>2 DEF PathOpen
    <2>2. ASSUME NEW j \in 1 .. k - 1
          PROVE  spot(j)' \in Homes' /\ held(spot(j))'.m_child = walk'[j + 1].p_node
      <3>1. PICK h \in Homes :
              h = spot(j) /\ h = spot(j)' /\ held(h).m_child = walk[j + 1].p_node
        BY <1>2, <1>4 DEF PathOpen
      <3>2. j + 1 \in 1 .. k
        BY <1>2
      <3> QED
        BY <1>4, <1>5, <3>1, <3>2
    <2> QED
      BY <1>2, <1>5, <2>1, <2>2 DEF PathOpen
  <1>8. ASSUME NEW h \in Homes, Behind(D, h)'
        PROVE  Behind(D, h) \/ Fine(D, h)'
    <2>1. owner(h) = h[1] /\ owner(h)' = h[1] /\ h = <<h[1], h[2]>> /\ h[2] \in Nat
      BY <1>5, IdleFacts
    <2>2. CASE Passed(h)'
      <3>1. PICK j \in 1 .. k : walk'[j].p_node = h[1] /\ h[2] < walk'[j].i
        BY <1>2, <2>2 DEF Passed
      <3>2. CASE j # k \/ h[2] # i
        <4>1. h[2] < walk[j].i
          BY <1>1, <1>2, <1>3, <1>4, <2>1, <3>1, <3>2
        <4> QED
          BY <1>2, <1>4, <3>1, <4>1 DEF Behind, Passed
      <3>3. CASE j = k /\ h[2] = i
        <4>1. h = spot(k)
          BY <1>3, <1>4, <2>1, <3>1, <3>3
        <4>2. held(h).m_child = nullptr /\ ~ Unseen(h) /\ held(h)' = held(h)
          BY <1>2, <1>5, <4>1
        <4> QED
          BY <4>2 DEF Fine, Unseen, historyVars
      <3> QED
        BY <3>2, <3>3
    <2>3. CASE owner(h)' \in D
      BY <2>1, <2>3 DEF Behind
    <2> QED
      BY <1>8, <2>2, <2>3 DEF Behind
  <1>9. Settled(D)'
    BY <1>8, WalkSettled DEF Done, historyVars
  <1> QED
    BY <1>1, <1>5, <1>7, <1>9 DEF Done, historyVars

\* The innermost loop ends, at a point where nothing that is due stands ahead,
\* unless behind a declined entry.  Its node is done with.
LEMMA LeaveSearched ==
    ASSUME WalkInv, PathOpen, NEW D, Done(D), pc = "idle",
           UNCHANGED <<vars, historyVars, reported, r_target>>,
           declined \subseteq declined', searching' = "walk", walk # <<>>,
           walk' = Resumed(Front(walk)), NEW n, n = walk[Len(walk)].p_node,
           \A h \in Homes : h[1] = n => Behind(D, h) \/ Fine(D, h)'
    PROVE  PathOpen' /\ \E E : Done(E)'
  <1>1. /\ Leaves /\ Len(walk) \in Nat /\ Len(walk) >= 1 /\ walk' \in Seq(Loops)
        /\ \A j \in 1 .. Len(walk) : walk[j].p_node \in Nodes /\ walk[j].i \in Nat
        /\ n \in Nodes /\ n \in entered
    <2>1. /\ Leaves /\ walk' \in Seq(Loops) /\ Len(walk) \in Nat /\ Len(walk) >= 1
          /\ \A j \in 1 .. Len(walk) : walk[j].p_node \in Nodes /\ walk[j].i \in Nat
          /\ open = {walk[j].p_node : j \in 1 .. Len(walk)} /\ open \subseteq entered
      BY LeaveFacts, WalkFacts DEF WalkInv, WalkShape
    <2>2. Len(walk) \in 1 .. Len(walk)
      BY <2>1
    <2> QED
      BY <2>1, <2>2
  <1>2. PICK k \in Nat : k = Len(walk) - 1 /\ k = Len(walk') /\ k + 1 = Len(walk)
    BY <1>1 DEF Leaves
  <1>3. /\ \A j \in 1 .. k : j \in 1 .. Len(walk) /\ j \in 1 .. Len(walk) - 1
        /\ \A j \in 1 .. k : walk'[j].p_node = walk[j].p_node
        /\ \A j \in 1 .. k : j # k => walk'[j].i = walk[j].i
        /\ k # 0 => k \in 1 .. k /\ 1 \in 1 .. k /\ walk'[k].i = walk[k].i + 1
        /\ \A j \in 1 .. k - 1 : spot(j)' = spot(j) /\ j \in 1 .. k /\ j + 1 \in 1 .. k
    BY <1>1, <1>2 DEF Leaves, spot
  <1>4. /\ Homes' = Homes /\ \A h \in Homes : held(h)' = held(h) /\ owner(h)' = h[1]
        /\ Nodes' = Nodes /\ pc' = "idle" /\ m_root' = m_root /\ ~ Pending'
        /\ \A m : csize(m)' = csize(m) /\ \A E : Together(E)'
    BY IdleStays
  <1>5. PathOpen'
    <2>1. ASSUME k # 0
          PROVE  \E m : /\ walk'[1].p_node = m_root'
                        /\ m = walk'[k].p_node /\ walk'[k].i <= csize(m)'
      <3>1. PICK m \in Nodes, i \in Nat :
              m = walk[k].p_node /\ i = walk[k].i /\ spot(k) = <<m, i>>
        BY <1>1, <1>3, <2>1 DEF spot
      <3>2. <<m, i>> \in Homes
        BY <1>3, <2>1, <3>1 DEF PathOpen
      <3>3. i < csize(m) /\ csize(m) \in Nat
        BY <3>1, <3>2, IdleFacts, SizeFacts DEF SizesTyped, HomesTyped
      <3>4. i + 1 <= csize(m)
        BY <3>3
      <3> QED
        BY <1>3, <1>4, <2>1, <3>1, <3>4 DEF PathOpen
    <2>2. ASSUME NEW j \in 1 .. k - 1
          PROVE  spot(j)' \in Homes' /\ held(spot(j))'.m_child = walk'[j + 1].p_node
      <3>1. PICK h \in Homes :
              h = spot(j) /\ h = spot(j)' /\ held(h).m_child = walk[j + 1].p_node
        BY <1>3 DEF PathOpen
      <3> QED
        BY <1>3, <1>4, <3>1
    <2>3. walk' # <<>> => k # 0
      BY <1>1, <1>2
    <2> QED
      BY <1>2, <1>4, <2>1, <2>2, <2>3 DEF PathOpen
  <1>6. PICK E : E = D \cup {n}
    OBVIOUS
  <1>7. ASSUME NEW h \in Homes, Behind(E, h)'
        PROVE  Behind(D, h) \/ Fine(E, h)'
    <2>1. owner(h) = h[1] /\ owner(h)' = h[1] /\ h = <<h[1], h[2]>> /\ h[2] \in Nat
      BY <1>4, IdleFacts
    <2>2. CASE Passed(h)'
      <3>1. PICK j \in 1 .. k : walk'[j].p_node = h[1] /\ h[2] < walk'[j].i
        BY <1>2, <2>2 DEF Passed
      <3>2. j \in 1 .. Len(walk) /\ k # 0 /\ walk[j].i \in Nat
        <4>1. k # 0
          OBVIOUS
        <4>2. j \in 1 .. Len(walk)
          BY <1>3
        <4> QED
          BY <1>1, <4>1, <4>2
      <3>3. CASE j # k \/ h[2] # walk[k].i
        <4>1. h[2] < walk[j].i
          BY <1>3, <2>1, <3>1, <3>2, <3>3
        <4> QED
          BY <1>3, <3>1, <3>2, <4>1 DEF Behind, Passed
      <3>4. CASE j = k /\ h[2] = walk[k].i
        <4>1. h = spot(k)
          BY <1>3, <2>1, <3>1, <3>4 DEF spot
        <4>2. held(h).m_child = n
          <5>1. k \in 1 .. Len(walk) - 1
            BY <1>3, <3>4
          <5>2. held(spot(k)).m_child = walk[k + 1].p_node
            BY <5>1 DEF PathOpen
          <5> QED
            BY <1>2, <4>1, <5>2
        <4>3. held(h)' = held(h) /\ n # nullptr
          BY <1>1, <1>4 DEF Nodes, nullptr
        <4> QED
          BY <1>6, <4>2, <4>3 DEF Fine, Unseen
      <3> QED
        BY <3>3, <3>4
    <2>3. CASE h[1] \in D
      BY <2>1, <2>3 DEF Behind
    <2>4. CASE h[1] = n
      BY <1>6, <2>4 DEF Fine
    <2> QED
      BY <1>6, <1>7, <2>1, <2>2, <2>3, <2>4 DEF Behind
  <1>8. Settled(E)'
    <2>1. D \subseteq E /\ Settled(D)
      BY <1>6 DEF Done
    <2> QED
      BY <1>7, <2>1, WalkSettled DEF historyVars
  <1>9. walk' = <<>> => m_root \in E
    <2> SUFFICES ASSUME walk' = <<>> PROVE m_root \in E
      OBVIOUS
    <2>1. Len(walk) = 1
      BY <1>1, <1>2
    <2> QED
      BY <1>6, <2>1 DEF PathOpen
  <1>10. E \subseteq Nodes' /\ (torn' = {} => E \subseteq entered') /\ Together(E)'
    BY <1>1, <1>4, <1>6 DEF Done, historyVars
  <1> QED
    BY <1>4, <1>5, <1>8, <1>9, <1>10 DEF Done

\* Where the innermost loop is, when it is at an entry.
LEMMA TopSpot ==
    ASSUME WalkInv, InLoop
    PROVE  /\ pc = "idle" /\ walk # <<>> /\ Len(walk) \in Nat /\ Len(walk) >= 1
           /\ walk[Len(walk)] = top /\ spot(Len(walk)) \in Homes
           /\ held(spot(Len(walk))) = topEntry
           /\ top.p_node \in Nodes /\ height(top.p_node) \in Nat
           /\ Fits(heap, topEntry, height(top.p_node))
  <1>1. pc = "idle" /\ walk # <<>> /\ top.i < csize(top.p_node)
    BY DEF InLoop, WalkInv, WalkShape, csize
  <1>2. Len(walk) \in Nat /\ Len(walk) >= 1
    BY <1>1, LoopFacts
  <1> QED
    BY <1>1, <1>2, TopFacts DEF spot

\* The entry goes to the callback, and is reported from then on.
LEMMA ProcessSearched ==
    ASSUME WalkInv, PathOpen, NEW D, Done(D), Process
    PROVE  PathOpen' /\ \E E : Done(E)'
  <1>1. /\ InLoop /\ reported' = Append(reported, topEntry)
        /\ UNCHANGED <<vars, r_target, walk, declined, historyVars>>
    BY DEF Process
  <1>2. /\ pc = "idle" /\ walk # <<>> /\ Len(walk) \in Nat /\ Len(walk) >= 1
        /\ spot(Len(walk)) \in Homes /\ held(spot(Len(walk))) = topEntry
    BY <1>1, TopSpot
  <1>3. /\ reported \in Seq(SubNode) /\ topEntry \in SubNode
    BY <1>2, IdleFacts DEF WalkInv, WalkShape
  <1>4. ToSet(reported) \subseteq ToSet(reported') /\ Last(reported') = topEntry
    <2>1. /\ Len(reported') = Len(reported) + 1 /\ Len(reported) \in Nat
          /\ \A j \in 1 .. Len(reported) : reported'[j] = reported[j]
          /\ reported'[Len(reported) + 1] = topEntry /\ reported' \in Seq(SubNode)
      BY <1>1, <1>3, AppendProperties
    <2>2. DOMAIN reported = 1 .. Len(reported) /\ DOMAIN reported' = 1 .. Len(reported')
      BY <1>3, <2>1
    <2> QED
      BY <2>1, <2>2 DEF ToSet, Last
  <1>5. /\ Homes' = Homes /\ \A h \in Homes : held(h)' = held(h) /\ owner(h)' = h[1]
        /\ Nodes' = Nodes /\ pc' = "idle" /\ m_root' = m_root /\ ~ Pending'
        /\ \A m : csize(m)' = csize(m) /\ Together(D)'
    BY <1>1, <1>2, IdleStays
  <1>6. \A j : spot(j)' = spot(j)
    BY <1>1 DEF spot
  <1>7. PathOpen'
    <2>1. \A j \in 1 .. Len(walk) - 1 :
            spot(j)' \in Homes' /\ held(spot(j))'.m_child = walk'[j + 1].p_node
      <3>1. ASSUME NEW j \in 1 .. Len(walk) - 1
            PROVE  spot(j)' \in Homes' /\ held(spot(j))'.m_child = walk'[j + 1].p_node
        <4>1. PICK h \in Homes :
                h = spot(j) /\ h = spot(j)' /\ held(h).m_child = walk[j + 1].p_node
          BY <1>6 DEF PathOpen
        <4> QED
          BY <1>1, <1>5, <4>1
      <3> QED
        BY <3>1
    <2>2. PICK h \in Homes : h = spot(Len(walk)) /\ h = spot(Len(walk))' /\ held(h) = topEntry
      BY <1>1, <1>2, <1>6
    <2>3. spot(Len(walk))' \in Homes' /\ held(spot(Len(walk)))' = Last(reported')
      BY <1>4, <1>5, <2>2
    <2>4. PICK n : n = walk[Len(walk)].p_node
      OBVIOUS
    <2>5. walk[Len(walk)].i <= csize(n)' /\ walk[1].p_node = m_root'
      BY <1>2, <1>5, <2>4 DEF PathOpen
    <2> QED
      BY <1>1, <1>5, <2>1, <2>3, <2>4, <2>5 DEF PathOpen
  <1>8. Settled(D)'
    <2>1. ASSUME NEW h \in Homes, Behind(D, h)'
          PROVE  Behind(D, h)
      BY <1>1, <1>2, <1>5, <2>1, IdleFacts DEF Behind, Passed
    <2> QED
      BY <1>1, <1>2, <1>4, <2>1, WalkSettled DEF Done, historyVars
  <1> QED
    BY <1>1, <1>5, <1>7, <1>8 DEF Done, historyVars

\* The loop goes down into a child.
LEMMA VisitSearched ==
    ASSUME WalkInv, PathOpen, NEW D, Done(D), Visit
    PROVE  PathOpen' /\ \E E : Done(E)'
  <1>1. /\ InLoop /\ searching' = "walk"
        /\ UNCHANGED <<vars, r_target, reported, declined, before, torn>>
    BY DEF Visit, InLoop
  <1>2. /\ pc = "idle" /\ walk # <<>> /\ Len(walk) \in Nat /\ Len(walk) >= 1
        /\ spot(Len(walk)) \in Homes /\ held(spot(Len(walk))) = topEntry
    BY <1>1, TopSpot
  <1>3. PICK n \in Nodes : /\ n = topEntry.m_child /\ entered' = entered \cup {n}
                           /\ Enters(n) /\ walk' \in Seq(Loops)
    BY VisitFacts
  <1>4. PICK k \in Nat : k = Len(walk) /\ k + 1 = Len(walk') /\ k >= 1
    BY <1>2, <1>3 DEF Enters
  <1>5. /\ \A j \in 1 .. k : walk'[j] = walk[j] /\ spot(j)' = spot(j)
        /\ walk'[k + 1] = [p_node |-> n, i |-> 0] /\ walk' # <<>>
    BY <1>3, <1>4 DEF Enters, spot
  <1>6. /\ Homes' = Homes /\ \A h \in Homes : held(h)' = held(h) /\ owner(h)' = h[1]
        /\ Nodes' = Nodes /\ pc' = "idle" /\ m_root' = m_root /\ ~ Pending'
        /\ \A m : csize(m)' = csize(m) /\ Together(D)'
    BY <1>1, <1>2, IdleStays
  <1>7. PathOpen'
    <2>1. ASSUME NEW j \in 1 .. k
          PROVE  spot(j)' \in Homes' /\ held(spot(j))'.m_child = walk'[j + 1].p_node
      <3>1. CASE j = k
        <4>1. PICK h \in Homes : h = spot(k) /\ h = spot(k)' /\ held(h) = topEntry
          BY <1>2, <1>4, <1>5
        <4> QED
          BY <1>3, <1>5, <1>6, <3>1, <4>1
      <3>2. CASE j # k
        <4>1. j \in 1 .. Len(walk) - 1 /\ j + 1 \in 1 .. k
          BY <1>4, <3>2
        <4>2. PICK h \in Homes :
                h = spot(j) /\ h = spot(j)' /\ held(h).m_child = walk[j + 1].p_node
          BY <1>5, <4>1 DEF PathOpen
        <4> QED
          BY <1>5, <1>6, <4>1, <4>2
      <3> QED
        BY <3>1, <3>2
    <2>2. walk'[1].p_node = m_root' /\ walk'[k + 1].p_node = n
      <3>1. 1 \in 1 .. k /\ walk[1].p_node = m_root
        BY <1>2, <1>4 DEF PathOpen
      <3> QED
        BY <1>5, <1>6, <3>1
    <2>3. walk'[k + 1].i <= csize(n)'
      <3>1. csize(n) \in Nat
        BY <1>2, IdleFacts, SizeFacts DEF SizesTyped
      <3>2. 0 <= csize(n)
        BY <3>1
      <3> QED
        BY <1>5, <1>6, <3>2
    <2>4. PICK p \in Nat : p = k + 1 /\ p = Len(walk') /\ p - 1 = k
      BY <1>4
    <2>5. \A j \in 1 .. p - 1 :
            spot(j)' \in Homes' /\ held(spot(j))'.m_child = walk'[j + 1].p_node
      BY <2>1, <2>4
    <2>6. walk'[p].p_node = n /\ walk'[p].i <= csize(n)'
      BY <2>2, <2>3, <2>4
    <2> QED
      BY <1>1, <1>6, <2>2, <2>4, <2>5, <2>6 DEF PathOpen
  <1>8. Settled(D)'
    <2>1. ASSUME NEW h \in Homes, Behind(D, h)'
          PROVE  Behind(D, h)
      <3>1. owner(h) = h[1] /\ owner(h)' = h[1] /\ h[2] \in Nat
        BY <1>2, <1>6, IdleFacts
      <3>2. CASE Passed(h)'
        <4>1. PICK j \in 1 .. k + 1 : walk'[j].p_node = h[1] /\ h[2] < walk'[j].i
          BY <1>4, <3>2 DEF Passed
        <4>2. j # k + 1
          <5>1. ~ (h[2] < 0)
            BY <3>1
          <5> QED
            BY <1>5, <4>1, <5>1
        <4>3. j \in 1 .. k
          BY <4>2
        <4> QED
          BY <1>4, <1>5, <4>1, <4>3 DEF Behind, Passed
      <3> QED
        BY <2>1, <3>1, <3>2 DEF Behind
    <2> QED
      BY <1>1, <1>2, <2>1, WalkSettled DEF Done
  <1> QED
    BY <1>1, <1>3, <1>5, <1>6, <1>7, <1>8 DEF Done

\* The callback answers.  After a false the rest of the leaf stands behind a
\* declined entry.
LEMMA AnswerSearched ==
    ASSUME WalkInv, PathOpen, NEW D, Done(D), NEW conti \in BOOLEAN, Answer(conti)
    PROVE  PathOpen' /\ \E E : Done(E)'
  <1>1. /\ searching = "callback" /\ pc = "idle" /\ searching' = "walk"
        /\ UNCHANGED <<vars, r_target, reported, historyVars>>
    BY DEF Answer
  <1>2. /\ walk # <<>> /\ reported # <<>> /\ reported \in Seq(SubNode)
        /\ isLeaf(top.p_node) /\ Len(walk) \in Nat /\ Len(walk) >= 1
        /\ top = walk[Len(walk)] /\ spot(Len(walk)) \in Homes
        /\ held(spot(Len(walk))) = Last(reported)
        /\ spot(Len(walk)) = <<top.p_node, top.i>>
    BY <1>1, LoopFacts, TopFacts DEF WalkInv, WalkShape, PathOpen, spot
  <1>3. PICK n, i : n = walk[Len(walk)].p_node /\ i = walk[Len(walk)].i
                    /\ spot(Len(walk)) = <<n, i>> /\ isLeaf(n)
    BY <1>2
  <1>4. Last(reported) \in ToSet(reported)
    <2>1. Last(reported) = reported[Len(reported)] /\ Len(reported) \in DOMAIN reported
      BY <1>2 DEF Last
    <2> QED
      BY <2>1 DEF ToSet
  <1>5. PICK g \in Homes : /\ g = spot(Len(walk)) /\ g = <<n, i>>
                           /\ held(g) = Last(reported) /\ ~ Unseen(g)
    BY <1>2, <1>3, <1>4 DEF Unseen
  <1>6. ASSUME NEW h \in Homes, h[1] = n
        PROVE  held(h).m_child = nullptr
    <2>1. h \in Places /\ held(h) = at(h)
      BY <1>1, <1>6, IdleFacts DEF Homes, held
    <2> QED
      BY <1>1, <1>3, <1>6, <2>1, IdleFacts, ShapeHeights DEF HeightsStep
  <1>7. CASE conti
    <2>1. walk' = Resumed(walk) /\ declined' = declined
      BY <1>7 DEF Answer
    <2>2. held(spot(Len(walk))).m_child = nullptr /\ ~ Unseen(spot(Len(walk)))
      BY <1>5, <1>6
    <2>3. PathOpen' /\ Done(D)'
      BY <1>1, <1>2, <2>1, <2>2, AdvanceSearched
    <2> QED
      BY <2>3
  <1>8. CASE ~ conti
    <2>1. walk' = Resumed(Front(walk)) /\ declined' = declined \cup {Last(reported)}
      BY <1>8 DEF Answer
    <2>2. ASSUME NEW h \in Homes, h[1] = n
          PROVE  Behind(D, h) \/ Fine(D, h)'
      <3>1. /\ held(h)' = held(h) /\ held(g)' = held(g) /\ Homes' = Homes
        BY <1>1, IdleStays
      <3>2. h = <<n, h[2]>> /\ h[2] \in Nat /\ i \in Slots /\ i \in Nat /\ n # 0
        BY <1>1, <1>5, <2>2, IdleFacts
      <3>3. CASE h[2] < i
        BY <1>2, <1>3, <2>2, <3>3 DEF Behind, Passed
      <3>4. CASE h[2] = i
        <4>1. held(h)' \in ToSet(reported')
          BY <1>1, <1>4, <1>5, <3>1, <3>2, <3>4
        <4> QED
          BY <1>6, <2>2, <3>1, <4>1 DEF Fine, Unseen
      <3>5. CASE i < h[2]
        <4>1. <<h[1], i>> = g /\ g \in Homes' /\ held(g)' \in declined'
          BY <1>5, <2>1, <2>2, <3>1
        <4>2. Explained(h)'
          BY <2>2, <3>2, <3>5, <4>1 DEF Explained
        <4> QED
          BY <1>6, <2>2, <3>1, <4>2 DEF Fine
      <3> QED
        BY <3>2, <3>3, <3>4, <3>5
    <2> QED
      BY <1>1, <1>2, <1>3, <2>1, <2>2, LeaveSearched
  <1> QED
    BY <1>7, <1>8

\* The leaf's entry is none that the search is due to report.
LEMMA PassSearched ==
    ASSUME WalkInv, PathOpen, NEW D, Done(D), Pass
    PROVE  PathOpen' /\ \E E : Done(E)'
  <1>1. /\ InLoop /\ isLeaf(top.p_node) /\ ~ isOverlap(topEntry.m_box, r_target)
        /\ walk' = Resumed(walk) /\ searching' = "walk"
        /\ UNCHANGED <<vars, r_target, reported, declined, historyVars>>
    BY DEF Pass, InLoop
  <1>2. /\ pc = "idle" /\ walk # <<>> /\ spot(Len(walk)) \in Homes
        /\ held(spot(Len(walk))) = topEntry /\ Fits(heap, topEntry, 0)
    BY <1>1, TopSpot DEF isLeaf, height
  <1>3. held(spot(Len(walk))).m_child = nullptr /\ ~ Unseen(spot(Len(walk)))
    BY <1>1, <1>2 DEF Fits, Unseen
  <1>4. PathOpen' /\ Done(D)'
    BY <1>1, <1>2, <1>3, AdvanceSearched
  <1> QED
    BY <1>4

\* The loop over a node ends behind its last entry.
LEMMA LeaveNodeSearched ==
    ASSUME WalkInv, PathOpen, NEW D, Done(D), LeaveNode
    PROVE  PathOpen' /\ \E E : Done(E)'
  <1>1. /\ searching = "walk" /\ walk # <<>> /\ top.i >= csize(top.p_node)
        /\ walk' = Resumed(Front(walk)) /\ searching' = "walk"
        /\ UNCHANGED <<vars, r_target, reported, declined, historyVars>>
    BY DEF LeaveNode, csize
  <1>2. pc = "idle" /\ top = walk[Len(walk)] /\ Len(walk) \in 1 .. Len(walk)
    <2>1. Len(walk) \in Nat /\ Len(walk) >= 1
      BY <1>1, LoopFacts
    <2> QED
      BY <1>1, <2>1, TopFacts DEF WalkInv, WalkShape
  <1>3. PICK n \in Nodes, i \in Nat :
          n = walk[Len(walk)].p_node /\ i = walk[Len(walk)].i /\ i >= csize(n)
    BY <1>1, <1>2, TopFacts
  <1>4. ASSUME NEW h \in Homes, h[1] = n
        PROVE  Behind(D, h)
    <2>1. h[2] < csize(n) /\ h[2] \in Nat /\ csize(n) \in Nat
      BY <1>2, <1>3, <1>4, IdleFacts, SizeFacts DEF SizesTyped
    <2>2. h[2] < i
      BY <1>3, <2>1
    <2> QED
      BY <1>2, <1>3, <1>4, <2>2 DEF Behind, Passed
  <1> QED
    BY <1>1, <1>2, <1>3, <1>4, LeaveSearched

\* A search begins at the root, with nothing done.
LEMMA BeginSearched ==
    ASSUME WalkInv, NEW a_target \in Targets, SearchTag(a_target)
    PROVE  PathOpen' /\ \E E : Done(E)'
  <1>1. /\ pc = "idle" /\ searching = "no" /\ searching' = "walk" /\ UNCHANGED vars
        /\ walk' = <<[p_node |-> m_root, i |-> 0]>>
    BY DEF SearchTag
  <1>2. /\ Homes' = Homes /\ \A h \in Homes : held(h)' = held(h) /\ owner(h)' = h[1]
        /\ Nodes' = Nodes /\ pc' = "idle" /\ m_root' = m_root /\ ~ Pending'
        /\ \A m : csize(m)' = csize(m) /\ Together({})'
    BY <1>1, IdleStays
  <1>3. PICK n \in Nodes : n = m_root /\ 0 <= csize(n)
    <2>1. m_root \in Nodes
      BY <1>1, IdleFacts DEF TypeOK
    <2>2. csize(m_root) \in Nat
      BY <1>1, <2>1, IdleFacts, SizeFacts DEF SizesTyped
    <2> QED
      BY <2>1, <2>2
  <1>4. Len(walk') = 1 /\ walk'[1].p_node = n /\ walk'[1].i = 0 /\ walk' # <<>>
    BY <1>1, <1>3
  <1>5. PathOpen'
    <2>1. 1 .. 1 - 1 = {}
      OBVIOUS
    <2> QED
      BY <1>1, <1>2, <1>3, <1>4, <2>1 DEF PathOpen
  <1>6. ASSUME NEW h \in Homes
        PROVE  ~ Behind({}, h)'
    <2>1. ~ (h[2] < 0)
      <3>1. h[2] \in Nat
        BY <1>1, IdleFacts
      <3> QED
        BY <3>1
    <2>2. \A j \in 1 .. 1 : walk'[j].i = 0
      BY <1>4
    <2> QED
      BY <1>4, <2>1, <2>2 DEF Behind, Passed
  <1>7. Done({})'
    BY <1>2, <1>4, <1>6 DEF Done, Settled
  <1> QED
    BY <1>5, <1>7

\* A stuttering step.
LEMMA StutterHomes ==
    ASSUME UNCHANGED vars
    PROVE  Homes' = Homes /\ \A h : held(h)' = held(h) /\ owner(h)' = owner(h)
  <1>1. UNCHANGED <<pc, heap, t_overflowBuffer, p_node, next>>
    BY DEF vars, splitVars, indexVars, callVars
  <1>2. Nodes' = Nodes /\ Buffered' = Buffered
    BY <1>1 DEF Nodes, Buffered, Splitting
  <1>3. Places' = Places /\ \A h : at(h)' = at(h)
    BY <1>1, <1>2 DEF Places, Used, at, sub
  <1> QED
    BY <1>1, <1>2, <1>3 DEF Homes, held, owner

LEMMA StutterSearched ==
    ASSUME UNCHANGED allVars, PathOpen, NEW D, Done(D)
    PROVE  PathOpen' /\ Done(D)'
  <1>1. /\ UNCHANGED <<searching, walk, reported, declined, before, entered, torn,
                       r_target>>
        /\ UNCHANGED vars
    BY DEF allVars, searchVars, historyVars
  <1>2. UNCHANGED <<pc, heap, m_root, m_nodeBuffer, p_node, splited,
                    t_overflowBuffer, next>>
    BY <1>1 DEF vars, splitVars, indexVars, callVars
  <1>3. /\ Nodes' = Nodes /\ t_node' = t_node /\ (Pending' <=> Pending)
        /\ open' = open
    BY <1>1, <1>2 DEF Nodes, t_node, Pending, open
  <1>4. /\ \A n : csize(n)' = csize(n)
        /\ \A j : spot(j)' = spot(j)
    BY <1>1, <1>2 DEF csize, spot
  <1>5. /\ Homes' = Homes
        /\ \A h : held(h)' = held(h) /\ owner(h)' = owner(h)
    BY <1>1, StutterHomes
  <1>6. \A h : Passed(h)' <=> Passed(h)
    BY <1>1 DEF Passed
  <1>7. \A h : Unseen(h)' <=> Unseen(h)
    BY <1>1, <1>5 DEF Unseen
  <1>8. \A h : Explained(h)' <=> Explained(h)
    BY <1>1, <1>5 DEF Explained
  <1>9. \A h : (Behind(D, h)' <=> Behind(D, h)) /\ (Fine(D, h)' <=> Fine(D, h))
    BY <1>5, <1>6, <1>7, <1>8 DEF Behind, Fine
  <1>10. Settled(D)' /\ Together(D)'
    BY <1>1, <1>2, <1>3, <1>5, <1>9 DEF Settled, Together, Done
  <1>11. Done(D)'
    BY <1>1, <1>2, <1>3, <1>10 DEF Done
  <1>12. PathOpen'
    BY <1>1, <1>2, <1>3, <1>4, <1>5 DEF PathOpen
  <1> QED
    BY <1>11, <1>12

LEMMA NextSearched == SearchedInv /\ [SearchNext]_allVars => SearchedInv'
  <1> SUFFICES ASSUME SearchedInv, [SearchNext]_allVars, searching' # "no",
                      ~ Dead', Untorn'
               PROVE  PathOpen' /\ \E E : Done(E)'
    BY NextWalk DEF SearchedInv
  <1>0. WalkInv /\ WalkInv'
    BY NextWalk DEF SearchedInv
  <1>1. CASE CallIndex
    <2>1. searching = "callback"
      BY <1>0, <1>1 DEF CallIndex, WalkInv, WalkShape
    <2> QED
      BY <1>0, <1>1, <2>1, CallSearched DEF Undisturbed, WalkInv
  <1>2. ASSUME NEW a_target \in Targets, SearchTag(a_target)
        PROVE  PathOpen' /\ \E E : Done(E)'
    BY <1>0, <1>2, BeginSearched
  <1>3. ASSUME SearchStep, searching # "no"
        PROVE  PathOpen /\ \E D : Done(D)
    <2>1. UNCHANGED vars
      BY <1>3, SearchStepsStutter
    <2>2. ~ Dead
      BY <2>1 DEF vars, Dead
    <2>3. torn' = torn /\ declined \subseteq declined'
      BY <1>3 DEF SearchStep, Process, Answer, Pass, Visit, LeaveNode, EndSearch,
                  historyVars
    <2> QED
      BY <1>3, <2>2, <2>3 DEF SearchedInv, Untorn
  <1>4. SearchStep => searching # "no"
    BY DEF SearchStep, Process, Answer, Pass, Visit, LeaveNode, EndSearch, InLoop
  <1>5. CASE SearchStep
    <2>1. PathOpen
      BY <1>3, <1>4, <1>5
    <2>2. PICK D : Done(D)
      BY <1>3, <1>4, <1>5
    <2>3. ASSUME NEW conti \in BOOLEAN, Answer(conti)
          PROVE  PathOpen' /\ \E E : Done(E)'
      BY <1>0, <2>1, <2>2, <2>3, AnswerSearched
    <2>4. ~ EndSearch
      BY DEF EndSearch
    <2> QED
      BY <1>0, <1>5, <2>1, <2>2, <2>3, <2>4, ProcessSearched, PassSearched,
         VisitSearched, LeaveNodeSearched DEF SearchStep
  <1>6. CASE UNCHANGED allVars
    <2>1. (~ Dead' => ~ Dead) /\ (Untorn' => Untorn) /\ searching' = searching
      BY <1>6 DEF allVars, searchVars, historyVars, vars, Dead, Untorn
    <2>2. PathOpen /\ \E D : Done(D)
      BY <2>1 DEF SearchedInv
    <2> QED
      BY <1>6, <2>2, StutterSearched
  <1> QED
    BY <1>1, <1>2, <1>5, <1>6 DEF SearchNext

\* Some height is the greatest.
LEMMA HeightsBounded ==
    ASSUME TypeOK
    PROVE  \E H \in Nat : \A n \in Nodes : height(n) <= H
  <1> DEFINE Bounds(k, H) == \A n \in Nodes : n <= k => height(n) <= H
             Bad == {k \in Nat : ~ \E H \in Nat : Bounds(k, H)}
  <1>1. Len(heap) \in Nat /\ \A n \in Nodes : height(n) \in Nat /\ n \in Nat /\ n >= 1
    BY FrameFields DEF Nodes
  <1>2. Bad = {}
    <2> SUFFICES ASSUME Bad # {} PROVE FALSE
      OBVIOUS
    <2>1. PICK k \in Bad : \A j \in Bad : k <= j
      <3>1. Bad \in SUBSET Nat
        OBVIOUS
      <3> HIDE DEF Bad
      <3> QED
        BY <3>1, LeastNat
    <2>2. k \in Nat /\ k # 0
      <3>1. Bounds(0, 0)
        <4>1. \A n \in Nodes : ~ (n <= 0)
          BY <1>1
        <4> QED
          BY <4>1
      <3> QED
        BY <3>1
    <2>3. k - 1 \in Nat /\ k - 1 \notin Bad
      BY <2>1, <2>2
    <2>4. PICK H \in Nat : Bounds(k - 1, H)
      BY <2>3
    <2>5. PICK M \in Nat : M >= H /\ (k \in Nodes => M >= height(k))
      <3>1. CASE k \in Nodes /\ height(k) > H
        <4>1. height(k) \in Nat
          BY <1>1, <3>1
        <4> QED
          BY <3>1, <4>1
      <3>2. CASE k \notin Nodes
        BY <3>2
      <3>3. CASE k \in Nodes /\ ~ (height(k) > H)
        <4>1. height(k) \in Nat
          BY <1>1, <3>3
        <4> QED
          BY <3>3, <4>1
      <3> QED
        BY <3>1, <3>2, <3>3
    <2>6. Bounds(k, M)
      <3>1. ASSUME NEW n \in Nodes, n <= k
            PROVE  height(n) <= M
        <4>1. n \in Nat /\ height(n) \in Nat
          BY <1>1
        <4>2. CASE n = k
          BY <2>5, <4>1, <4>2
        <4>3. CASE n # k
          <5>1. n <= k - 1
            BY <2>2, <3>1, <4>1, <4>3
          <5>2. height(n) <= H
            BY <2>4, <5>1
          <5> QED
            BY <2>5, <4>1, <5>2
        <4> QED
          BY <4>2, <4>3
      <3> QED
        BY <3>1
    <2> QED
      BY <2>2, <2>6
  <1>3. PICK H \in Nat : Bounds(Len(heap), H)
    BY <1>1, <1>2
  <1>4. \A n \in Nodes : n <= Len(heap)
    BY <1>1 DEF Nodes
  <1> QED
    BY <1>3, <1>4

\* A search that has come back from the root has been at every node: the
\* highest one it had not been at would have a parent that it had been at.
LEMMA AllSearched ==
    ASSUME WalkInv, pc = "idle", walk = <<>>, NEW D, Done(D)
    PROVE  Nodes \subseteq D
  <1>1. /\ ShapeInv /\ TypeOK /\ HomesTyped /\ Linked /\ ~ Pending
        /\ m_root \in D /\ Settled(D)
    BY IdleFacts DEF Done, WalkInv, TreeInv
  <1>2. PICK H \in Nat : \A n \in Nodes : height(n) <= H
    BY <1>1, HeightsBounded
  <1>3. \A n \in Nodes : height(n) \in Nat
    BY <1>1, FrameFields
  <1> DEFINE Depths == {H - height(n) : n \in Nodes \ D}
  <1> SUFFICES ASSUME Nodes \ D # {} PROVE FALSE
    OBVIOUS
  <1>4. Depths \in SUBSET Nat /\ Depths # {}
    BY <1>2, <1>3
  <1>5. PICK d \in Depths : \A e \in Depths : d <= e
    <2> HIDE DEF Depths
    <2> QED
      BY <1>4, LeastNat
  <1>6. PICK n \in Nodes \ D : d = H - height(n)
    OBVIOUS
  <1>7. PICK h \in Homes : held(h).m_child = n
    <2>1. n \notin Roots /\ ~ Dead
      BY <1>1 DEF Roots, Dead
    <2> QED
      BY <1>1, <2>1 DEF Linked
  <1>8. PICK p \in Nodes : p = h[1] /\ p = owner(h)
    BY IdleFacts
  <1>9. p \notin D
    <2> SUFFICES ASSUME p \in D PROVE FALSE
      OBVIOUS
    <2>1. n # nullptr
      BY DEF Nodes, nullptr
    <2>2. Fine(D, h)
      BY <1>1, <1>8 DEF Settled, Behind
    <2> QED
      BY <1>6, <1>7, <2>1, <2>2 DEF Fine
  <1>10. height(p) = height(n) + 1
    <2>1. h \in Places /\ held(h) = at(h)
      BY <1>8, IdleFacts DEF Homes, held
    <2>2. n # nullptr
      BY DEF Nodes, nullptr
    <2>3. heap[n].m_height = heap[p].m_height - 1
      BY <1>1, <1>7, <1>8, <2>1, <2>2, ShapeHeights DEF HeightsStep
    <2> QED
      BY <1>3, <2>3 DEF height
  <1>11. H - height(p) \in Depths /\ ~ (d <= H - height(p))
    BY <1>3, <1>6, <1>9, <1>10
  <1> QED
    BY <1>5, <1>11

\* At the end of a search: what it has missed stands behind a declined entry,
\* or a node was split while the search was in it.
LEMMA SearchedMisses == SearchedInv => MissesExplained
  <1> SUFFICES ASSUME SearchedInv, searching = "walk", walk = <<>>, Untorn,
                      NEW p \in Missed
               PROVE  AfterDeclined(p)
    <2>1. ASSUME SearchedInv, searching = "walk", walk = <<>>,
                 Untorn => \A p \in Missed : AfterDeclined(p)
          PROVE  /\ declined = {} /\ "open" \notin torn => Missed = {}
                 /\ torn = {} => \A p \in Missed : AfterDeclined(p)
      BY <2>1 DEF Untorn, AfterDeclined
    <2> QED
      BY <2>1 DEF MissesExplained
  <1>1. WalkInv /\ pc = "idle" /\ ~ Dead
    BY DEF SearchedInv, WalkInv, WalkShape, Dead
  <1>2. PICK D : Done(D)
    BY <1>1 DEF SearchedInv
  <1>3. Nodes \subseteq D
    BY <1>1, <1>2, AllSearched
  <1>4. /\ p \in Homes /\ p[1] # 0 /\ p[1] \in D /\ owner(p) = p[1] /\ held(p) = at(p)
        /\ p \in Places /\ isLeaf(p[1]) /\ at(p).m_data <= before
        /\ isOverlap(at(p).m_box, r_target) /\ at(p) \notin ToSet(reported)
    <2>1. /\ p \in Places /\ isLeaf(p[1]) /\ at(p).m_data <= before
          /\ isOverlap(at(p).m_box, r_target) /\ at(p) \notin ToSet(reported)
      BY DEF Missed
    <2>2. p \in Homes
      BY <2>1 DEF Homes
    <2> QED
      BY <1>1, <1>3, <2>1, <2>2, IdleFacts DEF held
  <1>5. at(p).m_child = nullptr
    BY <1>1, <1>4, IdleFacts, ShapeHeights DEF HeightsStep
  <1>6. Explained(p)
    BY <1>2, <1>4, <1>5 DEF Done, Settled, Behind, Fine, Unseen
  <1>7. PICK s \in Slots : /\ s < p[2] /\ <<p[1], s>> \in Homes
                           /\ held(<<p[1], s>>) \in declined
    BY <1>6 DEF Explained
  <1>8. s \in Used(p[1]) /\ held(<<p[1], s>>) = sub(p[1], s)
    BY <1>1, <1>4, <1>7, IdleFacts DEF HomesTyped, Used, csize
  <1> QED
    BY <1>7, <1>8 DEF AfterDeclined

\* A search reports every entry that overlaps the target and was stored when
\* it began, whatever the callback inserts meanwhile, with two exceptions: the
\* rest of a leaf in which an entry was declined, and what a split moves out
\* of a node that the search is in.
THEOREM SearchMissesExplained == SearchSpec => []MissesExplained
  <1>1. SearchInit => SearchedInv
    BY InitWalk DEF SearchInit, SearchedInv
  <1> QED
    BY <1>1, NextSearched, SearchedMisses, PTL DEF SearchSpec
-----------------------------------------------------------------------------
\* An undisturbed search is at every place at most once.  Behind it is what
\* the loops over nodes that it has come to have passed, or are in.
Taken(h) ==
    /\ h[1] \in entered
    /\ \A j \in 1 .. Len(walk) : walk[j].p_node = h[1] =>
         \/ h[2] < walk[j].i
         \/ h[2] = walk[j].i /\ (j < Len(walk) \/ searching = "callback")

\* It came to each node from a place it has taken, and reported what was there.
Once ==
    /\ \A n \in entered : \/ n = walk[1].p_node
                          \/ \E h \in Homes : held(h).m_child = n /\ Taken(h)
    /\ \A e \in ToSet(reported) : \E h \in Homes : held(h) = e /\ Taken(h)

OnceInv ==
    /\ SearchedInv
    /\ walk # <<>> /\ ~ Dead /\ torn = {} => Once

\* What an entry of such a node keeps.
Stays(h) ==
    /\ h \in Homes' /\ held(h)'.m_child = held(h).m_child
    /\ held(h).m_data # NoData => held(h)' = held(h)

LEMMA HomeStays ==
    ASSUME HomesTyped, HomesTyped', NEW origin, NEW Extra, NEW Changed,
           Moves(origin, Extra, Changed),
           \A h \in Changed \cap Homes : held(h).m_data = NoData,
           NEW g \in Homes, \A k \in Homes' \ Extra : origin[k] = g => k = g
    PROVE  Stays(g)
  <1>1. g \in Homes' \ Extra /\ origin[g] = g
    BY DEF Moves
  <1>2. held(g)'.m_child = held(origin[g]).m_child
    BY <1>1 DEF Moves
  <1>3. held(origin[g]).m_data # NoData => held(g)' = held(origin[g])
    BY <1>1, SameEntry
  <1> QED
    BY <1>1, <1>2, <1>3 DEF Stays

LEMMA AllStay ==
    ASSUME HomesTyped, HomesTyped', NEW Extra, NEW Changed,
           Moves([h \in Homes |-> h], Extra, Changed),
           \A h \in Changed \cap Homes : held(h).m_data = NoData
    PROVE  \A g \in Homes : Stays(g)
  <1>1. PICK origin : origin = [h \in Homes |-> h]
    OBVIOUS
  <1>2. Moves(origin, Extra, Changed) /\ \A h \in Homes : origin[h] = h
    BY <1>1
  <1>3. Homes' \ Extra = Homes
    BY DEF Moves
  <1> QED
    BY <1>2, <1>3, HomeStays

\* A call from the callback moves no entry of a node the search has come to,
\* unless it splits one.
LEMMA EnteredStays ==
    ASSUME SearchedInv, Undisturbed, torn' = {}
    PROVE  \A g \in Homes : g[1] \in entered => Stays(g)
  <1>1. /\ Next /\ ~ Dead /\ ~ Dead' /\ ShapeInv /\ ShapeInv' /\ TypeOK /\ TypeOK'
        /\ HomesTyped /\ HomesTyped' /\ TreeInv /\ WalkInv
        /\ pc = "assigned" => p_node \notin entered
    BY CallFacts DEF Undisturbed
  <1>2. ASSUME heap' = heap, Buffered' = Buffered,
               \A i \in Buffered : t_overflowBuffer'[i] = t_overflowBuffer[i]
        PROVE  \A g \in Homes : Stays(g)
    <2>1. Moves([h \in Homes |-> h], {}, {})
      BY <1>1, <1>2, SameHomes
    <2> QED
      BY <1>1, <2>1, AllStay
  <1>3. CASE pc \in {"idle", "insert"} /\ heap' = heap /\ pc' \in {"idle", "insert"}
    <2>1. Buffered = {} /\ Buffered' = {}
      BY <1>3 DEF Buffered, Splitting
    <2> QED
      BY <1>2, <1>3, <2>1
  <1>4. CASE \E a_box \in Boxes : Insert(a_box)
    BY <1>3, <1>4 DEF Insert, indexVars
  <1>5. CASE Descend
    BY <1>3, <1>5 DEF Descend, indexVars
  <1>6. CASE AddToLeaf
    <2>1. PICK x : Moves([h \in Homes |-> h], {x}, {})
      BY <1>1, <1>6, AddToLeafMoves
    <2> QED
      BY <1>1, <2>1, AllStay
  <1>7. CASE SplitStep /\ UNCHANGED <<indexVars, callVars>>
    <2>1. /\ heap' = heap /\ t_overflowBuffer' = t_overflowBuffer
          /\ pc \in {"seed", "deal", "rest", "check"}
          /\ pc' \in {"deal", "rest", "check", "assigned"}
      BY <1>1, <1>7, SplitStepFrame DEF indexVars, callVars, Dead
    <2>2. Buffered' = Buffered
      BY <2>1 DEF Buffered, Splitting
    <2> QED
      BY <1>2, <2>1, <2>2
  <1>8. CASE AllocateSibling
    <2>1. PICK origin :
            /\ Moves(origin, {}, {})
            /\ \A k \in Homes' : \/ origin[k] = k
                                 \/ k[1] = 0 /\ origin[k][1] = p_node
      BY <1>1, <1>8, AllocateSiblingMoves
    <2>2. p_node \notin entered
      BY <1>1, <1>8 DEF AllocateSibling
    <2>3. ASSUME NEW g \in Homes, g[1] \in entered
          PROVE  \A k \in Homes' \ {} : origin[k] = g => k = g
      BY <2>1, <2>2, <2>3
    <2> QED
      BY <1>1, <2>1, <2>3, HomeStays
  <1>9. CASE FillNext
    <2>1. PICK origin :
            /\ Moves(origin, {}, {})
            /\ \A k \in Homes' : \/ origin[k] = k
                                 \/ origin[k][1] = 0 /\ k[1] \in {p_node, t_node}
      BY <1>1, <1>9, FillNextMoves DEF TreeInv
    <2>2. 0 \notin entered
      BY <1>1 DEF WalkInv, WalkShape, Nodes
    <2>3. ASSUME NEW g \in Homes, g[1] \in entered
          PROVE  \A k \in Homes' \ {} : origin[k] = g => k = g
      BY <2>1, <2>2, <2>3
    <2> QED
      BY <1>1, <2>1, <2>3, HomeStays
  <1>10. CASE FillDone
    <2>1. pc = "fill" /\ pc' = "return" /\ next = Size /\ heap' = heap
      BY <1>10 DEF FillDone
    <2>2. Buffered = {} /\ Buffered' = {}
      BY <2>1, SlotFacts DEF Buffered, Splitting
    <2> QED
      BY <1>2, <2>1, <2>2
  <1>11. CASE ReturnUnsplit
    BY <1>1, <1>11, ReturnUnsplitMoves, AllStay
  <1>12. CASE ReturnSplit
    BY <1>1, <1>12, ReturnSplitMoves, AllStay
  <1>13. CASE Finish
    <2>1. CASE splited
      <3>1. PICK Extra : Moves([h \in Homes |-> h], Extra, {})
        BY <1>1, <1>13, <2>1, FinishMoves
      <3> QED
        BY <1>1, <3>1, AllStay
    <2>2. CASE ~ splited
      <3>1. heap' = heap /\ Buffered = {} /\ Buffered' = {}
        BY <1>13, <2>2 DEF Finish, Buffered, Splitting
      <3> QED
        BY <1>2, <3>1
    <2> QED
      BY <2>1, <2>2
  <1>14. CASE DescendNowhere \/ DanglingRead
    BY <1>1, <1>14 DEF DescendNowhere, DanglingRead, Dead
  <1>15. CASE Stopped
    BY <1>1, <1>3, <1>15 DEF Stopped, vars, indexVars
  <1> QED
    BY <1>1, <1>4, <1>5, <1>6, <1>7, <1>8, <1>9, <1>10, <1>11, <1>12, <1>13, <1>14,
       <1>15 DEF Next, InsertStep

LEMMA CallOnce ==
    ASSUME SearchedInv, Undisturbed, torn' = {}, Once
    PROVE  Once'
  <1>1. /\ UNCHANGED <<searching, walk, reported, entered>> /\ WalkInv
        /\ \A g \in Homes : g[1] \in entered => Stays(g)
    BY CallFacts, EnteredStays
  <1>2. \A h : Taken(h)' <=> Taken(h)
    BY <1>1 DEF Taken
  <1>3. ASSUME NEW n \in entered
        PROVE  n = walk'[1].p_node \/ \E h \in Homes' : held(h)'.m_child = n /\ Taken(h)'
    <2>1. CASE n = walk[1].p_node
      BY <1>1, <2>1
    <2>2. CASE \E h \in Homes : held(h).m_child = n /\ Taken(h)
      <3>1. PICK h \in Homes : held(h).m_child = n /\ Taken(h)
        BY <2>2
      <3>2. Stays(h)
        BY <1>1, <3>1 DEF Taken
      <3> QED
        BY <1>2, <3>1, <3>2 DEF Stays
    <2> QED
      BY <2>1, <2>2 DEF Once
  <1>4. ASSUME NEW e \in ToSet(reported)
        PROVE  \E h \in Homes' : held(h)' = e /\ Taken(h)'
    <2>1. PICK h \in Homes : held(h) = e /\ Taken(h)
      BY DEF Once
    <2>2. e.m_data # NoData
      BY <1>1 DEF WalkInv, WalkShape, ToSet
    <2>3. Stays(h)
      BY <1>1, <2>1 DEF Taken
    <2> QED
      BY <1>2, <2>1, <2>2, <2>3 DEF Stays
  <1> QED
    BY <1>1, <1>3, <1>4 DEF Once

\* The loops of a search are over different nodes.
LEMMA LoopsApart ==
    ASSUME WalkInv, walk # <<>>, NEW j \in 1 .. Len(walk), j # Len(walk)
    PROVE  /\ level(j) \in Nat /\ level(Len(walk)) \in Nat /\ level(j) > level(Len(walk))
           /\ walk[j].p_node # walk[Len(walk)].p_node
  <1>1. PICK n \in Nat : n = Len(walk) /\ n >= 1
    BY LoopFacts
  <1>2. /\ \A k \in 1 .. n : level(k) \in Nat
        /\ \A k \in 1 .. n - 1 : level(k) = level(k + 1) + 1
    BY <1>1, LoopFacts
  <1> DEFINE Bad == {d \in Nat : d >= 1 /\ d < n /\ ~ (level(n - d) > level(n))}
  <1>3. Bad = {}
    <2> SUFFICES ASSUME Bad # {} PROVE FALSE
      OBVIOUS
    <2>1. PICK d \in Bad : \A c \in Bad : d <= c
      <3>1. Bad \in SUBSET Nat
        OBVIOUS
      <3> HIDE DEF Bad
      <3> QED
        BY <3>1, LeastNat
    <2>2. PICK k \in 1 .. n - 1 : k = n - d
      <3>1. d \in Nat /\ d >= 1 /\ d < n
        BY <2>1
      <3>2. n - d \in 1 .. n - 1
        BY <3>1
      <3> QED
        BY <3>2
    <2>3. level(k) = level(k + 1) + 1 /\ level(k) \in Nat /\ level(k + 1) \in Nat
          /\ level(n) \in Nat
      BY <1>1, <1>2, <2>2
    <2>4. CASE d = 1
      <3>1. k + 1 = n
        BY <1>1, <2>2, <2>4
      <3> QED
        BY <2>1, <2>2, <2>3, <3>1
    <2>5. CASE d # 1
      <3>1. /\ d - 1 \in Nat /\ d - 1 >= 1 /\ d - 1 < n /\ ~ (d <= d - 1)
            /\ n - (d - 1) = k + 1
        BY <1>1, <2>1, <2>2, <2>5
      <3>2. level(n - (d - 1)) > level(n)
        BY <2>1, <3>1
      <3>3. level(k + 1) > level(n)
        BY <3>1, <3>2
      <3>4. level(k) > level(n)
        BY <2>3, <3>3
      <3> QED
        BY <2>1, <2>2, <3>4
    <2> QED
      BY <2>4, <2>5
  <1>4. PICK d \in Nat : d >= 1 /\ d < n /\ n - d = j
    <2>1. j \in Nat /\ j >= 1 /\ j < n
      BY <1>1
    <2>2. n - j \in Nat /\ n - j >= 1 /\ n - j < n /\ n - (n - j) = j
      BY <2>1
    <2> QED
      BY <2>2
  <1>5. level(n - d) > level(n)
    BY <1>3, <1>4
  <1> HIDE DEF Bad
  <1>6. level(j) > level(n) /\ level(j) \in Nat /\ level(n) \in Nat
    <2>1. level(n - d) = level(j)
      BY <1>4
    <2>2. n \in 1 .. n /\ j \in 1 .. n
      BY <1>1
    <2>3. level(j) \in Nat /\ level(n) \in Nat
      BY <1>2, <2>2
    <2> QED
      BY <1>5, <2>1, <2>3
  <1>7. walk[j].p_node # walk[n].p_node
    <2>1. walk[j].p_node = walk[n].p_node => level(j) = level(n)
      BY DEF level
    <2> QED
      BY <1>6, <2>1
  <1> QED
    BY <1>1, <1>6, <1>7

\* The place of the innermost loop is taken only when it is left, or entered.
LEMMA TopNotTaken ==
    ASSUME WalkInv, walk # <<>>, searching = "walk"
    PROVE  ~ Taken(spot(Len(walk)))
  <1>1. Len(walk) \in 1 .. Len(walk) /\ Len(walk) \in Nat /\ walk[Len(walk)].i \in Nat
    <2>1. Len(walk) \in Nat /\ Len(walk) >= 1
      BY LoopFacts
    <2>2. Len(walk) \in 1 .. Len(walk)
      BY <2>1
    <2> QED
      BY <2>1, <2>2, LoopFacts
  <1>2. PICK n \in Nat : n = Len(walk)
    BY <1>1
  <1> DEFINE p == walk[n].p_node
             i == walk[n].i
  <1>3. spot(Len(walk)) = <<p, i>> /\ n \in 1 .. Len(walk)
    BY <1>1, <1>2 DEF spot
  <1>4. ~ (i < walk[n].i) /\ ~ (n < Len(walk))
    BY <1>1, <1>2
  <1> QED
    BY <1>2, <1>3, <1>4 DEF Taken

\* What a step of the search must keep.
LEMMA WalkOnce ==
    ASSUME WalkInv, pc = "idle", UNCHANGED <<vars, reported, entered>>, Once,
           walk'[1].p_node = walk[1].p_node,
           \A h \in Homes : Taken(h) => Taken(h)'
    PROVE  Once'
  <1>1. Homes' = Homes /\ \A h \in Homes : held(h)' = held(h)
    BY IdleStays
  <1> QED
    BY <1>1 DEF Once

LEMMA AdvanceOnce ==
    ASSUME WalkInv, pc = "idle", UNCHANGED <<vars, reported, entered>>, Once,
           walk # <<>>, walk' # <<>>, searching' = "walk",
           walk' = Resumed(walk) \/ walk' = Resumed(Front(walk))
    PROVE  Once'
  <1>1. PICK n \in Nat : n = Len(walk) /\ n >= 1
    BY LoopFacts
  <1>2. \A j \in 1 .. n : walk[j].i \in Nat
    BY <1>1, LoopFacts
  <1>3. PICK m \in {n, n - 1} :
          /\ Len(walk') = m /\ m >= 1 /\ m \in Nat
          /\ \A j \in 1 .. m : /\ walk'[j].p_node = walk[j].p_node
                               /\ walk'[j].i = IF j = m THEN walk[j].i + 1 ELSE walk[j].i
    <2>1. walk \in Seq(Loops)
      BY DEF WalkInv, WalkShape
    <2>2. CASE walk' = Resumed(walk)
      <3>1. Advances
        BY <2>1, <2>2, AdvanceFacts
      <3> QED
        BY <1>1, <3>1 DEF Advances
    <2>3. CASE walk' = Resumed(Front(walk))
      <3>1. Leaves /\ (walk' = <<>> <=> n = 1)
        BY <1>1, <2>1, <2>3, LeaveFacts
      <3>2. n - 1 >= 1 /\ n - 1 \in Nat
        BY <1>1, <3>1
      <3> QED
        BY <1>1, <3>1, <3>2 DEF Leaves
    <2> QED
      BY <2>2, <2>3
  <1>4. ASSUME NEW h \in Homes, Taken(h), NEW j \in 1 .. m, walk'[j].p_node = h[1]
        PROVE  h[2] < walk'[j].i \/ (h[2] = walk'[j].i /\ j < m)
    <2>1. j \in 1 .. n /\ walk[j].p_node = h[1] /\ (j < n => j < m \/ j = m)
      BY <1>1, <1>3, <1>4
    <2>2. h[2] < walk[j].i \/ h[2] = walk[j].i
      BY <1>1, <1>4, <2>1 DEF Taken
    <2>3. h[2] \in Nat /\ walk[j].i \in Nat
      BY <1>2, <2>1, IdleFacts
    <2>4. PICK x \in Nat, y \in Nat : x = h[2] /\ y = walk[j].i
      BY <2>3
    <2>5. CASE j = m
      <3>1. walk'[j].i = y + 1 /\ (x < y \/ x = y)
        BY <1>3, <2>2, <2>4, <2>5
      <3>2. x < y + 1
        BY <3>1
      <3> QED
        BY <2>4, <3>1, <3>2
    <2>6. CASE j # m
      <3>1. walk'[j].i = y /\ (x < y \/ x = y)
        BY <1>3, <2>2, <2>4, <2>6
      <3>2. j < m
        BY <1>3, <2>6
      <3> QED
        BY <2>4, <3>1, <3>2
    <2> QED
      BY <2>5, <2>6
  <1>5. \A h \in Homes : Taken(h) => Taken(h)'
    BY <1>3, <1>4 DEF Taken
  <1>6. walk'[1].p_node = walk[1].p_node
    BY <1>3
  <1> QED
    BY <1>5, <1>6, WalkOnce

\* An entry is reported where it stands, for the first time.
LEMMA ProcessOnce ==
    ASSUME WalkInv, Process, Once
    PROVE  Once'
  <1>1. /\ InLoop /\ isLeaf(top.p_node) /\ searching = "walk" /\ searching' = "callback"
        /\ reported' = Append(reported, topEntry) /\ walk' = walk /\ entered' = entered
        /\ UNCHANGED vars
    BY DEF Process, InLoop, historyVars
  <1>2. /\ pc = "idle" /\ walk # <<>> /\ Len(walk) \in Nat /\ Len(walk) >= 1
        /\ spot(Len(walk)) \in Homes /\ held(spot(Len(walk))) = topEntry
        /\ open \subseteq entered /\ reported \in Seq(SubNode) /\ topEntry \in SubNode
    BY <1>1, TopSpot, IdleFacts DEF WalkInv, WalkShape
  <1>3. Homes' = Homes /\ \A h \in Homes : held(h)' = held(h)
    BY <1>1, <1>2, IdleStays
  <1>4. \A h : Taken(h) => Taken(h)'
    BY <1>1 DEF Taken
  <1>5. PICK n \in 1 .. Len(walk) : n = Len(walk)
    BY <1>2
  <1>6. PICK x \in Homes : x = spot(n) /\ held(x) = topEntry
    BY <1>2, <1>5
  <1>7. Taken(x)'
    <2>1. x[1] \in entered'
      BY <1>1, <1>2, <1>5, <1>6, WalkFacts DEF WalkInv, WalkShape, spot
    <2>2. ASSUME NEW j \in 1 .. Len(walk), walk[j].p_node = x[1]
          PROVE  j = n
      BY <1>2, <1>5, <1>6, <2>2, LoopsApart DEF spot
    <2>3. x[2] = walk[n].i
      BY <1>6 DEF spot
    <2> QED
      BY <1>1, <2>1, <2>2, <2>3 DEF Taken
  <1>8. ASSUME NEW e \in ToSet(reported')
        PROVE  e \in ToSet(reported) \/ e = topEntry
    <2>1. PICK q \in Seq(SubNode), y \in SubNode : q = reported /\ y = topEntry
      BY <1>2
    <2>2. PICK k \in DOMAIN Append(q, y) : e = Append(q, y)[k]
      BY <1>1, <2>1 DEF ToSet
    <2>3. (k \in 1 .. Len(q) /\ e = q[k]) \/ e = y
      BY <2>2
    <2> QED
      BY <2>1, <2>3 DEF ToSet
  <1>9. ASSUME NEW e \in ToSet(reported')
        PROVE  \E h \in Homes : held(h) = e /\ Taken(h)'
    BY <1>4, <1>6, <1>7, <1>8 DEF Once
  <1> QED
    BY <1>1, <1>3, <1>4, <1>9 DEF Once

\* A node is come to for the first time: its place is the only one that leads
\* to it, and the search has just come to that.
LEMMA VisitNew ==
    ASSUME WalkInv, PathOpen, Visit, Once
    PROVE  topEntry.m_child \in Nodes \ entered
  <1>1. /\ InLoop /\ ~ isLeaf(top.p_node) /\ searching = "walk"
    BY DEF Visit, InLoop
  <1>2. /\ pc = "idle" /\ walk # <<>> /\ ShapeInv /\ Linked /\ walk[1].p_node = m_root
        /\ spot(Len(walk)) \in Homes /\ held(spot(Len(walk))) = topEntry
        /\ Fits(heap, topEntry, height(top.p_node))
    BY <1>1, TopSpot, IdleFacts DEF PathOpen, WalkInv, TreeInv
  <1>3. topEntry.m_child \in Nodes /\ topEntry.m_child # nullptr
    BY <1>1, <1>2 DEF Fits, isLeaf, height, Nodes, nullptr
  <1>4. topEntry.m_child # m_root
    BY <1>2 DEF Linked, Roots
  <1> SUFFICES ASSUME topEntry.m_child \in entered PROVE FALSE
    BY <1>3
  <1>5. PICK h \in Homes : held(h).m_child = topEntry.m_child /\ Taken(h)
    BY <1>2, <1>4 DEF Once
  <1>6. h = spot(Len(walk))
    BY <1>2, <1>3, <1>5 DEF Linked
  <1> QED
    BY <1>1, <1>2, <1>5, <1>6, TopNotTaken

LEMMA VisitOnce ==
    ASSUME WalkInv, PathOpen, Visit, Once
    PROVE  Once'
  <1>1. /\ InLoop /\ searching = "walk" /\ searching' = "walk" /\ UNCHANGED vars
        /\ reported' = reported
        /\ walk' = Append(walk, [p_node |-> topEntry.m_child, i |-> 0])
        /\ entered' = entered \cup {topEntry.m_child}
    BY DEF Visit, InLoop
  <1>2. /\ pc = "idle" /\ walk # <<>> /\ Len(walk) \in Nat /\ Len(walk) >= 1
        /\ spot(Len(walk)) \in Homes /\ held(spot(Len(walk))) = topEntry
        /\ open \subseteq entered /\ walk \in Seq(Loops)
    BY <1>1, TopSpot DEF WalkInv, WalkShape
  <1>3. PICK c \in Nodes \ entered : c = topEntry.m_child
    BY VisitNew
  <1>4. PICK n \in Nat : n = Len(walk) /\ n >= 1 /\ n \in 1 .. n
    BY <1>2
  <1>5. /\ Len(walk') = n + 1 /\ \A j \in 1 .. n : walk'[j] = walk[j]
        /\ walk'[n + 1].p_node = c /\ walk'[n + 1].i = 0
    <2>1. Enters(c)
      BY <1>1, <1>2, <1>3, EnterFacts
    <2> QED
      BY <1>4, <2>1 DEF Enters
  <1>6. \A j \in 1 .. n + 1 : j \in 1 .. n \/ j = n + 1
    BY <1>4
  <1>7. Homes' = Homes /\ \A h \in Homes : held(h)' = held(h)
    BY <1>1, <1>2, IdleStays
  <1>8. ASSUME NEW h, Taken(h)
        PROVE  Taken(h)'
    <2>1. h[1] \in entered' /\ h[1] # c
      BY <1>1, <1>3, <1>8 DEF Taken
    <2>2. ASSUME NEW j \in 1 .. n + 1, walk'[j].p_node = h[1]
          PROVE  h[2] < walk'[j].i \/ (h[2] = walk'[j].i /\ j < n + 1)
      <3>1. j \in 1 .. n /\ walk[j].p_node = h[1] /\ walk'[j].i = walk[j].i
        BY <1>5, <1>6, <2>1, <2>2
      <3>2. h[2] < walk[j].i \/ h[2] = walk[j].i
        BY <1>4, <1>8, <3>1 DEF Taken
      <3>3. j < n + 1
        BY <1>4, <3>1
      <3> QED
        BY <3>1, <3>2, <3>3
    <2> QED
      BY <1>5, <2>1, <2>2 DEF Taken
  <1>9. PICK x \in Homes : x = spot(n) /\ held(x).m_child = c
    BY <1>2, <1>3, <1>4
  <1>10. Taken(x)'
    <2>1. x[1] = walk[n].p_node /\ x[2] = walk[n].i /\ x[1] \in entered
      BY <1>2, <1>4, <1>9, WalkFacts DEF spot
    <2>2. ASSUME NEW j \in 1 .. n + 1, walk'[j].p_node = x[1]
          PROVE  x[2] = walk'[j].i /\ j < n + 1
      <3>1. j \in 1 .. n /\ walk[j].p_node = walk[n].p_node
        BY <1>3, <1>5, <1>6, <2>1, <2>2
      <3>2. j = n
        BY <1>2, <1>4, <3>1, LoopsApart
      <3> QED
        BY <1>4, <1>5, <2>1, <3>2
    <2> QED
      BY <1>1, <1>5, <2>1, <2>2 DEF Taken
  <1>11. walk'[1].p_node = walk[1].p_node
    <2>1. 1 \in 1 .. n
      BY <1>4
    <2> QED
      BY <1>5, <2>1
  <1>12. ASSUME NEW m \in entered'
         PROVE  m = walk'[1].p_node \/ \E h \in Homes : held(h).m_child = m /\ Taken(h)'
    BY <1>1, <1>3, <1>8, <1>9, <1>10, <1>11, <1>12 DEF Once
  <1>13. ASSUME NEW e \in ToSet(reported)
         PROVE  \E h \in Homes : held(h) = e /\ Taken(h)'
    BY <1>8 DEF Once
  <1> QED
    BY <1>1, <1>7, <1>12, <1>13 DEF Once

LEMMA StutterOnce ==
    ASSUME UNCHANGED allVars, Once
    PROVE  Once'
  <1>1. UNCHANGED <<searching, walk, reported, entered>> /\ UNCHANGED vars
    BY DEF allVars, searchVars, historyVars
  <1>2. Homes' = Homes /\ \A h : held(h)' = held(h)
    BY <1>1, StutterHomes
  <1>3. \A h : Taken(h)' <=> Taken(h)
    BY <1>1 DEF Taken
  <1> QED
    BY <1>1, <1>2, <1>3 DEF Once

LEMMA NextOnce == OnceInv /\ [SearchNext]_allVars => OnceInv'
  <1> SUFFICES ASSUME OnceInv, [SearchNext]_allVars, walk' # <<>>, ~ Dead', torn' = {}
               PROVE  Once'
    BY NextSearched DEF OnceInv
  <1>1. /\ SearchedInv /\ SearchedInv' /\ WalkInv /\ WalkInv' /\ Untorn'
    BY NextSearched DEF OnceInv, SearchedInv, Untorn
  <1>2. ASSUME walk # <<>>, ~ Dead, torn = {}
        PROVE  Once /\ PathOpen
    <2>1. searching # "no" /\ Untorn
      BY <1>1, <1>2 DEF WalkInv, WalkShape, Untorn
    <2> QED
      BY <1>1, <1>2, <2>1 DEF OnceInv, SearchedInv
  <1>3. CASE CallIndex
    <2>1. walk # <<>> /\ searching = "callback"
      BY <1>1, <1>3 DEF CallIndex, WalkInv, WalkShape
    <2>2. Undisturbed
      BY <1>1, <1>3, <2>1 DEF Undisturbed, WalkInv
    <2>3. ~ Dead /\ torn = {}
      BY <1>1, <2>2, CallFacts
    <2> QED
      BY <1>1, <1>2, <2>1, <2>2, <2>3, CallOnce
  <1>4. ASSUME NEW a_target \in Targets, SearchTag(a_target)
        PROVE  Once'
    <2>1. /\ searching = "no" /\ walk' = <<[p_node |-> m_root, i |-> 0]>>
          /\ entered' = {m_root} /\ reported' = reported
      BY <1>4 DEF SearchTag
    <2>2. reported' = <<>>
      BY <1>1, <2>1 DEF WalkInv, WalkShape
    <2>3. ToSet(reported') = {} /\ walk'[1].p_node = m_root
      BY <2>1, <2>2 DEF ToSet
    <2> QED
      BY <2>1, <2>3 DEF Once
  <1>5. CASE SearchStep
    <2>1. UNCHANGED vars /\ searching # "no"
      BY <1>5, SearchStepsStutter
      DEF SearchStep, Process, Answer, Pass, Visit, LeaveNode, EndSearch, InLoop
    <2>2. ~ EndSearch /\ walk # <<>> /\ torn = {}
      BY <1>1, <1>5 DEF SearchStep, Process, Answer, Pass, Visit, LeaveNode, EndSearch,
                        InLoop, historyVars, WalkInv, WalkShape
    <2>3. ~ Dead
      BY <2>1 DEF vars, Dead
    <2>4. Once /\ PathOpen
      BY <1>2, <2>2, <2>3
    <2>5. CASE Process
      BY <1>1, <2>4, <2>5, ProcessOnce
    <2>6. CASE Visit
      BY <1>1, <2>4, <2>6, VisitOnce
    <2>7. CASE Pass
      BY <1>1, <2>1, <2>2, <2>4, <2>7, AdvanceOnce
      DEF Pass, InLoop, historyVars, WalkInv, WalkShape
    <2>8. CASE LeaveNode
      BY <1>1, <2>1, <2>2, <2>4, <2>8, AdvanceOnce
      DEF LeaveNode, historyVars, WalkInv, WalkShape
    <2>9. ASSUME NEW conti \in BOOLEAN, Answer(conti)
          PROVE  Once'
      BY <1>1, <2>1, <2>2, <2>4, <2>9, AdvanceOnce DEF Answer, historyVars
    <2> QED
      BY <1>5, <2>2, <2>5, <2>6, <2>7, <2>8, <2>9 DEF SearchStep
  <1>6. CASE UNCHANGED allVars
    <2>1. walk # <<>> /\ ~ Dead /\ torn = {}
      BY <1>6 DEF allVars, searchVars, historyVars, vars, Dead
    <2> QED
      BY <1>2, <1>6, <2>1, StutterOnce
  <1> QED
    BY <1>3, <1>4, <1>5, <1>6 DEF SearchNext
-----------------------------------------------------------------------------
LEMMA SameBoxes ==
    /\ Store!Box = Box /\ Store!Origin = Origin
    /\ \A a, b : Store!isOverlap(a, b) <=> isOverlap(a, b)
  <1>1. Store!Axes = Axes /\ Store!EDGE = EDGE /\ \A x, y : Store!Edge(x, y) = Edge(x, y)
    BY DEF Store!Axes, Axes, Store!EDGE, EDGE, Store!Edge, Edge
  <1>2. Store!AnyBox = AnyBox
    BY <1>1 DEF Store!AnyBox, AnyBox
  <1> QED
    BY <1>1, <1>2
    DEF Store!Box, Box, Store!Origin, Origin, Store!isOverlap, isOverlap

\* The store's variables, as functions of the search's.
Phase == IF Dead THEN "dead"
         ELSE IF searching = "no" THEN "ready"
         ELSE IF torn = {} THEN "searching" ELSE "disturbed"
StoredNow == {<<k, inserted[k]>> : k \in DOMAIN inserted}
DueNow == {<<k, inserted[k]>> :
             k \in {k \in 1 .. before : isOverlap(inserted[k], r_target)}}
ReportedNow == [k \in DOMAIN reported |-> Entry(reported[k])]
DeclinedNow == {Entry(e) : e \in declined}

\* The steps of the store, written with these.
LEMMA StoreStutters ==
    ASSUME UNCHANGED <<Phase, StoredNow, r_target, DueNow, ReportedNow, DeclinedNow>>
    PROVE  UNCHANGED Store!vars
  BY DEF Store!vars, Phase, StoredNow, DueNow, ReportedNow, DeclinedNow

LEMMA StoreAdds ==
    ASSUME Phase # "dead", NEW e \in StoredNow', StoredNow' = StoredNow \cup {e},
           \A f \in StoredNow : f[1] # e[1],
           UNCHANGED <<Phase, r_target, DueNow, ReportedNow, DeclinedNow>>
    PROVE  Store!Next
  BY DEF Store!Next, Store!Add, Phase, StoredNow, DueNow, ReportedNow, DeclinedNow

LEMMA StoreBegins ==
    ASSUME Phase = "ready", Phase' = "searching", r_target' \in Box,
           DueNow' = {e \in StoredNow : isOverlap(e[2], r_target')},
           UNCHANGED <<StoredNow, ReportedNow, DeclinedNow>>
    PROVE  Store!Next
  BY SameBoxes
  DEF Store!Next, Store!BeginSearch, Store!Matching, Phase, StoredNow, DueNow,
      ReportedNow, DeclinedNow

LEMMA StoreReports ==
    ASSUME Phase \in {"searching", "disturbed"}, NEW e \in StoredNow,
           isOverlap(e[2], r_target), Phase = "searching" => e \notin ToSet(ReportedNow),
           ReportedNow' = Append(ReportedNow, e),
           UNCHANGED <<Phase, StoredNow, r_target, DueNow, DeclinedNow>>
    PROVE  Store!Next
  BY SameBoxes
  DEF Store!Next, Store!Report, Store!InSearch, Store!Matching, Phase, StoredNow,
      DueNow, ReportedNow, DeclinedNow, Store!ToSet, ToSet

LEMMA StoreDeclines ==
    ASSUME Phase \in {"searching", "disturbed"}, ReportedNow # <<>>,
           DeclinedNow' = DeclinedNow \cup {Last(ReportedNow)},
           UNCHANGED <<Phase, StoredNow, r_target, DueNow, ReportedNow>>
    PROVE  Store!Next
  BY DEF Store!Next, Store!Decline, Store!InSearch, Phase, StoredNow,
         DueNow, ReportedNow, DeclinedNow, Store!Last, Last

LEMMA StoreDisturbed ==
    ASSUME Phase = "searching", Phase' = "disturbed",
           UNCHANGED <<StoredNow, r_target, DueNow, ReportedNow, DeclinedNow>>
    PROVE  Store!Next
  BY DEF Store!Next, Store!Disturb, Phase, StoredNow, DueNow, ReportedNow, DeclinedNow

LEMMA StoreEnds ==
    ASSUME Phase \in {"searching", "disturbed"},
           Phase = "searching" /\ DeclinedNow = {} => DueNow \subseteq ToSet(ReportedNow),
           Phase' = "ready", r_target' = Origin, DueNow' = {}, ReportedNow' = <<>>,
           DeclinedNow' = {}, UNCHANGED StoredNow
    PROVE  Store!Next
  BY SameBoxes
  DEF Store!Next, Store!EndSearch, Store!InSearch, Phase, StoredNow, DueNow,
      ReportedNow, DeclinedNow, Store!ToSet, ToSet

LEMMA StoreDies ==
    ASSUME Phase # "dead", Phase' = "dead",
           UNCHANGED <<StoredNow, r_target, DueNow, ReportedNow, DeclinedNow>>
    PROVE  Store!Next
  BY DEF Store!Next, Store!Die, Phase, StoredNow, DueNow, ReportedNow, DeclinedNow

\* Only the return of Insert adds to what is stored; a dead program stays as
\* it is.
LEMMA NextInserted ==
    ASSUME Next
    PROVE  /\ inserted' = inserted \/ Finish
           /\ Dead => UNCHANGED vars
  <1>1. CASE \E a_box \in Boxes : Insert(a_box)
    BY <1>1 DEF Insert, indexVars, Dead
  <1>2. CASE Descend \/ DescendNowhere
    BY <1>2 DEF Descend, DescendNowhere, indexVars, Dead
  <1>3. CASE AddToLeaf
    BY <1>3 DEF AddToLeaf, Dead
  <1>4. CASE SplitStep /\ UNCHANGED <<indexVars, callVars>>
    <2>1. pc \in {"seed", "deal", "rest", "check"}
      BY <1>4, SplitStepFrame
    <2> QED
      BY <1>4, <2>1 DEF indexVars, Dead
  <1>5. CASE AllocateSibling \/ FillNext \/ FillDone
    BY <1>5 DEF AllocateSibling, FillNext, FillDone, Dead
  <1>6. CASE ReturnUnsplit \/ ReturnSplit
    BY <1>6 DEF ReturnUnsplit, ReturnSplit, Dead
  <1>7. CASE DanglingRead
    BY <1>7 DEF DanglingRead, indexVars, Dead
  <1>8. CASE Finish
    BY <1>8 DEF Finish, Dead
  <1>9. CASE Stopped
    BY <1>9 DEF Stopped, vars, indexVars
  <1> QED
    BY <1>1, <1>2, <1>3, <1>4, <1>5, <1>6, <1>7, <1>8, <1>9 DEF Next, InsertStep

LEMMA InsertedFacts ==
    ASSUME WalkInv
    PROVE  /\ inserted \in Seq(Box) /\ Len(inserted) = m_size /\ m_size \in Nat
           /\ DOMAIN inserted = 1 .. m_size
           /\ before \in Nat /\ before <= m_size
           /\ \A k \in 1 .. before : k \in DOMAIN inserted
  <1>1. /\ inserted \in Seq(Box) /\ m_size \in 0 .. MaxInserts /\ Len(inserted) = m_size
        /\ before \in Nat /\ before <= m_size
    BY DEF WalkInv, TreeInv, Kept, OccupiedInv, ShapeInv, TypeOK, WalkShape
  <1>2. m_size \in Nat /\ DOMAIN inserted = 1 .. m_size
    BY <1>1, MaxInsertsAssumption
  <1> QED
    BY <1>1, <1>2

LEMMA CallImplements ==
    ASSUME WalkInv, CallIndex
    PROVE  Store!Next \/ UNCHANGED Store!vars
  <1>1. /\ Next /\ UNCHANGED <<searching, r_target, walk, reported, declined, before>>
        /\ torn \subseteq torn' /\ (pc # "assigned" => torn' = torn)
    BY DEF CallIndex
  <1>2. UNCHANGED <<r_target, ReportedNow, DeclinedNow>>
    BY <1>1 DEF ReportedNow, DeclinedNow
  <1>3. CASE Dead
    <2>1. UNCHANGED vars /\ pc # "assigned"
      BY <1>1, <1>3, NextInserted DEF Dead
    <2>2. inserted' = inserted /\ Dead' /\ torn' = torn
      BY <1>1, <1>3, <2>1 DEF vars, indexVars, Dead
    <2>3. UNCHANGED <<Phase, StoredNow, DueNow>>
      BY <1>1, <1>3, <2>2 DEF Phase, StoredNow, DueNow
    <2> QED
      BY <1>2, <2>3, StoreStutters
  <1>4. CASE ~ Dead /\ inserted' = inserted
    <2>1. UNCHANGED <<StoredNow, DueNow>>
      BY <1>1, <1>4 DEF StoredNow, DueNow
    <2>2. CASE Dead'
      <3>1. Phase # "dead" /\ Phase' = "dead"
        BY <1>4, <2>2 DEF Phase
      <3> QED
        BY <1>2, <2>1, <3>1, StoreDies
    <2>3. CASE ~ Dead' /\ Phase' = Phase
      BY <1>2, <2>1, <2>3, StoreStutters
    <2>4. CASE ~ Dead' /\ Phase' # Phase
      <3>1. Phase = "searching" /\ Phase' = "disturbed"
        BY <1>1, <1>4, <2>4 DEF Phase
      <3> QED
        BY <1>2, <2>1, <3>1, StoreDisturbed
    <2> QED
      BY <2>2, <2>3, <2>4
  <1>5. CASE ~ Dead /\ Finish
    <2>1. /\ pc = "return" /\ pc' = "idle" /\ inserted' = Append(inserted, r_subNode.m_box)
          /\ r_subNode.m_box \in Box
      BY <1>5 DEF Finish, WalkInv, TreeInv, OccupiedInv, ShapeInv, TypeOK, SubNode
    <2>2. Phase # "dead" /\ Phase' = Phase
      BY <1>1, <1>5, <2>1 DEF Phase, Dead
    <2>3. /\ DOMAIN inserted' = DOMAIN inserted \cup {m_size + 1}
          /\ m_size + 1 \notin DOMAIN inserted
          /\ inserted'[m_size + 1] = r_subNode.m_box
          /\ \A k \in DOMAIN inserted : inserted'[k] = inserted[k]
      BY <2>1, InsertedFacts
    <2>4. PICK e : e = <<m_size + 1, r_subNode.m_box>>
      OBVIOUS
    <2>5. StoredNow' = StoredNow \cup {e}
      BY <2>3, <2>4 DEF StoredNow
    <2>6. \A f \in StoredNow : f[1] # e[1]
      BY <2>3, <2>4 DEF StoredNow
    <2>7. DueNow' = DueNow
      BY <1>1, <2>3, InsertedFacts DEF DueNow
    <2> QED
      BY <1>2, <2>2, <2>5, <2>6, <2>7, StoreAdds
  <1> QED
    BY <1>1, <1>3, <1>4, <1>5, NextInserted

\* A search is due what matches among the entries of the calls that returned.
LEMMA BeginImplements ==
    ASSUME WalkInv, NEW a_target \in Targets, SearchTag(a_target)
    PROVE  Store!Next
  <1>1. /\ pc = "idle" /\ searching = "no" /\ searching' = "walk" /\ UNCHANGED vars
        /\ r_target' = a_target /\ before' = m_size
        /\ UNCHANGED <<reported, declined, torn>>
    BY DEF SearchTag
  <1>2. torn = {} /\ inserted' = inserted /\ pc' = "idle"
    BY <1>1 DEF WalkInv, WalkShape, vars, indexVars
  <1>3. Phase = "ready" /\ Phase' = "searching"
    BY <1>1, <1>2 DEF Phase, Dead
  <1>4. UNCHANGED <<StoredNow, ReportedNow, DeclinedNow>> /\ r_target' \in Box
    BY <1>1, <1>2, TargetsAssumption DEF StoredNow, ReportedNow, DeclinedNow
  <1>5. DueNow' = {e \in StoredNow : isOverlap(e[2], r_target')}
    <2>1. DOMAIN inserted = 1 .. m_size
      BY InsertedFacts
    <2>2. DueNow' = {<<k, inserted[k]>> :
                       k \in {k \in 1 .. m_size : isOverlap(inserted[k], a_target)}}
      BY <1>1, <1>2 DEF DueNow
    <2> QED
      BY <1>1, <2>1, <2>2 DEF StoredNow
  <1> QED
    BY <1>3, <1>4, <1>5, StoreBegins

\* An entry in a leaf is one of those stored.
LEMMA LeafEntry ==
    ASSUME WalkInv, pc = "idle", NEW h \in Homes, held(h).m_data # NoData
    PROVE  /\ held(h).m_data \in 1 .. m_size
           /\ held(h).m_box = inserted[held(h).m_data]
           /\ Entry(held(h)) \in StoredNow
  <1>1. held(h).m_data \in Nat /\ held(h).m_data >= 1 /\ m_size \in Nat
    BY IdleFacts, InsertedFacts DEF SubNode, NoData
  <1>2. held(h).m_data <= m_size + 1 /\ held(h).m_data # m_size + 1
    BY DEF WalkInv, TreeInv, Kept, Quiet
  <1>3. held(h).m_data \in 1 .. m_size
    BY <1>1, <1>2
  <1>4. held(h).m_box = inserted[held(h).m_data]
    BY <1>3 DEF WalkInv, TreeInv, Kept
  <1> QED
    BY <1>3, <1>4, InsertedFacts DEF Entry, StoredNow

\* An undisturbed search hands out no entry twice.
LEMMA ProcessImplements ==
    ASSUME WalkInv, torn = {} => Once, Process
    PROVE  Store!Next
  <1>1. /\ InLoop /\ isLeaf(top.p_node) /\ isOverlap(topEntry.m_box, r_target)
        /\ searching = "walk" /\ searching' = "callback"
        /\ reported' = Append(reported, topEntry) /\ UNCHANGED vars
        /\ UNCHANGED <<r_target, walk, declined, before, torn>>
    BY DEF Process, InLoop, historyVars
  <1>2. /\ pc = "idle" /\ walk # <<>> /\ spot(Len(walk)) \in Homes
        /\ held(spot(Len(walk))) = topEntry /\ Fits(heap, topEntry, 0)
        /\ pc' = "idle" /\ inserted' = inserted
    BY <1>1, TopSpot DEF isLeaf, height, vars, indexVars
  <1>3. topEntry.m_data # NoData
    BY <1>2 DEF Fits
  <1>4. PICK x \in Homes : x = spot(Len(walk)) /\ held(x) = topEntry
    BY <1>2
  <1>5. PICK e \in StoredNow : e = Entry(topEntry) /\ e[2] = topEntry.m_box
    BY <1>2, <1>3, <1>4, LeafEntry DEF Entry
  <1>6. Phase \in {"searching", "disturbed"} /\ (Phase = "searching" => torn = {})
    BY <1>1, <1>2 DEF Phase, Dead
  <1>7. UNCHANGED <<Phase, StoredNow, r_target, DueNow, DeclinedNow>>
    BY <1>1, <1>2 DEF Phase, Dead, StoredNow, DueNow, DeclinedNow
  <1>8. reported \in Seq(SubNode) /\ topEntry \in SubNode
    BY <1>2, <1>4, IdleFacts DEF WalkInv, WalkShape
  <1>9. ReportedNow' = Append(ReportedNow, e)
    BY <1>1, <1>5, <1>8 DEF ReportedNow
  <1>10. Phase = "searching" => e \notin ToSet(ReportedNow)
    <2> SUFFICES ASSUME Phase = "searching", e \in ToSet(ReportedNow)
                 PROVE  FALSE
      OBVIOUS
    <2>1. PICK k \in DOMAIN reported : e = Entry(reported[k])
      <3>1. DOMAIN ReportedNow = DOMAIN reported
        BY DEF ReportedNow
      <3>2. PICK k \in DOMAIN ReportedNow : e = ReportedNow[k]
        BY DEF ToSet
      <3> QED
        BY <3>1, <3>2 DEF ReportedNow
    <2>2. reported[k].m_data = topEntry.m_data /\ reported[k] \in ToSet(reported)
      BY <1>5, <2>1 DEF Entry, ToSet
    <2>3. PICK h \in Homes : held(h) = reported[k] /\ Taken(h)
      BY <1>6, <2>2 DEF Once
    <2>4. h = x
      BY <1>3, <1>4, <2>2, <2>3 DEF WalkInv, TreeInv, Kept
    <2> QED
      BY <1>1, <1>2, <1>4, <2>3, <2>4, TopNotTaken
  <1> QED
    BY <1>1, <1>5, <1>6, <1>7, <1>9, <1>10, StoreReports

\* A search that ends undisturbed and undeclined has reported all it owed.
LEMMA EndImplements ==
    ASSUME WalkInv, MissesExplained, EndSearch
    PROVE  Store!Next
  <1>1. /\ searching = "walk" /\ walk = <<>> /\ searching' = "no" /\ pc = "idle"
        /\ r_target' = Origin /\ reported' = <<>> /\ declined' = {} /\ before' = 0
        /\ pc' = "idle" /\ inserted' = inserted
    BY DEF EndSearch, WalkInv, WalkShape, vars, indexVars
  <1>2. Phase \in {"searching", "disturbed"} /\ Phase' = "ready"
        /\ (Phase = "searching" => torn = {})
    BY <1>1 DEF Phase, Dead
  <1>3. /\ DueNow' = {} /\ ReportedNow' = <<>> /\ DeclinedNow' = {}
        /\ UNCHANGED StoredNow
    <2>1. 1 .. 0 = {} /\ DOMAIN <<>> = {}
      OBVIOUS
    <2> QED
      BY <1>1, <2>1 DEF DueNow, ReportedNow, DeclinedNow, StoredNow
  <1>4. ASSUME Phase = "searching", DeclinedNow = {}, NEW e \in DueNow
        PROVE  e \in ToSet(ReportedNow)
    <2>1. declined = {} /\ torn = {}
      BY <1>2, <1>4 DEF DeclinedNow
    <2>2. Missed = {}
      BY <1>1, <2>1 DEF MissesExplained
    <2>3. PICK k \in 1 .. before : e = <<k, inserted[k]>> /\ isOverlap(inserted[k], r_target)
      BY <1>4 DEF DueNow
    <2>4. k \in 1 .. m_size /\ k # NoData /\ k <= before
      BY InsertedFacts DEF NoData
    <2>5. PICK h \in Homes : held(h).m_data = k
      BY <2>4 DEF WalkInv, TreeInv, Kept
    <2>6. held(h).m_box = inserted[k]
      BY <1>1, <2>4, <2>5, LeafEntry
    <2>7. PICK n, s : h = <<n, s>> /\ n \in Nodes /\ h \in Places /\ at(h) = held(h)
      BY <1>1, IdleFacts DEF Homes, held, HomesTyped
    <2>8. isLeaf(n)
      <3>1. held(h).m_child = nullptr
        BY <1>1, <2>4, <2>5, IdleFacts, HomeChildren DEF ChildrenTyped
      <3>2. HeightsStep
        BY <1>1, IdleFacts, ShapeHeights
      <3>3. h[1] = n /\ at(h).m_child \notin Nodes
        BY <2>7, <3>1 DEF Nodes, nullptr
      <3> QED
        BY <2>7, <3>2, <3>3 DEF HeightsStep
    <2>9. at(h) \in ToSet(reported)
      BY <2>2, <2>3, <2>4, <2>5, <2>6, <2>7, <2>8 DEF Missed
    <2>10. PICK j \in DOMAIN reported : reported[j] = held(h)
      BY <2>7, <2>9 DEF ToSet
    <2>11. e = Entry(reported[j])
      BY <2>3, <2>5, <2>6, <2>10 DEF Entry
    <2> QED
      BY <2>10, <2>11 DEF ToSet, ReportedNow
  <1> QED
    BY <1>1, <1>2, <1>3, <1>4, StoreEnds

LEMMA AnswerImplements ==
    ASSUME WalkInv, NEW conti \in BOOLEAN, Answer(conti)
    PROVE  Store!Next \/ UNCHANGED Store!vars
  <1>1. /\ searching = "callback" /\ pc = "idle" /\ searching' = "walk"
        /\ reported' = reported /\ reported # <<>> /\ reported \in Seq(SubNode)
        /\ declined' = IF conti THEN declined ELSE declined \cup {Last(reported)}
        /\ UNCHANGED <<r_target, before, torn>> /\ pc' = "idle" /\ inserted' = inserted
    BY DEF Answer, WalkInv, WalkShape, historyVars, vars, indexVars
  <1>2. Phase \in {"searching", "disturbed"} /\ Phase' = Phase
    BY <1>1 DEF Phase, Dead
  <1>3. UNCHANGED <<StoredNow, r_target, DueNow, ReportedNow>>
    BY <1>1 DEF StoredNow, DueNow, ReportedNow
  <1>4. CASE conti
    <2>1. DeclinedNow' = DeclinedNow
      BY <1>1, <1>4 DEF DeclinedNow
    <2> QED
      BY <1>2, <1>3, <2>1, StoreStutters
  <1>5. CASE ~ conti
    <2>1. Len(reported) \in DOMAIN reported /\ Last(reported) = reported[Len(reported)]
      BY <1>1 DEF Last
    <2>2. ReportedNow # <<>> /\ Last(ReportedNow) = Entry(Last(reported))
      <3>1. Len(ReportedNow) = Len(reported)
        BY <1>1 DEF ReportedNow
      <3>2. ReportedNow[Len(reported)] = Entry(reported[Len(reported)])
        BY <2>1 DEF ReportedNow
      <3>3. ReportedNow # <<>>
        BY <1>1, <3>1
      <3> QED
        BY <2>1, <3>1, <3>2, <3>3 DEF Last
    <2>3. DeclinedNow' = DeclinedNow \cup {Last(ReportedNow)}
      BY <1>1, <1>5, <2>2 DEF DeclinedNow
    <2> QED
      BY <1>2, <1>3, <2>2, <2>3, StoreDeclines
  <1> QED
    BY <1>4, <1>5

LEMMA StepImplements ==
    OnceInv /\ [SearchNext]_allVars => Store!Next \/ UNCHANGED Store!vars
  <1> SUFFICES ASSUME OnceInv, [SearchNext]_allVars
               PROVE  Store!Next \/ UNCHANGED Store!vars
    OBVIOUS
  <1>1. SearchedInv /\ WalkInv /\ MissesExplained
    BY SearchedMisses DEF OnceInv, SearchedInv
  <1>2. CASE CallIndex
    BY <1>1, <1>2, CallImplements
  <1>3. ASSUME NEW a_target \in Targets, SearchTag(a_target)
        PROVE  Store!Next
    BY <1>1, <1>3, BeginImplements
  <1>4. CASE Process
    <2>1. walk # <<>> /\ ~ Dead
      BY <1>1, <1>4 DEF Process, InLoop, WalkInv, WalkShape, Dead
    <2> QED
      BY <1>1, <1>4, <2>1, ProcessImplements DEF OnceInv
  <1>5. ASSUME NEW conti \in BOOLEAN, Answer(conti)
        PROVE  Store!Next \/ UNCHANGED Store!vars
    BY <1>1, <1>5, AnswerImplements
  <1>6. CASE Pass \/ Visit \/ LeaveNode \/ UNCHANGED allVars
    <2>1. UNCHANGED <<pc, inserted, searching, r_target, reported, declined, before, torn>>
      BY <1>6
      DEF Pass, Visit, LeaveNode, allVars, searchVars, historyVars, vars, indexVars
    <2>2. UNCHANGED <<Phase, StoredNow, DueNow, ReportedNow, DeclinedNow>>
      BY <2>1 DEF Phase, Dead, StoredNow, DueNow, ReportedNow, DeclinedNow
    <2> QED
      BY <2>1, <2>2, StoreStutters
  <1>7. CASE EndSearch
    BY <1>1, <1>7, EndImplements
  <1> QED
    BY <1>2, <1>3, <1>4, <1>5, <1>6, <1>7 DEF SearchNext, SearchStep

LEMMA InitImplements == SearchInit => Store!Init
  <1> SUFFICES ASSUME SearchInit PROVE Store!Init
    OBVIOUS
  <1>1. /\ pc = "idle" /\ searching = "no" /\ inserted = <<>> /\ r_target = Origin
        /\ reported = <<>> /\ declined = {} /\ before = 0
    BY DEF SearchInit, Init
  <1>2. /\ Phase = "ready" /\ StoredNow = {} /\ DueNow = {} /\ ReportedNow = <<>>
        /\ DeclinedNow = {}
    <2>1. 1 .. 0 = {} /\ DOMAIN <<>> = {}
      OBVIOUS
    <2> QED
      BY <1>1, <2>1 DEF Phase, Dead, StoredNow, DueNow, ReportedNow, DeclinedNow
  <1> QED
    BY <1>1, <1>2, SameBoxes
    DEF Store!Init, Phase, StoredNow, DueNow, ReportedNow, DeclinedNow

\* The tree, its splits and the search through it are an EntryStore: Insert
\* adds one entry and loses none, and a search hands out entries that match,
\* each once, and all that were stored when it began, unless it is declined or
\* its own callback splits a node that it has come to.
THEOREM SearchImplementsStore == SearchSpec => ImplementsStore
  <1>1. SearchInit => OnceInv
    BY InitWalk DEF SearchInit, SearchedInv, OnceInv
  <1>2. SearchSpec => []OnceInv
    BY <1>1, NextOnce, PTL DEF SearchSpec
  <1>3. OnceInv /\ [SearchNext]_allVars => [Store!Next]_(Store!vars)
    BY StepImplements
  <1> QED
    BY <1>2, <1>3, InitImplements, PTL DEF SearchSpec, ImplementsStore, Store!Spec
=============================================================================
