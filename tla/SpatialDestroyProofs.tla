------------------------ MODULE SpatialDestroyProofs ------------------------
(***************************************************************************)
(* What the destructor of SpatialIndex does to every tree that Insert can  *)
(* build, for every size of a node and every set of boxes.  It visits all  *)
(* slots of a node, so the invariants of the insertion are extended to the *)
(* slots above m_csize (SlotsInv); those of the destructor itself (Walk)   *)
(* say which nodes are on its stack, which are freed, and that no two      *)
(* visited slots led to the same node.                                     *)
(***************************************************************************)
EXTENDS SpatialDestroy, SpatialIndexProofs

\* Every slot, used or stale, is empty or leads one level down.
SlotsFit ==
    \A n \in Nodes, s \in Slots :
        \/ sub(n, s).m_child = nullptr
        \/ /\ sub(n, s).m_child \in Nodes
           /\ height(sub(n, s).m_child) = height(n) - 1

\* The root has no stale slot: a root that was split becomes a child.
RootClean ==
    \/ Dead
    \/ pc = "fill" /\ p_node = m_root
    \/ Pending /\ frames = <<>>
    \/ \A s \in Slots : s < csize(m_root) \/ sub(m_root, s).m_child = nullptr

SlotsInv == SlotsFit /\ RootClean

\* What a step may do to the slots of the nodes.
SlotsStep ==
    /\ Nodes \subseteq Nodes'
    /\ \A n \in Nodes :
         /\ height(n)' = height(n)
         /\ \/ csize(n)' >= csize(n)
            \/ pc = "assigned" /\ pc' = "fill" /\ n = p_node /\ p_node' = p_node
         /\ \A s \in Slots : \/ s < csize(n)'
                             \/ sub(n, s)'.m_child = sub(n, s).m_child
    /\ \A n \in Nodes' \ Nodes, s \in Slots :
         s < csize(n)' \/ sub(n, s)'.m_child = nullptr

LEMMA SameSlots ==
    ASSUME TypeOK, heap' = heap
    PROVE  SlotsStep
  <1>1. Nodes' = Nodes
    BY DEF Nodes
  <1>2. \A n \in Nodes : csize(n) \in Nat
    BY FrameFields
  <1> QED
    BY <1>1, <1>2 DEF SlotsStep, height, csize, sub

LEMMA PlacedSlots ==
    ASSUME TypeOK, NEW n \in Nodes, NEW entry \in SubNode, csize(n) < MaxChildren,
           heap' = Placed(heap, entry, n)
    PROVE  SlotsStep
  <1>1. /\ heap \in Seq(Node) /\ n \in 1 .. Len(heap)
        /\ \A k \in Nodes : csize(k) \in Nat
    BY FrameFields DEF Nodes
  <1>2. /\ Len(heap') = Len(heap)
        /\ \A k \in 1 .. Len(heap) : /\ heap'[k].m_height = heap[k].m_height
                                     /\ k # n => heap'[k] = heap[k]
        /\ heap'[n].m_csize = heap[n].m_csize + 1
        /\ heap[n].m_csize \in Slots
        /\ \A s \in Slots : s # heap[n].m_csize =>
             heap'[n].m_subNodes[s] = heap[n].m_subNodes[s]
    BY <1>1, PlacedHeap DEF csize
  <1>3. Nodes' = Nodes
    BY <1>2 DEF Nodes
  <1>4. heap[n].m_csize < heap[n].m_csize + 1
    BY <1>1 DEF csize
  <1> QED
    BY <1>1, <1>2, <1>3, <1>4 DEF SlotsStep, height, csize, sub, Nodes

\* An entry is added to node n of a heap g that has the same slots.
LEMMA AddSubNodeSlots ==
    ASSUME TypeOK, NEW g \in Seq(Node), Len(g) = Len(heap),
           \A k \in 1 .. Len(heap) :
             /\ g[k].m_csize = heap[k].m_csize /\ g[k].m_height = heap[k].m_height
             /\ \A s \in Slots : g[k].m_subNodes[s].m_child = heap[k].m_subNodes[s].m_child,
           NEW n \in Nodes, NEW entry \in SubNode, AddSubNode(g, entry, n)
    PROVE  SlotsStep
  <1>1. heap \in Seq(Node) /\ n \in 1 .. Len(g) /\ \A k \in Nodes : csize(k) \in Nat
    BY FrameFields DEF Nodes
  <1>2. CASE g[n].m_csize < MaxChildren
    <2>1. heap' = Placed(g, entry, n)
      BY <1>2 DEF AddSubNode
    <2>2. /\ Len(heap') = Len(g)
          /\ \A k \in 1 .. Len(g) : /\ heap'[k].m_height = g[k].m_height
                                    /\ k # n => heap'[k] = g[k]
          /\ heap'[n].m_csize = g[n].m_csize + 1
          /\ g[n].m_csize \in Slots
          /\ \A s \in Slots : s # g[n].m_csize =>
               heap'[n].m_subNodes[s] = g[n].m_subNodes[s]
      BY <1>1, <1>2, <2>1, PlacedHeap
    <2>3. Nodes' = Nodes
      BY <2>2 DEF Nodes
    <2>4. heap[n].m_csize \in Nat /\ heap'[n].m_csize = heap[n].m_csize + 1
      BY <1>1, <2>2 DEF csize
    <2>5. \A k \in Nodes : /\ height(k)' = height(k)
                           /\ k # n => csize(k)' = csize(k)
      BY <1>1, <2>2 DEF height, csize, Nodes
    <2>6. csize(n)' >= csize(n)
      BY <2>4 DEF csize
    <2>7. ASSUME NEW k \in Nodes, NEW s \in Slots, k # n
          PROVE  sub(k, s)'.m_child = sub(k, s).m_child
      BY <2>2, <2>7 DEF sub, Nodes
    <2>8. ASSUME NEW s \in Slots, ~ (s < csize(n)')
          PROVE  sub(n, s)'.m_child = sub(n, s).m_child
      <3>1. s # g[n].m_csize
        BY <1>1, <2>2, <2>4, <2>8, SlotFacts DEF csize
      <3> QED
        BY <1>1, <2>2, <3>1 DEF sub, Nodes
    <2>9. \A k \in Nodes : csize(k)' >= csize(k)
      BY <1>1, <2>5, <2>6
    <2> QED
      BY <2>3, <2>5, <2>7, <2>8, <2>9 DEF SlotsStep
  <1>3. CASE ~ (g[n].m_csize < MaxChildren)
    <2>1. heap' = g
      BY <1>3 DEF AddSubNode
    <2>2. Nodes' = Nodes
      BY <2>1 DEF Nodes
    <2> QED
      BY <1>1, <2>1, <2>2 DEF SlotsStep, height, csize, sub, Nodes
  <1> QED
    BY <1>2, <1>3

LEMMA AllocateSiblingSlots ==
    ASSUME ShapeInv, AllocateSibling
    PROVE  SlotsStep
  <1>1. /\ pc = "assigned" /\ pc' = "fill" /\ p_node' = p_node
        /\ heap' = Append([heap EXCEPT ![p_node].m_csize = 0],
                          NewNode(height(p_node)))
    BY DEF AllocateSibling, height
  <1>2. /\ TypeOK /\ p_node \in Nodes /\ heap \in Seq(Node) /\ height(p_node) \in Nat
        /\ Len(heap) \in Nat /\ \A k \in Nodes : csize(k) \in Nat
    BY <1>1, FrameFields DEF ShapeInv, Shape, Active, Splitting, Path
  <1>3. PICK n \in 1 .. Len(heap), new \in Nat : n = p_node /\ new = Len(heap) + 1
    BY <1>2 DEF Nodes
  <1>4. /\ Len(heap') = new
        /\ \A k \in 1 .. Len(heap) : /\ heap'[k].m_height = heap[k].m_height
                                     /\ heap'[k].m_subNodes = heap[k].m_subNodes
                                     /\ k # n => heap'[k] = heap[k]
        /\ heap'[new] = NewNode(height(p_node))
    BY <1>1, <1>2, <1>3, SplitHeap
  <1>5. Nodes' = Nodes \cup {new} /\ new \notin Nodes
    BY <1>2, <1>3, <1>4 DEF Nodes
  <1>6. \A s \in Slots : heap'[new].m_subNodes[s].m_child = nullptr
    BY <1>4 DEF NewNode, NoEntry
  <1>7. \A k \in Nodes : k # p_node => heap'[k] = heap[k]
    BY <1>3, <1>4 DEF Nodes
  <1>8. \A k \in Nodes : /\ heap'[k].m_height = heap[k].m_height
                         /\ heap'[k].m_subNodes = heap[k].m_subNodes
    BY <1>4 DEF Nodes
  <1>9. \A k \in Nodes : /\ height(k)' = height(k)
                         /\ k # p_node => csize(k)' >= csize(k)
    BY <1>2, <1>7, <1>8 DEF height, csize
  <1>10. \A k \in Nodes, s \in Slots : sub(k, s)' = sub(k, s)
    BY <1>8 DEF sub
  <1>11. \A k \in Nodes' \ Nodes, s \in Slots : sub(k, s)'.m_child = nullptr
    BY <1>5, <1>6 DEF sub
  <1>12. pc = "assigned" /\ pc' = "fill" /\ p_node' = p_node
    BY <1>1
  <1> QED
    BY <1>5, <1>9, <1>10, <1>11, <1>12 DEF SlotsStep

\* Only boxes change.
LEMMA BoxSlots ==
    ASSUME TypeOK, Len(heap') = Len(heap),
           \A k \in 1 .. Len(heap) :
             /\ heap'[k].m_csize = heap[k].m_csize /\ heap'[k].m_height = heap[k].m_height
             /\ \A s \in Slots :
                  heap'[k].m_subNodes[s].m_child = heap[k].m_subNodes[s].m_child
    PROVE  SlotsStep
  <1>1. Nodes' = Nodes /\ \A k \in Nodes : csize(k) \in Nat
    BY FrameFields DEF Nodes
  <1>2. \A k \in Nodes : height(k)' = height(k) /\ csize(k)' >= csize(k)
    BY <1>1 DEF height, csize, Nodes
  <1>3. \A k \in Nodes, s \in Slots : sub(k, s)'.m_child = sub(k, s).m_child
    BY <1>1 DEF sub, Nodes
  <1> QED
    BY <1>1, <1>2, <1>3 DEF SlotsStep

LEMMA ReturnUnsplitSlots ==
    ASSUME ShapeInv, ReturnUnsplit
    PROVE  SlotsStep
  <1>1. pc = "return" /\ frames # <<>>
    BY DEF ReturnUnsplit
  <1>2. TypeOK /\ Path /\ heap \in Seq(Node)
    BY <1>1 DEF ShapeInv, Shape, Active, TypeOK
  <1>3. PICK n \in 1 .. Len(heap), s \in Slots, b \in Box : heap' = WithBox(heap, n, s, b)
    <2>1. caller.p_node \in Nodes /\ caller.index \in Slots
      BY <1>1, <1>2, PathCaller, FrameFields
    <2>2. sub(caller.p_node, caller.index) \in SubNode /\ r_subNode \in SubNode
      BY <1>2, <2>1, FrameFields DEF TypeOK
    <2>3. UnionBox(sub(caller.p_node, caller.index).m_box, r_subNode.m_box) \in Box
      BY <2>2, NodeFields, UnionBoxType
    <2> QED
      BY <2>1, <2>3 DEF ReturnUnsplit, Nodes
  <1>4. /\ Len(heap') = Len(heap)
        /\ \A k \in 1 .. Len(heap) :
             heap'[k].m_csize = heap[k].m_csize /\ heap'[k].m_height = heap[k].m_height
    BY <1>2, <1>3, WithBoxHeap
  <1>5. /\ \A k \in 1 .. Len(heap) : k # n => heap'[k] = heap[k]
        /\ \A t \in Slots : heap'[n].m_subNodes[t].m_child = heap[n].m_subNodes[t].m_child
    BY <1>2, <1>3, WithOneBox
  <1> QED
    BY <1>2, <1>4, <1>5, BoxSlots

LEMMA ReturnSplitSlots ==
    ASSUME ShapeInv, ReturnSplit
    PROVE  SlotsStep
  <1>1. pc = "return" /\ splited /\ frames # <<>>
    BY DEF ReturnSplit
  <1>2. TypeOK /\ Path /\ heap \in Seq(Node) /\ Pending /\ Shape
    BY <1>1 DEF ShapeInv, Shape, Active, Pending, TypeOK
  <1>3. PICK n \in 1 .. Len(heap), s \in Slots, b \in Box, entry \in SubNode :
          AddSubNode(WithBox(heap, n, s, b), entry, n)
    <2>1. caller.p_node \in Nodes /\ caller.index \in Slots
      BY <1>1, <1>2, PathCaller, FrameFields
    <2>2. /\ NodeCover(heap, p_node) \in Box
          /\ [m_box |-> NodeCover(heap, m_nodeBuffer),
              m_child |-> m_nodeBuffer, m_data |-> NoData] \in SubNode
      BY <1>1, <1>2, SiblingEntry
    <2> QED
      BY <2>1, <2>2 DEF ReturnSplit, Nodes
  <1>4. PICK h \in Seq(Node) :
          /\ h = WithBox(heap, n, s, b) /\ Len(h) = Len(heap)
          /\ \A k \in 1 .. Len(heap) : h[k].m_height = heap[k].m_height
    BY <1>2, <1>3, WithBoxHeap
  <1>5. /\ \A k \in 1 .. Len(heap) : /\ h[k].m_csize = heap[k].m_csize
                                     /\ k # n => h[k] = heap[k]
        /\ \A t \in Slots : h[n].m_subNodes[t].m_child = heap[n].m_subNodes[t].m_child
    BY <1>2, <1>4, WithOneBox
  <1>6. \A k \in 1 .. Len(heap), t \in Slots :
          h[k].m_subNodes[t].m_child = heap[k].m_subNodes[t].m_child
    BY <1>5
  <1>7. AddSubNode(h, entry, n) /\ n \in Nodes
    BY <1>3, <1>4 DEF Nodes
  <1> QED
    BY <1>2, <1>4, <1>5, <1>6, <1>7, AddSubNodeSlots

\* The new root has two entries and no stale slot.
LEMMA GrownRoot ==
    ASSUME heap \in Seq(Node), m_root \in Nodes, m_nodeBuffer \in Nodes
    PROVE  \A s \in Slots : s < 2
             \/ GrownHeap[Len(heap) + 1].m_subNodes[s].m_child = nullptr
  <1> DEFINE new == Len(heap) + 1
  <1>1. /\ childEntry(m_root) \in SubNode /\ childEntry(m_nodeBuffer) \in SubNode
        /\ height(m_root) \in Nat /\ new \in Nat
    BY GrownHeapFacts, NodeFields DEF height, Nodes
  <1>2. PICK g \in Seq(Node) : g = Append(heap, NewNode(height(m_root) + 1))
    <2>1. PICK x \in Node : x = NewNode(height(m_root) + 1)
      BY <1>1, NodeFields
    <2>2. Append(heap, x) \in Seq(Node)
      OBVIOUS
    <2> QED
      BY <2>1, <2>2
  <1>3. /\ new \in 1 .. Len(g) /\ g[new] = NewNode(height(m_root) + 1)
    BY <1>2
  <1>4. g[new].m_csize = 0 /\ \A s \in Slots : g[new].m_subNodes[s].m_child = nullptr
    BY <1>3 DEF NewNode, NoEntry
  <1>5. PICK f \in Seq(Node) :
          /\ f = Placed(g, childEntry(m_root), new) /\ Len(f) = Len(g)
          /\ f[new].m_csize = 1
          /\ \A s \in Slots : s # 0 => f[new].m_subNodes[s] = g[new].m_subNodes[s]
    <2>1. g[new].m_csize < MaxChildren
      BY <1>4, SlotFacts
    <2> HIDE DEF new
    <2> QED
      BY <1>1, <1>3, <1>4, <2>1, PlacedHeap
  <1>6. PICK x \in Seq(Node) :
          /\ x = Placed(f, childEntry(m_nodeBuffer), new)
          /\ \A s \in Slots : s # 1 => x[new].m_subNodes[s] = f[new].m_subNodes[s]
    <2>1. f[new].m_csize < MaxChildren /\ new \in 1 .. Len(f)
      BY <1>3, <1>5, SlotFacts
    <2> HIDE DEF new
    <2> QED
      BY <1>1, <1>5, <2>1, PlacedHeap
  <1>7. x = GrownHeap
    BY <1>2, <1>5, <1>6 DEF GrownHeap, height
  <1>8. \A s \in Slots : s < 2 \/ (s # 0 /\ s # 1)
    BY SlotFacts
  <1> QED
    BY <1>4, <1>5, <1>6, <1>7, <1>8

LEMMA FinishSlots ==
    ASSUME ShapeInv, Finish
    PROVE  SlotsStep
  <1>1. pc = "return" /\ frames = <<>>
    BY DEF Finish
  <1>2. TypeOK /\ Shape /\ heap \in Seq(Node) /\ m_root \in Nodes
    BY DEF ShapeInv, TypeOK
  <1>3. CASE ~ splited
    BY <1>2, <1>3, SameSlots DEF Finish
  <1>4. CASE splited
    <2>1. heap' = GrownHeap /\ m_nodeBuffer \in Nodes
      BY <1>1, <1>2, <1>4 DEF Finish, Shape, Pending
    <2>2. PICK new \in Nat : new = Len(heap) + 1
      BY <1>2
    <2>3. /\ Len(heap') = new /\ heap'[new].m_csize = 2
          /\ \A k \in Nodes : heap'[k] = heap[k]
          /\ \A s \in Slots : s < 2 \/ heap'[new].m_subNodes[s].m_child = nullptr
      BY <1>2, <2>1, <2>2, GrownHeapFacts, GrownRoot
    <2>4. Nodes' = Nodes \cup {new}
      BY <1>2, <2>2, <2>3 DEF Nodes
    <2>5. \A k \in Nodes : height(k)' = height(k) /\ csize(k)' >= csize(k)
      BY <1>2, <2>3, FrameFields DEF height, csize
    <2>6. \A k \in Nodes, s \in Slots : sub(k, s)' = sub(k, s)
      BY <2>3 DEF sub
    <2>7. \A s \in Slots : s < csize(new)' \/ sub(new, s)'.m_child = nullptr
      BY <2>3 DEF csize, sub
    <2> QED
      BY <2>4, <2>5, <2>6, <2>7 DEF SlotsStep
  <1> QED
    BY <1>3, <1>4

LEMMA FillNextSlots ==
    ASSUME ShapeInv, FillNext
    PROVE  SlotsStep
  <1>1. TypeOK /\ pc = "fill" /\ next < Size /\ Path
    BY DEF ShapeInv, Shape, Active, FillNext
  <1>2. target(next) \in Nodes /\ t_overflowBuffer[next] \in SubNode
    <2>1. next \in Overflow
      BY <1>1, SlotFacts DEF TypeOK
    <2>2. p_node \in Nodes /\ t_node \in Nodes
      BY <1>1, FrameFields DEF Path, t_node, Nodes
    <2> QED
      BY <1>1, <2>1, <2>2 DEF TypeOK, LocalsOK, target
  <1>3. PICK n \in Nodes, entry \in SubNode :
          /\ n = target(next) /\ entry = t_overflowBuffer[next]
    BY <1>2
  <1>4. CASE csize(n) < MaxChildren
    <2>1. heap' = Placed(heap, entry, n)
      BY <1>3, <1>4 DEF FillNext, csize
    <2> QED
      BY <1>1, <1>4, <2>1, PlacedSlots
  <1>5. CASE ~ (csize(n) < MaxChildren)
    <2>1. heap' = heap
      BY <1>3, <1>5 DEF FillNext, csize
    <2> QED
      BY <1>1, <2>1, SameSlots
  <1> QED
    BY <1>4, <1>5

LEMMA NextSlots ==
    ASSUME ShapeInv, [Next]_vars
    PROVE  SlotsStep
  <1>0. TypeOK
    BY DEF ShapeInv
  <1>1. CASE UNCHANGED vars
    BY <1>0, <1>1, SameSlots DEF vars, indexVars
  <1>2. ASSUME NEW a_box \in Boxes, Insert(a_box) PROVE SlotsStep
    BY <1>0, <1>2, SameSlots DEF Insert, indexVars
  <1>3. CASE Descend
    BY <1>0, <1>3, SameSlots DEF Descend, indexVars
  <1>4. CASE DescendNowhere
    BY <1>0, <1>4, SameSlots DEF DescendNowhere, indexVars
  <1>5. CASE AddToLeaf
    <2>1. /\ AddSubNode(heap, r_subNode, p_node) /\ p_node \in Nodes
          /\ r_subNode \in SubNode /\ heap \in Seq(Node)
      BY <1>5 DEF AddToLeaf, ShapeInv, Shape, Active, Path, TypeOK
    <2> QED
      BY <1>0, <2>1, AddSubNodeSlots
  <1>6. CASE SplitStep /\ UNCHANGED <<indexVars, callVars>>
    BY <1>0, <1>6, SameSlots DEF indexVars
  <1>7. CASE AllocateSibling
    BY <1>7, AllocateSiblingSlots
  <1>8. CASE FillNext
    BY <1>8, FillNextSlots
  <1>9. CASE FillDone
    BY <1>0, <1>9, SameSlots DEF FillDone
  <1>10. CASE ReturnUnsplit
    BY <1>10, ReturnUnsplitSlots
  <1>11. CASE ReturnSplit
    BY <1>11, ReturnSplitSlots
  <1>12. CASE DanglingRead
    BY <1>0, <1>12, SameSlots DEF DanglingRead, indexVars
  <1>13. CASE Finish
    BY <1>13, FinishSlots
  <1>14. CASE Stopped
    BY <1>0, <1>14, SameSlots DEF Stopped, vars, indexVars
  <1> QED
    BY <1>1, <1>2, <1>3, <1>4, <1>5, <1>6, <1>7, <1>8, <1>9, <1>10, <1>11, <1>12,
       <1>13, <1>14 DEF Next, InsertStep
-----------------------------------------------------------------------------
LEMMA NextFit ==
    ASSUME ShapeInv, ShapeInv', SlotsFit, SlotsStep
    PROVE  SlotsFit'
  <1>1. TypeOK /\ TypeOK' /\ Levels(heap)'
    BY DEF ShapeInv, Shape
  <1> SUFFICES ASSUME NEW n \in Nodes', NEW s \in Slots
               PROVE  \/ sub(n, s)'.m_child = nullptr
                      \/ /\ sub(n, s)'.m_child \in Nodes'
                         /\ heap'[sub(n, s)'.m_child].m_height = heap'[n].m_height - 1
    BY DEF SlotsFit, height
  <1>2. CASE s < csize(n)'
    <2>1. Fits(heap', heap'[n].m_subNodes[s], heap'[n].m_height)
      BY <1>1, <1>2 DEF Levels, Nodes, csize
    <2> QED
      BY <2>1 DEF Fits, sub, Nodes
  <1>3. CASE ~ (s < csize(n)') /\ n \in Nodes
    <2>1. sub(n, s)'.m_child = sub(n, s).m_child
      BY <1>3 DEF SlotsStep
    <2>2. \/ sub(n, s).m_child = nullptr
          \/ /\ sub(n, s).m_child \in Nodes
             /\ heap[sub(n, s).m_child].m_height = heap[n].m_height - 1
      BY <1>3 DEF SlotsFit, height
    <2>3. \A k \in Nodes : k \in Nodes' /\ heap'[k].m_height = heap[k].m_height
      BY DEF SlotsStep, height
    <2> QED
      BY <1>3, <2>1, <2>2, <2>3
  <1>4. CASE ~ (s < csize(n)') /\ n \notin Nodes
    BY <1>4 DEF SlotsStep
  <1> QED
    BY <1>2, <1>3, <1>4

\* Only the outermost activation is at the root.
LEMMA RootOutermost ==
    ASSUME TypeOK, Path, p_node = m_root
    PROVE  frames = <<>>
  <1> SUFFICES ASSUME frames # <<>> PROVE FALSE
    OBVIOUS
  <1>1. Len(frames) \in Nat /\ DOMAIN frames = 1 .. Len(frames) /\ Len(frames) >= 1
    BY FrameFields DEF TypeOK
  <1>2. frames[1].p_node = m_root
    BY <1>1 DEF Path, node
  <1>3. height(frames[1].p_node) = height(p_node) + Len(frames) + 1 - 1
    BY <1>1 DEF Path
  <1>4. height(p_node) \in Nat
    BY FrameFields DEF Path
  <1> QED
    BY <1>1, <1>2, <1>3, <1>4

RootSplit == \/ pc = "fill" /\ p_node = m_root
             \/ Pending /\ frames = <<>>

\* What becomes of a root that is split: it keeps its stale slots until the
\* tree has another root.
LEMMA SplitRootClean ==
    ASSUME ShapeInv, RootSplit, [Next]_vars
    PROVE  RootClean'
  <1>1. CASE UNCHANGED vars
    BY <1>1 DEF RootSplit, RootClean, Pending, vars, indexVars, callVars
  <1>2. CASE pc = "fill" /\ p_node = m_root
    <2>1. CASE FillNext
      <3>1. /\ p_node' = p_node /\ m_root' = m_root /\ pc' \in {"fill", "aborted"}
        BY <1>2, <2>1 DEF FillNext
      <3> QED
        BY <1>2, <3>1 DEF RootClean, Dead
    <2>2. CASE FillDone
      <3>1. pc' = "return" /\ splited' /\ frames' = frames
        BY <2>2 DEF FillDone
      <3>2. frames = <<>>
        BY <1>2, RootOutermost DEF ShapeInv, Shape, Active
      <3> QED
        BY <3>1, <3>2 DEF RootClean, Pending
    <2>3. CASE Stopped
      BY <1>2, <2>3 DEF Stopped, Dead
    <2>4. CASE SplitStep /\ UNCHANGED <<indexVars, callVars>>
      BY <1>2, <2>4, SplitStepFrame
    <2> QED
      BY <1>1, <1>2, <2>1, <2>2, <2>3, <2>4
      DEF Next, InsertStep, Insert, Descend, DescendNowhere, AddToLeaf, AllocateSibling,
          ReturnUnsplit, ReturnSplit, DanglingRead, Finish
  <1>3. CASE Pending /\ frames = <<>>
    <2>1. CASE DanglingRead
      BY <2>1 DEF DanglingRead, RootClean, Dead
    <2>2. CASE Finish
      <3>1. /\ heap' = GrownHeap /\ m_root' = Len(heap) + 1
        BY <1>3, <2>2 DEF Finish, Pending
      <3>2. heap \in Seq(Node) /\ m_root \in Nodes /\ m_nodeBuffer \in Nodes
        BY <1>3 DEF ShapeInv, Shape, TypeOK
      <3>3. /\ heap'[m_root'].m_csize = 2
            /\ \A s \in Slots : s < 2 \/ heap'[m_root'].m_subNodes[s].m_child = nullptr
        BY <3>1, <3>2, GrownHeapFacts, GrownRoot
      <3> QED
        BY <3>3 DEF RootClean, csize, sub
    <2>3. CASE Stopped
      BY <1>3, <2>3 DEF Stopped, Dead, Pending
    <2>4. CASE SplitStep /\ UNCHANGED <<indexVars, callVars>>
      BY <1>3, <2>4, SplitStepFrame DEF Pending
    <2> QED
      BY <1>1, <1>3, <2>1, <2>2, <2>3, <2>4
      DEF Next, InsertStep, Insert, Descend, DescendNowhere, AddToLeaf, AllocateSibling,
          FillNext, FillDone, ReturnUnsplit, ReturnSplit, Pending
  <1> QED
    BY <1>2, <1>3 DEF RootSplit

LEMMA NextRootClean ==
    ASSUME ShapeInv, ShapeInv', RootClean, SlotsStep, [Next]_vars
    PROVE  RootClean'
  <1>1. CASE Dead
    <2>1. Dead'
      BY <1>1, SplitStepFrame
      DEF Dead, Next, InsertStep, Insert, Descend, DescendNowhere, AddToLeaf,
          AllocateSibling, FillNext, FillDone, ReturnUnsplit, ReturnSplit, DanglingRead,
          Finish, Stopped, vars
    <2> QED
      BY <2>1 DEF RootClean
  <1>2. CASE RootSplit
    BY <1>2, SplitRootClean
  <1>3. CASE ~ Dead /\ ~ RootSplit
    <2>1. \A s \in Slots : s < csize(m_root) \/ sub(m_root, s).m_child = nullptr
      BY <1>3 DEF RootClean, RootSplit
    <2>2. m_root' = m_root
      <3>1. CASE Finish
        BY <1>3, <3>1 DEF Finish, RootSplit, Pending
      <3> QED
        BY <3>1
        DEF Next, InsertStep, Insert, Descend, DescendNowhere, AddToLeaf,
            AllocateSibling, FillNext, FillDone, ReturnUnsplit, ReturnSplit, DanglingRead,
            Stopped, vars, indexVars
    <2>3. PICK r \in Nodes : r = m_root
      BY DEF ShapeInv, TypeOK
    <2>4. csize(r) \in Nat /\ heap'[r].m_csize \in Nat
      <3>1. TypeOK /\ heap' \in Seq(Node) /\ r \in 1 .. Len(heap')
        BY DEF ShapeInv, TypeOK, SlotsStep, Nodes
      <3>2. heap'[r] \in Node
        BY <3>1
      <3>3. heap'[r].m_csize \in 0 .. MaxChildren
        BY <3>2, NodeFields
      <3> QED
        BY <3>1, <3>3, SlotFacts, FrameFields
    <2>5. CASE pc' = "fill" /\ p_node' = m_root
      BY <2>2, <2>5 DEF RootClean
    <2>6. CASE ~ (pc' = "fill" /\ p_node' = m_root)
      <3>1. heap'[r].m_csize >= csize(r)
        BY <2>3, <2>6 DEF SlotsStep, csize
      <3>2. ASSUME NEW s \in Slots
            PROVE  s < heap'[r].m_csize \/ heap'[r].m_subNodes[s].m_child = nullptr
        <4>1. \/ s < heap'[r].m_csize
              \/ heap'[r].m_subNodes[s].m_child = sub(r, s).m_child
          BY DEF SlotsStep, csize, sub
        <4>2. s \in Nat
          BY SlotFacts
        <4>3. s < csize(r) \/ sub(r, s).m_child = nullptr
          BY <2>1, <2>3
        <4> QED
          BY <2>4, <3>1, <4>1, <4>2, <4>3
      <3> QED
        BY <2>2, <2>3, <3>2 DEF RootClean, csize, sub
    <2> QED
      BY <2>5, <2>6
  <1> QED
    BY <1>1, <1>2, <1>3

LEMMA InitSlots == Init => SlotsInv
  <1> SUFFICES ASSUME Init PROVE SlotsInv
    OBVIOUS
  <1>1. /\ heap = <<NewNode(0)>> /\ Len(heap) = 1 /\ m_root = 1
    BY DEF Init
  <1>2. \A n \in Nodes, s \in Slots : sub(n, s).m_child = nullptr
    BY <1>1 DEF Nodes, sub, NewNode, NoEntry
  <1>3. m_root \in Nodes
    BY <1>1 DEF Nodes
  <1> QED
    BY <1>2, <1>3 DEF SlotsInv, SlotsFit, RootClean
-----------------------------------------------------------------------------
\* The tree between two calls: the links of the used slots, and the slots of
\* every node, in terms of the children only.
child(n, s) == sub(n, s).m_child

QuietTree ==
    /\ m_root \in Nodes /\ IsFiniteSet(Nodes) /\ nullptr \notin Nodes
    /\ \A n \in Nodes : height(n) \in Nat
    /\ \A n \in Nodes, s \in Slots :
         \/ child(n, s) = nullptr
         \/ child(n, s) \in Nodes /\ height(child(n, s)) = height(n) - 1
    /\ \A n \in Nodes \ {m_root} : \E k \in Nodes, s \in Slots :
         s < csize(k) /\ child(k, s) = n
    /\ \A n, k \in Nodes, s, t \in Slots :
         s < csize(n) /\ t < csize(k) /\ child(n, s) = child(k, t)
           /\ child(n, s) # nullptr => n = k /\ s = t
    /\ \A s \in Slots : s < csize(m_root) \/ child(m_root, s) = nullptr

LEMMA TreeIsQuiet ==
    ASSUME TreeInv, SlotsInv, Quiet
    PROVE  QuietTree
  <1>1. TypeOK /\ ShapeInv /\ Linked /\ ChildrenTyped /\ HomesTyped
    BY HomeChildren, HomeFacts DEF TreeInv, OccupiedInv, ShapeInv
  <1>2. /\ heap \in Seq(Node) /\ Len(heap) \in Nat /\ Nodes = 1 .. Len(heap)
        /\ m_root \in Nodes /\ \A n \in Nodes : height(n) \in Nat
    BY <1>1, FrameFields DEF TypeOK, Nodes
  <1>3. IsFiniteSet(Nodes) /\ nullptr \notin Nodes
    <2>1. IsFiniteSet(1 .. Len(heap))
      BY <1>2, FS_Interval
    <2> QED
      BY <1>2, <2>1 DEF nullptr
  <1>4. /\ Buffered = {} /\ ~ Dead /\ Roots = {m_root}
        /\ ~ (pc = "fill") /\ ~ Pending
    BY DEF Quiet, Buffered, Splitting, Dead, Roots, Pending
  <1>5. \A n, s : <<n, s>> \in Homes <=> n \in Nodes /\ s \in Slots /\ s < csize(n)
    BY <1>1, <1>4 DEF HomesTyped
  <1>6. \A h \in Homes : \E n \in Nodes, s \in Slots : h = <<n, s>> /\ s < csize(n)
    BY <1>1, <1>5 DEF HomesTyped
  <1>7. \A n \in Nodes : \A s : held(<<n, s>>).m_child = child(n, s)
    BY <1>1 DEF HomesTyped, child
  <1>8. ASSUME NEW n \in Nodes \ {m_root}
        PROVE  \E k \in Nodes, s \in Slots : s < csize(k) /\ child(k, s) = n
    <2>1. PICK h \in Homes : held(h).m_child = n
      BY <1>1, <1>4 DEF Linked
    <2>2. PICK k \in Nodes, s \in Slots : h = <<k, s>> /\ s < csize(k)
      BY <1>6
    <2> QED
      BY <1>7, <2>1, <2>2
  <1>9. ASSUME NEW n \in Nodes, NEW k \in Nodes, NEW s \in Slots, NEW t \in Slots,
               s < csize(n), t < csize(k), child(n, s) = child(k, t),
               child(n, s) # nullptr
        PROVE  n = k /\ s = t
    <2>1. <<n, s>> \in Homes /\ <<k, t>> \in Homes
      BY <1>5, <1>9
    <2>2. <<n, s>> = <<k, t>>
      BY <1>1, <1>7, <1>9, <2>1 DEF Linked
    <2> QED
      BY <2>2
  <1>10. \A s \in Slots : s < csize(m_root) \/ child(m_root, s) = nullptr
    BY <1>4 DEF SlotsInv, RootClean, child, Quiet
  <1>11. \A n \in Nodes, s \in Slots :
           \/ child(n, s) = nullptr
           \/ child(n, s) \in Nodes /\ height(child(n, s)) = height(n) - 1
    BY DEF SlotsInv, SlotsFit, child
  <1> QED
    BY <1>2, <1>3, <1>8, <1>9, <1>10, <1>11 DEF QuietTree

\* A non-empty set of nodes has a highest one.
LEMMA HighestNode ==
    ASSUME QuietTree, NEW S \in SUBSET Nodes, S # {}
    PROVE  \E n \in S : \A k \in S : height(k) <= height(n)
  <1> DEFINE H == {height(n) : n \in S}
  <1>1. H \in SUBSET Int /\ H # {}
    BY DEF QuietTree
  <1>2. IsFiniteSet(H)
    <2>1. IsFiniteSet(S)
      BY FS_Subset DEF QuietTree
    <2>2. [n \in S |-> height(n)] \in Surjection(S, H)
      BY DEF Surjection
    <2> HIDE DEF H
    <2> QED
      BY <2>1, <2>2, FS_Surjection
  <1>3. PICK most \in H : \A x \in H : x <= most
    <2> HIDE DEF H
    <2> QED
      BY <1>1, <1>2, FiniteExtrema
  <1> QED
    BY <1>3

\* The root is the only highest node.
LEMMA RootHighest ==
    ASSUME QuietTree
    PROVE  \A n \in Nodes \ {m_root} : height(n) < height(m_root)
  <1> DEFINE S == Nodes \ {m_root}
  <1> SUFFICES ASSUME NEW n \in S PROVE height(n) < height(m_root)
    OBVIOUS
  <1>1. PICK high \in S : \A k \in S : height(k) <= height(high)
    BY HighestNode
  <1>2. PICK k \in Nodes, s \in Slots : child(k, s) = high
    BY DEF QuietTree
  <1>3. height(high) = height(k) - 1 /\ height(k) \in Nat /\ height(high) \in Nat
    BY <1>2 DEF QuietTree
  <1>4. k = m_root
    BY <1>1, <1>3
  <1>5. height(n) <= height(high) /\ height(n) \in Nat
    BY <1>1 DEF QuietTree
  <1> QED
    BY <1>3, <1>4, <1>5
-----------------------------------------------------------------------------
\* The i-th activation of the destructor: its node, and the first slot it has
\* not visited yet.
nodeOf(i) == deleting[i].p_node
slotOf(i) == deleting[i].slot
Walking == 1 .. Len(deleting)

\* The activations lead from the root down, one level per activation; none of
\* their nodes is freed.
Chain ==
    /\ deleting \in Seq([p_node : Nodes, slot : 0 .. MaxChildren])
    /\ freed \subseteq Nodes
    /\ deleting # <<>> => nodeOf(1) = m_root
    /\ \A i \in Walking :
         /\ height(nodeOf(i)) = height(m_root) + 1 - i
         /\ nodeOf(i) \notin freed
         /\ i # Len(deleting) => /\ slotOf(i) >= 1
                                 /\ child(nodeOf(i), slotOf(i) - 1) = nodeOf(i + 1)

\* What has been visited is freed, but for the children on the stack.
Closed ==
    /\ \A n \in freed, s \in Slots : child(n, s) \in freed \cup {nullptr}
    /\ \A i \in Walking, s \in Slots : s < slotOf(i) =>
         \/ child(nodeOf(i), s) \in freed \cup {nullptr}
         \/ i # Len(deleting) /\ s = slotOf(i) - 1
    /\ deleting = <<>> => m_root \in freed

\* Slot s of node n was visited.
Visited(n, s) == n \in freed \/ \E i \in Walking : nodeOf(i) = n /\ s < slotOf(i)

\* No two visited slots lead to the same node.
Once ==
    \A n, k \in Nodes, s, t \in Slots :
        Visited(n, s) /\ Visited(k, t) /\ child(n, s) = child(k, t)
          /\ child(n, s) # nullptr => n = k /\ s = t

\* The nodes freed and those on the stack were reached through a visited slot.
Reached ==
    \A n \in Nodes : n \in freed \/ (\E i \in Walking : nodeOf(i) = n) =>
        \/ n = m_root
        \/ \E k \in Nodes, s \in Slots : Visited(k, s) /\ child(k, s) = n

Walk == Chain /\ Closed /\ Once /\ Reached

\* The innermost activation and the others.
LEMMA TopFacts ==
    ASSUME Chain, deleting # <<>>
    PROVE  /\ Len(deleting) \in Nat /\ Len(deleting) >= 1
           /\ top = deleting[Len(deleting)]
           /\ top \in [p_node : Nodes, slot : 0 .. MaxChildren]
           /\ Front(deleting) \in Seq([p_node : Nodes, slot : 0 .. MaxChildren])
           /\ Len(Front(deleting)) = Len(deleting) - 1
           /\ \A i \in 1 .. Len(deleting) - 1 : Front(deleting)[i] = deleting[i]
  <1> DEFINE S == [p_node : Nodes, slot : 0 .. MaxChildren]
  <1>0. deleting \in Seq(S)
    BY DEF Chain
  <1> HIDE DEF S
  <1>1. Len(deleting) \in Nat /\ Len(deleting) >= 1
    BY <1>0
  <1>2. PICK n \in Nat : n = Len(deleting) - 1
    BY <1>1
  <1>3. Front(deleting) = SubSeq(deleting, 1, n)
    BY <1>2 DEF Front
  <1>4. \A i \in 1 .. n : deleting[i] \in S
    BY <1>0, <1>1, <1>2
  <1>5. /\ SubSeq(deleting, 1, n) \in Seq(S)
        /\ Len(SubSeq(deleting, 1, n)) = IF 1 <= n THEN n - 1 + 1 ELSE 0
        /\ \A i \in 1 .. n - 1 + 1 : SubSeq(deleting, 1, n)[i] = deleting[1 + i - 1]
    BY <1>4, SubSeqProperties
  <1>6. n - 1 + 1 = n /\ \A i \in 1 .. n : 1 + i - 1 = i
    BY <1>2
  <1>7. /\ Len(SubSeq(deleting, 1, n)) = n
        /\ \A i \in 1 .. n : SubSeq(deleting, 1, n)[i] = deleting[i]
    BY <1>2, <1>5, <1>6
  <1>8. top = deleting[Len(deleting)] /\ top \in S
    BY <1>0, <1>1 DEF top, Last
  <1> QED
    BY <1>1, <1>2, <1>3, <1>5, <1>7, <1>8 DEF S

LEMMA StackTyped ==
    ASSUME Chain
    PROVE  \A i \in Walking : nodeOf(i) \in Nodes /\ slotOf(i) \in Nat
  <1> DEFINE S == [p_node : Nodes, slot : 0 .. MaxChildren]
  <1>1. deleting \in Seq(S)
    BY DEF Chain
  <1> HIDE DEF S
  <1>2. \A i \in Walking : deleting[i] \in S
    BY <1>1 DEF Walking
  <1>3. \A e \in S : e.p_node \in Nodes /\ e.slot \in Nat
    BY SlotFacts DEF S
  <1> QED
    BY <1>2, <1>3 DEF nodeOf, slotOf

\* The nodes on the stack are of different levels.
LEMMA StackLevels ==
    ASSUME QuietTree, Chain, NEW i \in Walking, NEW j \in Walking, nodeOf(i) = nodeOf(j)
    PROVE  i = j
  <1>1. height(m_root) \in Nat /\ i \in Nat /\ j \in Nat
    BY DEF QuietTree, Chain, Walking
  <1> QED
    BY <1>1 DEF Chain

\* The tree does not change while it is deleted.
TreeStays ==
    /\ heap' = heap /\ m_root' = m_root /\ Nodes' = Nodes
    /\ \A n, s : child(n, s)' = child(n, s)
    /\ \A n : height(n)' = height(n) /\ csize(n)' = csize(n)

LEMMA SameTree ==
    ASSUME UNCHANGED treeVars
    PROVE  TreeStays
  BY DEF TreeStays, treeVars, indexVars, Nodes, child, sub, height, csize

LEMMA DestroyWalk ==
    ASSUME QuietTree, Destroy, freed = {}
    PROVE  Walk'
  <1>1. deleting' = <<[p_node |-> m_root, slot |-> 0]>> /\ freed' = {} /\ TreeStays
    BY SameTree DEF Destroy
  <1>2. /\ Len(deleting') = 1 /\ Walking' = {1}
        /\ deleting'[1].p_node = m_root /\ deleting'[1].slot = 0 /\ deleting' # <<>>
    BY <1>1 DEF Walking
  <1>3. m_root \in Nodes /\ height(m_root) \in Nat /\ \A s \in Slots : s \in Nat
    BY SlotFacts DEF QuietTree
  <1>4. Chain'
    <2>1. deleting' \in Seq([p_node : Nodes', slot : 0 .. MaxChildren])
      <3>1. [p_node |-> m_root, slot |-> 0] \in [p_node : Nodes', slot : 0 .. MaxChildren]
        BY <1>1, <1>3, SlotFacts DEF TreeStays
      <3> QED
        BY <1>1, <3>1
    <2>2. /\ heap'[nodeOf(1)'].m_height = heap'[m_root'].m_height + 1 - 1
          /\ nodeOf(1)' \notin freed' /\ nodeOf(1)' = m_root'
      BY <1>1, <1>2, <1>3 DEF TreeStays, nodeOf, height
    <2> QED
      BY <1>1, <1>2, <2>1, <2>2 DEF Chain, height
  <1>5. Closed'
    BY <1>1, <1>2, <1>3 DEF Closed, slotOf
  <1>6. \A n, s : s \in Slots => ~ Visited(n, s)'
    BY <1>1, <1>2, <1>3 DEF Visited, slotOf
  <1>7. Once' /\ Reached'
    BY <1>1, <1>2, <1>6 DEF Once, Reached, nodeOf, TreeStays
  <1> QED
    BY <1>4, <1>5, <1>7 DEF Walk

\* The innermost activation goes on to its next slot.
resumed == Append(Front(deleting), [top EXCEPT !.slot = @ + 1])

LEMMA ResumedFacts ==
    ASSUME Chain, deleting # <<>>, top.slot < MaxChildren
    PROVE  /\ resumed \in Seq([p_node : Nodes, slot : 0 .. MaxChildren])
           /\ Len(resumed) = Len(deleting)
           /\ \A i \in Walking :
                /\ resumed[i].p_node = nodeOf(i)
                /\ resumed[i].slot = IF i = Len(deleting) THEN slotOf(i) + 1 ELSE slotOf(i)
           /\ slotOf(Len(deleting)) = top.slot /\ nodeOf(Len(deleting)) = top.p_node
           /\ top.slot \in Slots /\ top.p_node \in Nodes
  <1> DEFINE S == [p_node : Nodes, slot : 0 .. MaxChildren]
  <1>1. /\ Len(deleting) \in Nat /\ Len(deleting) >= 1 /\ top = deleting[Len(deleting)]
        /\ top \in S /\ Front(deleting) \in Seq(S)
        /\ Len(Front(deleting)) = Len(deleting) - 1
        /\ \A i \in 1 .. Len(deleting) - 1 : Front(deleting)[i] = deleting[i]
    BY TopFacts
  <1>2. PICK f \in Seq(S), n \in Nat, e \in S :
          /\ f = Front(deleting) /\ n = Len(deleting)
          /\ e = [top EXCEPT !.slot = @ + 1]
          /\ e.p_node = top.p_node /\ e.slot = top.slot + 1
    <2>1. PICK r \in S : r = top
      BY <1>1
    <2>2. r.slot + 1 \in 0 .. MaxChildren /\ r.p_node \in Nodes
      BY <2>1, SlotFacts
    <2>3. [r EXCEPT !.slot = @ + 1] = [p_node |-> r.p_node, slot |-> r.slot + 1]
      OBVIOUS
    <2>4. [r EXCEPT !.slot = @ + 1] \in S
      BY <2>2, <2>3
    <2> QED
      BY <1>1, <2>1, <2>3, <2>4
  <1>3. resumed = Append(f, e) /\ Len(f) = n - 1 /\ n >= 1
    BY <1>1, <1>2 DEF resumed
  <1>4. top.slot \in Slots /\ top.p_node \in Nodes
    BY <1>1, SlotFacts
  <1> HIDE DEF S
  <1>5. /\ resumed \in Seq(S) /\ Len(resumed) = n /\ resumed[n] = e
        /\ \A i \in 1 .. n - 1 : resumed[i] = f[i]
    BY <1>2, <1>3
  <1>6. ASSUME NEW i \in Walking
        PROVE  /\ resumed[i].p_node = nodeOf(i)
               /\ resumed[i].slot = IF i = Len(deleting) THEN slotOf(i) + 1 ELSE slotOf(i)
    <2>1. CASE i = n
      BY <1>1, <1>2, <1>5, <2>1 DEF nodeOf, slotOf
    <2>2. CASE i # n
      <3>1. i \in 1 .. n - 1 /\ i \in 1 .. Len(deleting) - 1
        BY <1>2, <2>2 DEF Walking
      <3> QED
        BY <1>1, <1>2, <1>5, <2>2, <3>1 DEF nodeOf, slotOf
    <2> QED
      BY <2>1, <2>2
  <1> QED
    BY <1>1, <1>2, <1>4, <1>5, <1>6 DEF nodeOf, slotOf, S

\* An empty slot is passed over.
LEMMA EmptySlotWalk ==
    ASSUME QuietTree, Walk, DeleteChild, child(top.p_node, top.slot) = nullptr
    PROVE  Walk' /\ pc' = "destroy"
  <1>1. /\ pc = "destroy" /\ deleting # <<>> /\ top.slot < MaxChildren /\ Chain
        /\ deleting' = resumed /\ freed' = freed /\ pc' = "destroy" /\ TreeStays
    BY SameTree DEF DeleteChild, Walk, resumed, child
  <1>2. PICK n \in Nat, t \in Nodes, x \in Slots :
          /\ n = Len(deleting) /\ n >= 1 /\ t = nodeOf(n) /\ x = slotOf(n)
          /\ child(t, x) = nullptr
    BY <1>1, ResumedFacts, TopFacts
  <1>3. /\ deleting' \in Seq([p_node : Nodes, slot : 0 .. MaxChildren])
        /\ Len(deleting') = n /\ Walking' = 1 .. n /\ Walking = 1 .. n
        /\ deleting' # <<>>
        /\ \A i \in 1 .. n : /\ nodeOf(i)' = nodeOf(i)
                             /\ slotOf(i)' = IF i = n THEN x + 1 ELSE slotOf(i)
    BY <1>1, <1>2, ResumedFacts DEF nodeOf, slotOf, Walking
  <1>4. \A i \in 1 .. n : slotOf(i) \in Nat
    BY <1>1, <1>3, StackTyped
  <1>5. Chain'
    <2>1. deleting' \in Seq([p_node : Nodes', slot : 0 .. MaxChildren]) /\ freed' \subseteq Nodes'
      BY <1>1, <1>3 DEF TreeStays, Chain
    <2>2. nodeOf(1)' = m_root'
      BY <1>1, <1>2, <1>3 DEF TreeStays, Chain
    <2>3. ASSUME NEW i \in 1 .. n
          PROVE  /\ heap'[nodeOf(i)'].m_height = heap'[m_root'].m_height + 1 - i
                 /\ nodeOf(i)' \notin freed'
      <3>1. height(nodeOf(i)) = height(m_root) + 1 - i /\ nodeOf(i) \notin freed
        BY <1>1, <1>3 DEF Chain
      <3> QED
        BY <1>1, <1>3, <3>1 DEF TreeStays, height
    <2>4. ASSUME NEW i \in 1 .. n, i # n
          PROVE  /\ slotOf(i)' >= 1
                 /\ heap'[nodeOf(i)'].m_subNodes[slotOf(i)' - 1].m_child = nodeOf(i + 1)'
      <3>1. /\ slotOf(i) >= 1 /\ child(nodeOf(i), slotOf(i) - 1) = nodeOf(i + 1)
        BY <1>1, <1>2, <1>3, <2>4 DEF Chain
      <3>2. i + 1 \in 1 .. n
        BY <1>2, <2>4
      <3>3. nodeOf(i)' = nodeOf(i) /\ slotOf(i)' = slotOf(i) /\ nodeOf(i + 1)' = nodeOf(i + 1)
        BY <1>3, <2>4, <3>2
      <3> QED
        BY <1>1, <3>1, <3>3 DEF TreeStays, child, sub
    <2> QED
      BY <1>3, <2>1, <2>2, <2>3, <2>4 DEF Chain, height, child, sub
  <1>6. Closed'
    <2>1. ASSUME NEW i \in 1 .. n, NEW s \in Slots, s < slotOf(i)'
          PROVE  \/ child(nodeOf(i), s) \in freed \cup {nullptr}
                 \/ i # n /\ s = slotOf(i)' - 1
      <3>1. CASE s < slotOf(i)
        BY <1>1, <1>2, <1>3, <2>1, <3>1 DEF Walk, Closed
      <3>2. CASE ~ (s < slotOf(i))
        <4>1. i = n /\ s = x
          BY <1>2, <1>3, <1>4, <2>1, <3>2, SlotFacts
        <4> QED
          BY <1>2, <4>1
      <3> QED
        BY <3>1, <3>2
    <2>2. \A k \in freed, s \in Slots : child(k, s) \in freed \cup {nullptr}
      BY DEF Walk, Closed
    <2> QED
      BY <1>1, <1>3, <2>1, <2>2 DEF Closed, TreeStays, child, sub
  <1>7. /\ \A k \in Nodes, s \in Slots : Visited(k, s) => Visited(k, s)'
        /\ \A k \in Nodes, s \in Slots :
             Visited(k, s)' => Visited(k, s) \/ child(k, s) = nullptr
    <2>1. ASSUME NEW k \in Nodes, NEW s \in Slots, Visited(k, s) PROVE Visited(k, s)'
      <3>1. CASE k \in freed
        BY <1>1, <3>1 DEF Visited
      <3>2. ASSUME NEW i \in 1 .. n, nodeOf(i) = k, s < slotOf(i) PROVE Visited(k, s)'
        <4>1. nodeOf(i)' = k /\ s < slotOf(i)'
          BY <1>2, <1>3, <1>4, <3>2, SlotFacts
        <4> QED
          BY <1>3, <4>1 DEF Visited
      <3> QED
        BY <1>3, <2>1, <3>1, <3>2 DEF Visited
    <2>2. ASSUME NEW k \in Nodes, NEW s \in Slots, Visited(k, s)'
          PROVE  Visited(k, s) \/ child(k, s) = nullptr
      <3>1. CASE k \in freed
        BY <3>1 DEF Visited
      <3>2. ASSUME NEW i \in 1 .. n, nodeOf(i)' = k, s < slotOf(i)'
            PROVE  Visited(k, s) \/ child(k, s) = nullptr
        <4>1. CASE i = n /\ s = x
          BY <1>2, <1>3, <3>2, <4>1
        <4>2. CASE ~ (i = n /\ s = x)
          BY <1>2, <1>3, <1>4, <3>2, <4>2, SlotFacts DEF Visited
        <4> QED
          BY <4>1, <4>2
      <3> QED
        BY <1>1, <1>3, <2>2, <3>1, <3>2 DEF Visited
    <2> QED
      BY <2>1, <2>2
  <1>8. Once'
    <2> SUFFICES ASSUME NEW k \in Nodes, NEW m \in Nodes, NEW s \in Slots, NEW r \in Slots,
                        Visited(k, s)', Visited(m, r)', child(k, s) = child(m, r),
                        child(k, s) # nullptr
                 PROVE  k = m /\ s = r
      BY <1>1 DEF Once, TreeStays, child, sub
    <2> QED
      BY <1>7 DEF Walk, Once
  <1>9. Reached'
    <2> SUFFICES ASSUME NEW k \in Nodes, k \in freed \/ (\E i \in 1 .. n : nodeOf(i) = k),
                        k # m_root
                 PROVE  \E m \in Nodes, s \in Slots : Visited(m, s)' /\ child(m, s) = k
      BY <1>1, <1>3 DEF Reached, TreeStays, child, sub
    <2> QED
      BY <1>3, <1>7 DEF Walk, Reached
  <1> QED
    BY <1>1, <1>5, <1>6, <1>8, <1>9 DEF Walk

\* The child of the next slot is deleted first.
LEMMA ChildWalk ==
    ASSUME QuietTree, Walk, DeleteChild,
           child(top.p_node, top.slot) \notin freed \cup {nullptr}
    PROVE  Walk' /\ pc' = "destroy"
  <1>1. /\ pc = "destroy" /\ deleting # <<>> /\ top.slot < MaxChildren /\ Chain
        /\ deleting' = Append(resumed, [p_node |-> child(top.p_node, top.slot), slot |-> 0])
        /\ freed' = freed /\ pc' = "destroy" /\ TreeStays
    BY SameTree DEF DeleteChild, Walk, resumed, child
  <1>2. PICK n \in Nat, t \in Nodes, x \in Slots, c \in Nodes :
          /\ n = Len(deleting) /\ n >= 1 /\ t = nodeOf(n) /\ x = slotOf(n)
          /\ c = child(t, x) /\ c = child(top.p_node, top.slot)
          /\ height(c) = height(t) - 1 /\ c \notin freed
    <2>1. /\ top.p_node \in Nodes /\ top.slot \in Slots
          /\ top.p_node = nodeOf(Len(deleting)) /\ top.slot = slotOf(Len(deleting))
      BY <1>1, ResumedFacts
    <2>2. /\ child(top.p_node, top.slot) \in Nodes
          /\ height(child(top.p_node, top.slot)) = height(top.p_node) - 1
      BY <2>1 DEF QuietTree
    <2> QED
      BY <1>1, <2>1, <2>2, TopFacts
  <1>3. /\ deleting' \in Seq([p_node : Nodes, slot : 0 .. MaxChildren])
        /\ Len(deleting') = n + 1 /\ Walking' = 1 .. n + 1 /\ Walking = 1 .. n
        /\ deleting' # <<>>
        /\ \A i \in 1 .. n : /\ nodeOf(i)' = nodeOf(i)
                             /\ slotOf(i)' = IF i = n THEN x + 1 ELSE slotOf(i)
        /\ nodeOf(n + 1)' = c /\ slotOf(n + 1)' = 0
    <2> DEFINE S == [p_node : Nodes, slot : 0 .. MaxChildren]
    <2>1. PICK q \in Seq(S), e \in S : q = resumed /\ e = [p_node |-> c, slot |-> 0]
      BY <1>1, <1>2, ResumedFacts, SlotFacts
    <2>2. deleting' = Append(q, e) /\ Len(q) = n /\ e.p_node = c /\ e.slot = 0
      BY <1>1, <1>2, <2>1, ResumedFacts
    <2>3. \A i \in 1 .. n : /\ q[i].p_node = nodeOf(i)
                            /\ q[i].slot = IF i = n THEN x + 1 ELSE slotOf(i)
      BY <1>1, <1>2, <2>1, ResumedFacts DEF Walking
    <2> HIDE DEF S
    <2>4. /\ deleting' \in Seq(S) /\ Len(deleting') = n + 1 /\ deleting'[n + 1] = e
          /\ \A i \in 1 .. n : deleting'[i] = q[i]
      BY <1>2, <2>1, <2>2
    <2>5. deleting' # <<>>
      BY <1>2, <2>4
    <2> QED
      BY <1>2, <2>2, <2>3, <2>4, <2>5 DEF nodeOf, slotOf, Walking, S
  <1>4. \A i \in 1 .. n : slotOf(i) \in Nat /\ nodeOf(i) \in Nodes
    BY <1>1, <1>3, StackTyped
  <1>5. /\ height(m_root) \in Nat
        /\ \A i \in 1 .. n : /\ height(nodeOf(i)) = height(m_root) + 1 - i
                             /\ nodeOf(i) \notin freed
        /\ \A i \in 1 .. n : i # n =>
             slotOf(i) >= 1 /\ child(nodeOf(i), slotOf(i) - 1) = nodeOf(i + 1)
    BY <1>1, <1>2, <1>3 DEF Chain, QuietTree
  <1>6. height(c) = height(m_root) + 1 - (n + 1)
    BY <1>2, <1>5
  <1>7. Chain'
    <2>1. deleting' \in Seq([p_node : Nodes', slot : 0 .. MaxChildren]) /\ freed' \subseteq Nodes'
      BY <1>1, <1>3 DEF TreeStays, Chain
    <2>2. nodeOf(1)' = m_root'
      BY <1>1, <1>2, <1>3 DEF TreeStays, Chain
    <2>3. ASSUME NEW i \in 1 .. n + 1
          PROVE  /\ heap'[nodeOf(i)'].m_height = heap'[m_root'].m_height + 1 - i
                 /\ nodeOf(i)' \notin freed'
      <3>1. CASE i = n + 1
        BY <1>1, <1>2, <1>3, <1>6, <3>1 DEF TreeStays, height
      <3>2. CASE i \in 1 .. n
        BY <1>1, <1>3, <1>5, <3>2 DEF TreeStays, height
      <3> QED
        BY <1>2, <3>1, <3>2
    <2>4. ASSUME NEW i \in 1 .. n + 1, i # n + 1
          PROVE  /\ slotOf(i)' >= 1
                 /\ heap'[nodeOf(i)'].m_subNodes[slotOf(i)' - 1].m_child = nodeOf(i + 1)'
      <3>1. CASE i = n
        <4>1. nodeOf(i)' = t /\ slotOf(i)' = x + 1 /\ nodeOf(i + 1)' = c /\ x \in Nat
          BY <1>2, <1>3, <3>1, SlotFacts
        <4>2. slotOf(i)' >= 1 /\ slotOf(i)' - 1 = x
          BY <4>1
        <4> QED
          BY <1>1, <1>2, <4>1, <4>2 DEF TreeStays, child, sub
      <3>2. CASE i \in 1 .. n /\ i # n
        <4>1. i + 1 \in 1 .. n
          BY <1>2, <3>2
        <4>2. nodeOf(i)' = nodeOf(i) /\ slotOf(i)' = slotOf(i) /\ nodeOf(i + 1)' = nodeOf(i + 1)
          BY <1>3, <3>2, <4>1
        <4>3. slotOf(i) >= 1 /\ child(nodeOf(i), slotOf(i) - 1) = nodeOf(i + 1)
          BY <1>5, <3>2
        <4> QED
          BY <1>1, <4>2, <4>3 DEF TreeStays, child, sub
      <3> QED
        BY <1>2, <2>4, <3>1, <3>2
    <2> QED
      BY <1>3, <2>1, <2>2, <2>3, <2>4 DEF Chain, height, child, sub
  <1>8. Closed'
    <2>1. ASSUME NEW i \in 1 .. n + 1, NEW s \in Slots, s < slotOf(i)'
          PROVE  \/ child(nodeOf(i)', s) \in freed \cup {nullptr}
                 \/ i # n + 1 /\ s = slotOf(i)' - 1
      <3>1. i \in 1 .. n
        BY <1>2, <1>3, <2>1, SlotFacts
      <3>2. CASE s < slotOf(i)
        <4>1. \/ child(nodeOf(i), s) \in freed \cup {nullptr}
              \/ i # n /\ s = slotOf(i) - 1
          BY <1>2, <1>3, <3>1, <3>2 DEF Walk, Closed
        <4> QED
          BY <1>2, <1>3, <3>1, <4>1
      <3>3. CASE ~ (s < slotOf(i))
        <4>1. i = n /\ s = x
          BY <1>2, <1>3, <1>4, <2>1, <3>1, <3>3, SlotFacts
        <4> QED
          BY <1>2, <1>3, <3>1, <4>1, SlotFacts
      <3> QED
        BY <3>2, <3>3
    <2>2. \A k \in freed, s \in Slots : child(k, s) \in freed \cup {nullptr}
      BY DEF Walk, Closed
    <2> QED
      BY <1>1, <1>3, <2>1, <2>2 DEF Closed, TreeStays, child, sub
  <1>9. ASSUME NEW k \in Nodes, NEW s \in Slots, Visited(k, s)
        PROVE  Visited(k, s)' /\ child(k, s) # c
    <2>1. CASE k \in freed
      <3>1. child(k, s) \in freed \cup {nullptr} /\ c # nullptr
        BY <1>2, <2>1 DEF Walk, Closed, QuietTree
      <3> QED
        BY <1>1, <1>2, <2>1, <3>1 DEF Visited
    <2>2. ASSUME NEW i \in 1 .. n, nodeOf(i) = k, s < slotOf(i)
          PROVE  Visited(k, s)' /\ child(k, s) # c
      <3>1. nodeOf(i)' = k /\ s < slotOf(i)' /\ i \in 1 .. n + 1
        BY <1>2, <1>3, <1>4, <2>2, SlotFacts
      <3>2. Visited(k, s)'
        BY <1>3, <3>1 DEF Visited
      <3>3. CASE child(k, s) \in freed \cup {nullptr}
        BY <1>2, <3>2, <3>3 DEF QuietTree
      <3>4. CASE i # n /\ s = slotOf(i) - 1
        <4>1. child(k, s) = nodeOf(i + 1) /\ i + 1 \in 1 .. n
          BY <1>2, <1>5, <2>2, <3>4
        <4>2. height(nodeOf(i + 1)) = height(m_root) + 1 - (i + 1)
          BY <1>5, <4>1
        <4>3. height(c) # height(nodeOf(i + 1))
          BY <1>2, <1>5, <1>6, <3>4, <4>2
        <4> QED
          BY <3>2, <4>1, <4>3
      <3> QED
        BY <1>2, <1>3, <2>2, <3>3, <3>4 DEF Walk, Closed
    <2> QED
      BY <1>3, <1>9, <2>1, <2>2 DEF Visited
  <1>10. ASSUME NEW k \in Nodes, NEW s \in Slots, Visited(k, s)'
         PROVE  Visited(k, s) \/ (k = t /\ s = x)
    <2>1. CASE k \in freed
      BY <2>1 DEF Visited
    <2>2. ASSUME NEW i \in 1 .. n + 1, nodeOf(i)' = k, s < slotOf(i)'
          PROVE  Visited(k, s) \/ (k = t /\ s = x)
      <3>1. i \in 1 .. n
        BY <1>2, <1>3, <2>2, SlotFacts
      <3>2. CASE i = n /\ s = x
        BY <1>2, <1>3, <2>2, <3>1, <3>2
      <3>3. CASE ~ (i = n /\ s = x)
        BY <1>2, <1>3, <1>4, <2>2, <3>1, <3>3, SlotFacts DEF Visited
      <3> QED
        BY <3>2, <3>3
    <2> QED
      BY <1>1, <1>3, <1>10, <2>1, <2>2 DEF Visited
  <1>11. Once'
    <2> SUFFICES ASSUME NEW k \in Nodes, NEW m \in Nodes, NEW s \in Slots, NEW r \in Slots,
                        Visited(k, s)', Visited(m, r)', child(k, s) = child(m, r),
                        child(k, s) # nullptr
                 PROVE  k = m /\ s = r
      BY <1>1 DEF Once, TreeStays, child, sub
    <2>1. Visited(k, s) \/ (k = t /\ s = x)
      BY <1>10
    <2>2. Visited(m, r) \/ (m = t /\ r = x)
      BY <1>10
    <2> QED
      BY <1>2, <1>9, <2>1, <2>2 DEF Walk, Once
  <1>12. Visited(t, x)'
    <2>1. n \in 1 .. n + 1 /\ nodeOf(n)' = t /\ x < slotOf(n)'
      BY <1>2, <1>3, SlotFacts
    <2> QED
      BY <1>3, <2>1 DEF Visited
  <1>13. Reached'
    <2> SUFFICES ASSUME NEW k \in Nodes,
                        k \in freed \/ (\E i \in 1 .. n + 1 : nodeOf(i)' = k), k # m_root
                 PROVE  \E m \in Nodes, s \in Slots : Visited(m, s)' /\ child(m, s) = k
      BY <1>1, <1>3 DEF Reached, TreeStays, child, sub
    <2>1. CASE k = c
      BY <1>2, <1>12, <2>1
    <2>2. CASE k # c
      <3>1. k \in freed \/ \E i \in 1 .. n : nodeOf(i) = k
        BY <1>2, <1>3, <2>2
      <3>2. \E m \in Nodes, s \in Slots : Visited(m, s) /\ child(m, s) = k
        BY <1>3, <3>1 DEF Walk, Reached
      <3> QED
        BY <1>9, <3>2
    <2> QED
      BY <2>1, <2>2
  <1> QED
    BY <1>1, <1>7, <1>8, <1>11, <1>13 DEF Walk

\* The child of the next slot was freed before: the slot, or the one through
\* which the child was reached, is stale.
LEMMA FreedChildStale ==
    ASSUME QuietTree, Walk, DeleteChild, child(top.p_node, top.slot) \in freed
    PROVE  StaleChildren # {} /\ pc' = "useAfterFree" /\ TreeStays
  <1>1. /\ pc = "destroy" /\ deleting # <<>> /\ top.slot < MaxChildren /\ Chain
        /\ TreeStays
    BY SameTree DEF DeleteChild, Walk
  <1>2. PICK n \in Nat, t \in Nodes, x \in Slots, c \in Nodes :
          /\ n = Len(deleting) /\ n >= 1 /\ t = nodeOf(n) /\ x = slotOf(n)
          /\ c = child(t, x) /\ c = child(top.p_node, top.slot) /\ c \in freed
          /\ height(c) = height(t) - 1 /\ c # nullptr
    <2>1. /\ top.p_node \in Nodes /\ top.slot \in Slots
          /\ top.p_node = nodeOf(Len(deleting)) /\ top.slot = slotOf(Len(deleting))
      BY <1>1, ResumedFacts
    <2>2. child(top.p_node, top.slot) \in Nodes
      BY <1>1 DEF Chain
    <2>3. child(top.p_node, top.slot) # nullptr
      BY <2>2 DEF QuietTree
    <2>4. height(child(top.p_node, top.slot)) = height(top.p_node) - 1
      BY <2>1, <2>3 DEF QuietTree
    <2> QED
      BY <1>1, <2>1, <2>2, <2>3, <2>4, TopFacts
  <1>3. pc' = "useAfterFree"
    BY <1>2 DEF DeleteChild, child
  <1>4. n \in Walking /\ t \notin freed /\ height(t) = height(m_root) + 1 - n
    BY <1>1, <1>2 DEF Chain, Walking
  <1>5. c # m_root
    <2>1. height(c) # height(m_root)
      BY <1>2, <1>4 DEF QuietTree
    <2> QED
      BY <2>1
  <1>6. PICK k \in Nodes, s \in Slots : Visited(k, s) /\ child(k, s) = c
    BY <1>2, <1>5 DEF Walk, Reached
  <1>7. k # t \/ s # x
    <2> SUFFICES ASSUME k = t, s = x PROVE FALSE
      OBVIOUS
    <2>1. PICK i \in Walking : nodeOf(i) = t /\ x < slotOf(i)
      BY <1>4, <1>6 DEF Visited
    <2>2. i = n
      BY <1>1, <1>2, <1>4, <2>1, StackLevels
    <2> QED
      BY <1>2, <2>1, <2>2, SlotFacts
  <1>8. ~ (s < csize(k)) \/ ~ (x < csize(t))
    <2>1. s < csize(k) /\ x < csize(t) /\ child(k, s) = child(t, x)
            /\ child(k, s) # nullptr => k = t /\ s = x
      BY DEF QuietTree
    <2> QED
      BY <1>2, <1>6, <1>7, <2>1
  <1>9. \E m \in Nodes, r \in Slots : ~ (r < csize(m)) /\ child(m, r) # nullptr
    BY <1>2, <1>6, <1>8
  <1>10. PICK m \in Nodes, r \in Slots : ~ (r < csize(m)) /\ child(m, r) # nullptr
    BY <1>9
  <1>11. <<m, r>> \in StaleChildren
    BY <1>10 DEF StaleChildren, Used, csize, at, child
  <1> QED
    BY <1>1, <1>3, <1>11

\* All slots of the innermost node are visited: the node is freed.
LEMMA NodeWalk ==
    ASSUME QuietTree, Walk, DeleteNode
    PROVE  Walk' /\ pc' = "destroy"
  <1>1. /\ pc = "destroy" /\ deleting # <<>> /\ top.slot = MaxChildren /\ Chain
        /\ freed' = freed \cup {top.p_node} /\ deleting' = Front(deleting)
        /\ pc' = "destroy" /\ TreeStays
    BY SameTree DEF DeleteNode, Walk
  <1>2. PICK n \in Nat, t \in Nodes :
          /\ n = Len(deleting) /\ n >= 1 /\ t = nodeOf(n) /\ slotOf(n) = MaxChildren
          /\ t = top.p_node
    BY <1>1, TopFacts DEF nodeOf, slotOf
  <1>3. /\ deleting' \in Seq([p_node : Nodes, slot : 0 .. MaxChildren])
        /\ Len(deleting') = n - 1 /\ Walking' = 1 .. n - 1 /\ Walking = 1 .. n
        /\ \A i \in 1 .. n - 1 : nodeOf(i)' = nodeOf(i) /\ slotOf(i)' = slotOf(i)
        /\ freed' = freed \cup {t}
    BY <1>1, <1>2, TopFacts DEF nodeOf, slotOf, Walking
  <1>4. deleting' = <<>> <=> n = 1
    BY <1>2, <1>3
  <1>5. /\ \A i \in 1 .. n : /\ height(nodeOf(i)) = height(m_root) + 1 - i
                             /\ nodeOf(i) \notin freed
        /\ \A i \in 1 .. n : i # n =>
             slotOf(i) >= 1 /\ child(nodeOf(i), slotOf(i) - 1) = nodeOf(i + 1)
        /\ nodeOf(1) = m_root
    BY <1>1, <1>2, <1>3 DEF Chain
  <1>6. ASSUME NEW i \in 1 .. n - 1
        PROVE  /\ nodeOf(i) # t /\ i \in 1 .. n /\ i # n
               /\ nodeOf(i)' = nodeOf(i) /\ slotOf(i)' = slotOf(i)
    <2>1. i \in Walking /\ n \in Walking /\ i # n /\ i \in 1 .. n
      BY <1>2, <1>3
    <2>2. nodeOf(i) = nodeOf(n) => i = n
      BY <1>1, <2>1, StackLevels
    <2> QED
      BY <1>2, <1>3, <2>1, <2>2
  <1>7. Chain'
    <2>1. /\ deleting' \in Seq([p_node : Nodes', slot : 0 .. MaxChildren])
          /\ freed' \subseteq Nodes'
      BY <1>1, <1>2, <1>3 DEF TreeStays, Chain
    <2>2. deleting' # <<>> => nodeOf(1)' = m_root'
      BY <1>1, <1>2, <1>3, <1>4, <1>5 DEF TreeStays
    <2>3. ASSUME NEW i \in 1 .. n - 1
          PROVE  /\ heap'[nodeOf(i)'].m_height = heap'[m_root'].m_height + 1 - i
                 /\ nodeOf(i)' \notin freed'
      <3>1. height(nodeOf(i)) = height(m_root) + 1 - i /\ nodeOf(i) \notin freed
        BY <1>5, <1>6
      <3>2. nodeOf(i)' = nodeOf(i) /\ nodeOf(i) # t
        BY <1>6
      <3> QED
        BY <1>1, <1>3, <3>1, <3>2 DEF TreeStays, height
    <2>4. ASSUME NEW i \in 1 .. n - 1, i # n - 1
          PROVE  /\ slotOf(i)' >= 1
                 /\ heap'[nodeOf(i)'].m_subNodes[slotOf(i)' - 1].m_child = nodeOf(i + 1)'
      <3>1. i + 1 \in 1 .. n - 1 /\ i # n
        BY <1>2, <2>4
      <3>2. nodeOf(i)' = nodeOf(i) /\ slotOf(i)' = slotOf(i) /\ nodeOf(i + 1)' = nodeOf(i + 1)
        BY <1>3, <3>1
      <3>3. slotOf(i) >= 1 /\ child(nodeOf(i), slotOf(i) - 1) = nodeOf(i + 1)
        BY <1>5, <3>1
      <3> QED
        BY <1>1, <3>2, <3>3 DEF TreeStays, child, sub
    <2> QED
      BY <1>3, <2>1, <2>2, <2>3, <2>4 DEF Chain, height, child, sub
  <1>8. \A s \in Slots : s \in Nat /\ s < MaxChildren
    BY SlotFacts
  <1>9. ASSUME NEW k \in Nodes, NEW s \in Slots PROVE Visited(k, s)' <=> Visited(k, s)
    <2>1. CASE k = t
      <3>1. n \in Walking /\ nodeOf(n) = k /\ s < slotOf(n) /\ k \in freed'
        BY <1>2, <1>3, <1>8, <2>1
      <3> QED
        BY <3>1 DEF Visited
    <2>2. CASE k # t
      <3>1. k \in freed' <=> k \in freed
        BY <1>3, <2>2
      <3>2. ASSUME NEW i \in Walking, nodeOf(i) = k, s < slotOf(i)
            PROVE  i \in Walking' /\ nodeOf(i)' = k /\ s < slotOf(i)'
        <4>1. i # n
          BY <1>2, <2>2, <3>2
        <4>2. i \in 1 .. n - 1
          BY <1>2, <1>3, <4>1
        <4> QED
          BY <1>3, <1>6, <3>2, <4>2
      <3>3. ASSUME NEW i \in Walking', nodeOf(i)' = k, s < slotOf(i)'
            PROVE  i \in Walking /\ nodeOf(i) = k /\ s < slotOf(i)
        <4>1. i \in 1 .. n - 1
          BY <1>3
        <4> QED
          BY <1>3, <1>6, <3>3, <4>1
      <3> QED
        BY <3>1, <3>2, <3>3 DEF Visited
    <2> QED
      BY <2>1, <2>2
  <1>10. Closed'
    <2>1. \A k \in freed, s \in Slots : child(k, s) \in freed \cup {nullptr}
      BY DEF Walk, Closed
    <2>2. \A s \in Slots : child(t, s) \in freed \cup {nullptr}
      <3>1. n \in Walking /\ n = Len(deleting) /\ nodeOf(n) = t /\ slotOf(n) = MaxChildren
        BY <1>2, <1>3
      <3>2. \A s \in Slots : s < slotOf(n) => child(nodeOf(n), s) \in freed \cup {nullptr}
        BY <3>1 DEF Walk, Closed
      <3> QED
        BY <1>8, <3>1, <3>2
    <2>3. ASSUME NEW i \in 1 .. n - 1, NEW s \in Slots, s < slotOf(i)
          PROVE  \/ child(nodeOf(i), s) \in freed' \cup {nullptr}
                 \/ i # n - 1 /\ s = slotOf(i) - 1
      <3>1. i \in Walking /\ i # n
        BY <1>2, <1>3
      <3>2. CASE s = slotOf(i) - 1 /\ i = n - 1
        <4>1. child(nodeOf(i), s) = nodeOf(i + 1) /\ i + 1 = n
          BY <1>2, <1>3, <1>5, <3>1, <3>2
        <4> QED
          BY <1>2, <1>3, <4>1
      <3> QED
        BY <1>2, <1>3, <2>3, <3>1, <3>2 DEF Walk, Closed
    <2>4. deleting' = <<>> => m_root \in freed'
      BY <1>2, <1>3, <1>4, <1>5
    <2> QED
      BY <1>1, <1>3, <2>1, <2>2, <2>3, <2>4 DEF Closed, TreeStays, child, sub
  <1>11. Once'
    <2> SUFFICES ASSUME NEW k \in Nodes, NEW m \in Nodes, NEW s \in Slots, NEW r \in Slots,
                        Visited(k, s)', Visited(m, r)', child(k, s) = child(m, r),
                        child(k, s) # nullptr
                 PROVE  k = m /\ s = r
      BY <1>1 DEF Once, TreeStays, child, sub
    <2> QED
      BY <1>9 DEF Walk, Once
  <1>12. Reached'
    <2> SUFFICES ASSUME NEW k \in Nodes,
                        k \in freed' \/ (\E i \in 1 .. n - 1 : nodeOf(i) = k), k # m_root
                 PROVE  \E m \in Nodes, s \in Slots : Visited(m, s)' /\ child(m, s) = k
      BY <1>1, <1>3 DEF Reached, TreeStays, child, sub
    <2>1. k \in freed \/ \E i \in Walking : nodeOf(i) = k
      <3>1. CASE k = t
        <4>1. n \in Walking /\ nodeOf(n) = k
          BY <1>2, <1>3, <3>1
        <4> QED
          BY <4>1
      <3>2. CASE k # t
        BY <1>3, <1>6, <3>2
      <3> QED
        BY <3>1, <3>2
    <2>2. \E m \in Nodes, s \in Slots : Visited(m, s) /\ child(m, s) = k
      BY <2>1 DEF Walk, Reached
    <2> QED
      BY <1>9, <2>2
  <1> QED
    BY <1>1, <1>7, <1>10, <1>11, <1>12 DEF Walk

\* The outermost activation has returned: every node is freed, and there was
\* no stale slot.
LEMMA AllFreed ==
    ASSUME QuietTree, Walk, deleting = <<>>
    PROVE  freed = Nodes /\ StaleChildren = {}
  <1>1. /\ freed \subseteq Nodes /\ m_root \in freed
        /\ \A n \in freed, s \in Slots : child(n, s) \in freed \cup {nullptr}
    BY DEF Walk, Chain, Closed
  <1>2. Nodes \subseteq freed
    <2> SUFFICES ASSUME Nodes \ freed # {} PROVE FALSE
      OBVIOUS
    <2>1. PICK u \in Nodes \ freed : \A k \in Nodes \ freed : height(k) <= height(u)
      <3> DEFINE S == Nodes \ freed
      <3>1. S \in SUBSET Nodes /\ S # {}
        OBVIOUS
      <3> HIDE DEF S
      <3>2. \E n \in S : \A k \in S : height(k) <= height(n)
        BY <3>1, HighestNode
      <3> QED
        BY <3>2 DEF S
    <2>2. PICK k \in Nodes, s \in Slots : child(k, s) = u
      BY <1>1, <2>1 DEF QuietTree
    <2>3. height(u) = height(k) - 1 /\ height(k) \in Nat /\ height(u) \in Nat
      BY <2>1, <2>2 DEF QuietTree
    <2>4. k \in freed
      BY <2>1, <2>3
    <2> QED
      BY <1>1, <2>1, <2>2, <2>4 DEF QuietTree
  <1>3. StaleChildren = {}
    <2> SUFFICES ASSUME NEW n \in Nodes, NEW s \in Slots, ~ (s < csize(n)),
                        child(n, s) # nullptr
                 PROVE  FALSE
      BY DEF StaleChildren, Used, csize, at, child
    <2>1. PICK c \in Nodes : c = child(n, s) /\ height(c) = height(n) - 1
      BY DEF QuietTree
    <2>2. c # m_root
      <3>1. height(c) < height(m_root)
        <4>1. height(n) \in Nat /\ height(m_root) \in Nat /\ height(n) <= height(m_root)
          BY RootHighest DEF QuietTree
        <4> QED
          BY <2>1, <4>1
      <3> QED
        BY <3>1 DEF QuietTree
    <2>3. PICK k \in Nodes, r \in Slots : r < csize(k) /\ child(k, r) = c
      BY <2>2 DEF QuietTree
    <2>4. Visited(n, s) /\ Visited(k, r)
      BY <1>1, <1>2 DEF Visited
    <2> QED
      BY <2>1, <2>3, <2>4 DEF Walk, Once
  <1> QED
    BY <1>1, <1>2, <1>3

\* A stale slot is in an inner node below the root.
LEMMA StaleIsHigh ==
    ASSUME QuietTree, StaleChildren # {}
    PROVE  height(m_root) >= 2
  <1>1. PICK n \in Nodes, s \in Slots : ~ (s < csize(n)) /\ child(n, s) # nullptr
    BY DEF StaleChildren, Used, csize, at, child
  <1>2. n # m_root
    BY <1>1 DEF QuietTree
  <1>3. height(n) \in Nat /\ height(m_root) \in Nat /\ height(n) < height(m_root)
    BY <1>2, RootHighest DEF QuietTree
  <1>4. height(child(n, s)) = height(n) - 1 /\ height(child(n, s)) \in Nat
    BY <1>1 DEF QuietTree
  <1> QED
    BY <1>3, <1>4
-----------------------------------------------------------------------------
Deleting == pc \in {"destroy", "destroyed", "useAfterFree"}

DestroyInv ==
    /\ CoveredInv /\ Bounded /\ SlotsInv
    /\ pc = "destroy" => Walk
    /\ pc = "destroyed" => freed = Nodes /\ StaleChildren = {}
    /\ pc = "useAfterFree" => StaleChildren # {}
    /\ ~ Deleting => deleting = <<>> /\ freed = {}

\* The invariants of the insertion outlast the steps of the destructor.
LEMMA TreeOutlasts ==
    ASSUME CoveredInv, Bounded, SlotsInv, UNCHANGED treeVars, Quiet, Quiet'
    PROVE  CoveredInv' /\ Bounded' /\ SlotsInv'
  <1>1. /\ UNCHANGED <<splitVars, indexVars, callVars>>
        /\ UNCHANGED <<t_overflowBuffer, heap, m_root, m_size, inserted, r_subNode,
                       p_node, frames>>
    BY DEF treeVars, splitVars, indexVars, callVars
  <1>2. OccupiedInv'
    BY <1>1, PassiveOccupied DEF CoveredInv, TreeInv
  <1>3. TypeOK /\ TypeOK' /\ ShapeInv' /\ TreeInv /\ frames = <<>>
    BY <1>2 DEF CoveredInv, TreeInv, OccupiedInv, ShapeInv, Shape
  <1>4. /\ Buffered = {} /\ Buffered' = {} /\ Roots' = Roots
        /\ ~ Dead /\ ~ Stored' /\ ~ Splitting'
    BY <1>1 DEF Quiet, Buffered, Splitting, Roots, Pending, Dead, Stored
  <1>5. TreeInv'
    BY <1>1, <1>2, <1>3, <1>4, StillTree DEF TreeInv
  <1>6. CoveredInv'
    <2>1. ~ Growing /\ Lags' /\ Refilled' /\ DeadBelow'
      BY <1>1, <1>3
      DEF Growing, Lags, Active, Splitting, Refilled, DeadBelow, Quiet, Dead
    <2> QED
      BY <1>1, <1>4, <1>5, <2>1, StillCovered DEF CoveredInv
  <1>7. Bounded'
    <2>1. Given' = Given
      BY <1>1 DEF Given, Quiet, Active, Splitting, Dead
    <2> QED
      BY <1>1, <1>3, <1>4, <2>1, BoundedStill DEF Quiet
  <1>8. SlotsInv'
    BY <1>1
    DEF SlotsInv, SlotsFit, RootClean, Nodes, sub, height, csize, Quiet, Dead, Pending
  <1> QED
    BY <1>6, <1>7, <1>8

\* The insertion neither starts the destructor nor runs after it.
LEMMA InsertionApart ==
    ASSUME Next
    PROVE  ~ Deleting /\ ~ Deleting'
  BY SplitStepFrame
  DEF Deleting, Dead, Next, InsertStep, Insert, Descend, DescendNowhere, AddToLeaf,
      AddSubNode, StartSplit, AllocateSibling, FillNext, FillDone, ReturnUnsplit,
      ReturnSplit, DanglingRead, Finish, Stopped, vars

LEMMA NextDestroyed == DestroyInv /\ [DestroyNext]_allVars => DestroyInv'
  <1> SUFFICES ASSUME DestroyInv, [DestroyNext]_allVars PROVE DestroyInv'
    OBVIOUS
  <1>1. /\ CoveredInv /\ Bounded /\ SlotsInv /\ BoundedInv /\ TreeInv /\ ShapeInv
    BY DEF DestroyInv, CoveredInv, TreeInv, OccupiedInv, BoundedInv
  <1>2. CASE UNCHANGED allVars
    <2>1. CoveredInv' /\ Bounded' /\ SlotsInv'
      <3>1. [Next]_vars
        BY <1>2 DEF allVars
      <3>2. CoveredInv' /\ BoundedInv' /\ ShapeInv'
        BY <1>1, <3>1, NextCovered, NextBounded, NextShape
      <3>3. SlotsInv'
        BY <1>1, <3>1, <3>2, NextSlots, NextFit, NextRootClean DEF SlotsInv
      <3> QED
        BY <3>2, <3>3 DEF BoundedInv
    <2>2. /\ UNCHANGED <<pc, deleting, freed, heap, m_root>>
      BY <1>2 DEF allVars, vars, indexVars
    <2>3. Nodes' = Nodes /\ StaleChildren' = StaleChildren
      BY <2>2 DEF Nodes, StaleChildren, Used, at, sub
    <2>4. (Chain => Chain') /\ (Closed => Closed')
      BY <2>2, <2>3 DEF Chain, Closed, Walking, nodeOf, slotOf, child, sub, height
    <2>5. \A n, s : Visited(n, s)' <=> Visited(n, s)
      BY <2>2 DEF Visited, Walking, nodeOf, slotOf
    <2>6. Once => Once'
      BY <2>2, <2>3, <2>5 DEF Once, child, sub
    <2>7. Reached => Reached'
      BY <2>2, <2>3, <2>5 DEF Reached, Walking, nodeOf, child, sub
    <2> QED
      BY <2>1, <2>2, <2>3, <2>4, <2>6, <2>7 DEF DestroyInv, Deleting, Walk
  <1>3. CASE Next /\ UNCHANGED <<deleting, freed>>
    <2>1. CoveredInv' /\ BoundedInv' /\ ShapeInv'
      BY <1>1, <1>3, NextCovered, NextBounded, NextShape
    <2>2. SlotsInv'
      BY <1>1, <1>3, <2>1, NextSlots, NextFit, NextRootClean DEF SlotsInv
    <2>3. ~ Deleting /\ ~ Deleting'
      BY <1>3, InsertionApart
    <2> QED
      BY <1>3, <2>1, <2>2, <2>3 DEF DestroyInv, Deleting, BoundedInv
  <1>4. ASSUME UNCHANGED treeVars, Quiet, Quiet'
        PROVE  CoveredInv' /\ Bounded' /\ SlotsInv'
    BY <1>1, <1>4, TreeOutlasts
  <1>5. Quiet => QuietTree
    BY <1>1, TreeIsQuiet
  <1>6. CASE Destroy
    <2>1. pc = "idle" /\ pc' = "destroy" /\ UNCHANGED treeVars
      BY <1>6 DEF Destroy
    <2>2. Walk'
      BY <1>5, <1>6, <2>1, DestroyWalk DEF DestroyInv, Deleting, Quiet
    <2> QED
      BY <1>4, <2>1, <2>2 DEF DestroyInv, Deleting, Quiet
  <1>7. CASE DeleteChild
    <2>1. pc = "destroy" /\ UNCHANGED treeVars /\ Quiet /\ QuietTree /\ Walk
      BY <1>5, <1>7 DEF DeleteChild, Quiet, DestroyInv
    <2>2. CASE child(top.p_node, top.slot) = nullptr
      BY <1>4, <1>7, <2>1, <2>2, EmptySlotWalk DEF DestroyInv, Deleting, Quiet
    <2>3. CASE child(top.p_node, top.slot) \notin freed \cup {nullptr}
      BY <1>4, <1>7, <2>1, <2>3, ChildWalk DEF DestroyInv, Deleting, Quiet
    <2>4. CASE child(top.p_node, top.slot) \in freed
      <3>1. StaleChildren # {} /\ pc' = "useAfterFree" /\ TreeStays
        BY <1>7, <2>1, <2>4, FreedChildStale
      <3>2. StaleChildren' = StaleChildren
        BY <3>1 DEF TreeStays, StaleChildren, Used, at, sub
      <3> QED
        BY <1>4, <2>1, <3>1, <3>2 DEF DestroyInv, Deleting, Quiet
    <2> QED
      BY <2>2, <2>3, <2>4
  <1>8. CASE DeleteNode
    <2>1. pc = "destroy" /\ UNCHANGED treeVars /\ Quiet /\ QuietTree /\ Walk
      BY <1>5, <1>8 DEF DeleteNode, Quiet, DestroyInv
    <2> QED
      BY <1>4, <1>8, <2>1, NodeWalk DEF DestroyInv, Deleting, Quiet
  <1>9. CASE Destroyed
    <2>1. /\ pc = "destroy" /\ pc' = "destroyed" /\ UNCHANGED treeVars /\ freed' = freed
          /\ deleting = <<>> /\ Quiet /\ QuietTree /\ Walk
      BY <1>5, <1>9 DEF Destroyed, Quiet, DestroyInv
    <2>2. freed = Nodes /\ StaleChildren = {}
      BY <2>1, AllFreed
    <2>3. Nodes' = Nodes /\ StaleChildren' = StaleChildren
      BY <2>1, SameTree DEF TreeStays, StaleChildren, Used, at, sub
    <2> QED
      BY <1>4, <2>1, <2>2, <2>3 DEF DestroyInv, Deleting, Quiet
  <1>10. CASE Over
    BY <1>2, <1>10 DEF Over
  <1> QED
    BY <1>2, <1>3, <1>6, <1>7, <1>8, <1>9, <1>10 DEF DestroyNext, DestroyStep

LEMMA InitDestroyed == DestroyInit => DestroyInv
  <1> SUFFICES ASSUME DestroyInit PROVE DestroyInv
    OBVIOUS
  <1>1. Init /\ deleting = <<>> /\ freed = {} /\ pc = "idle"
    BY DEF DestroyInit, Init
  <1>2. Bounded
    BY <1>1, InitBounded DEF BoundedInv
  <1> QED
    BY <1>1, <1>2, InitCovered, InitSlots DEF DestroyInv, Deleting

LEMMA DestroyInvariant == DestroySpec => []DestroyInv
  BY InitDestroyed, NextDestroyed, PTL DEF DestroySpec

\* Until the destructor is done, and while it runs, the tree keeps all that the
\* insertions establish: deleting changes no node that is still there.
THEOREM DestroyKeepsTree ==
    DestroySpec => [](/\ TypeOK /\ HeightsStep /\ Occupancy /\ NodesLinkedOnce
                      /\ BoxesExact /\ EntriesKept /\ IndexInBounds)
  <1>1. DestroyInv => /\ TypeOK /\ HeightsStep /\ Occupancy /\ NodesLinkedOnce
                      /\ BoxesExact /\ EntriesKept /\ IndexInBounds
    <2> SUFFICES ASSUME DestroyInv
                 PROVE  /\ TypeOK /\ HeightsStep /\ Occupancy /\ NodesLinkedOnce
                        /\ BoxesExact /\ EntriesKept /\ IndexInBounds
      OBVIOUS
    <2>1. CoveredInv /\ TreeInv /\ OccupiedInv /\ ShapeInv /\ Bounded
      BY DEF DestroyInv, CoveredInv, TreeInv, OccupiedInv
    <2>2. TypeOK /\ HeightsStep
      BY <2>1, ShapeHeights DEF ShapeInv
    <2>3. Occupancy
      BY <2>1 DEF OccupiedInv, Occupied, Occupancy, Dead, Pending, csize
    <2>4. NodesLinkedOnce /\ EntriesKept /\ BoxesExact
      BY <2>1, TreeLinks, TreeEntries, CoveredBoxes
    <2>5. IndexInBounds
      BY <2>1 DEF Bounded, IndexInBounds, Given, Dead
    <2> QED
      BY <2>2, <2>3, <2>4, <2>5
  <1> QED
    BY <1>1, DestroyInvariant, PTL

\* When RecursivelyDeleteNode returns to the destructor, every node was freed
\* and no slot was stale; when it reads freed memory, some slot was.
THEOREM DestroyFrees == DestroySpec => []FreedUnlessStale
  <1>1. DestroyInv => FreedUnlessStale
    BY DEF DestroyInv, FreedUnlessStale
  <1> QED
    BY <1>1, DestroyInvariant, PTL

\* The destructor reads freed memory only in a tree with two levels below its
\* root: a split of the root leaves its stale slots in a child of the new root.
THEOREM DestroyLowTrees == DestroySpec => []LowTreesFreed
  <1>1. DestroyInv => LowTreesFreed
    <2> SUFFICES ASSUME DestroyInv, pc = "useAfterFree" PROVE heap[m_root].m_height >= 2
      BY DEF LowTreesFreed
    <2>1. QuietTree /\ StaleChildren # {}
      BY TreeIsQuiet DEF DestroyInv, Quiet, CoveredInv
    <2> QED
      BY <2>1, StaleIsHigh DEF height
  <1> QED
    BY <1>1, DestroyInvariant, PTL
=============================================================================
