------------------------- MODULE SpatialIndexProofs -------------------------
(***************************************************************************)
(* What Insert keeps of the tree and what is stored in it, at every step   *)
(* and for every size of a node, every number of dimensions, every set of  *)
(* boxes and every number of calls.  The inductive invariant has layers,   *)
(* each proved with the ones before it as known facts:                     *)
(*   Shape     the types, the levels of the nodes, and the path from the   *)
(*             root to the activation in progress;                         *)
(*   Occupied  how many entries each node has, a split one included;       *)
(*   Linked    every node but the roots has one parent entry;              *)
(*   Kept      every inserted entry has one place, and its box;            *)
(*   Covered   the box beside a child is the smallest around its entries,  *)
(*             but for the one above the activation in progress;           *)
(*   Bounded   every box was grown from those Insert was called with.      *)
(***************************************************************************)
EXTENDS SpatialIndex, NodeSplitProofs, SequenceTheorems

\* No insertion is in progress; the last three are places of SpatialDestroy.
Quiet == pc \in {"idle", "destroy", "destroyed", "useAfterFree"}
Splitting == pc \in {"seed", "deal", "rest", "check", "assigned"}
Active == Splitting \/ pc \in {"insert", "fill", "return"}

\* The innermost activation split its node: the sibling is not yet linked.
Pending == pc = "return" /\ splited

csize(n) == heap[n].m_csize
height(n) == heap[n].m_height

\* What an entry of a node at height level is like, in the heap h.
Fits(h, e, level) ==
    IF level = 0 THEN e.m_child = nullptr /\ e.m_data # NoData
    ELSE /\ e.m_child \in 1 .. Len(h) /\ h[e.m_child].m_height = level - 1
         /\ e.m_data = NoData

Levels(h) ==
    \A n \in 1 .. Len(h) : \A s \in Slots :
        s < h[n].m_csize => Fits(h, h[n].m_subNodes[s], h[n].m_height)

\* Heap g has the nodes of h, at their heights.
Extends(h, g) ==
    /\ Len(g) >= Len(h)
    /\ \A n \in 1 .. Len(h) : g[n].m_height = h[n].m_height

\* The children of node n in h are its children in g, in the same slots.
KeepsChildren(h, g, n) ==
    \A s \in Slots : s < h[n].m_csize =>
        /\ s < g[n].m_csize
        /\ g[n].m_subNodes[s].m_child = h[n].m_subNodes[s].m_child

\* The node of the i-th activation, the innermost one included.
node(i) == IF i <= Len(frames) THEN frames[i].p_node ELSE p_node

\* The activations follow a path from the root, one level per activation.
Path ==
    /\ p_node \in Nodes
    /\ node(1) = m_root
    /\ \A i \in DOMAIN frames :
         /\ frames[i].index \in Used(frames[i].p_node)
         /\ sub(frames[i].p_node, frames[i].index).m_child = node(i + 1)
         /\ height(frames[i].p_node) = height(p_node) + Len(frames) + 1 - i

NewEntry ==
    /\ m_size < MaxInserts
    /\ r_subNode.m_child = nullptr
    /\ r_subNode.m_data = m_size + 1

\* While a node is split its entries are in the buffer as well, and then,
\* until they are copied back, in the buffer only.
Buffer ==
    /\ Splitting => /\ csize(p_node) = MaxChildren
                    /\ \A s \in Slots : t_overflowBuffer[s] = sub(p_node, s)
                    /\ Fits(heap, t_overflowBuffer[MaxChildren], height(p_node))
    /\ pc = "fill" => /\ t_node # p_node
                      /\ height(t_node) = height(p_node)
                      /\ \A i \in Overflow :
                           Fits(heap, t_overflowBuffer[i], height(p_node))

Shape ==
    /\ Levels(heap)
    /\ Quiet => frames = <<>> /\ ~ splited
    /\ Active => Path /\ NewEntry
    /\ pc = "insert" => ~ splited
    /\ Pending => /\ m_nodeBuffer \in Nodes \ {p_node}
                  /\ height(m_nodeBuffer) = height(p_node)
    /\ Buffer

-----------------------------------------------------------------------------
\* The slots of a node are 0 to MaxChildren - 1, and there are some.
LEMMA SlotFacts ==
    /\ MaxChildren \in Nat /\ MaxChildren >= 2 /\ MinChildren \in Nat
    /\ MinChildren >= 1 /\ MinChildren < MaxChildren
    /\ Slots = 0 .. MaxChildren - 1 /\ 0 \in Slots
    /\ Overflow = 0 .. MaxChildren /\ Slots \subseteq Overflow
    /\ MaxChildren \in Overflow /\ MaxChildren \notin Slots
    /\ \A i \in Overflow : i # MaxChildren => i \in Slots
    /\ Size = MaxChildren + 1
  BY ChildrenAssumption DEF Slots, Overflow, Size

\* The fields of a node, of an entry and of an activation.
LEMMA NodeFields ==
    /\ \A x \in Node : /\ x.m_csize \in 0 .. MaxChildren
                       /\ x.m_height \in Nat
                       /\ x.m_subNodes \in [Slots -> SubNode]
                       /\ \A s \in Slots : x.m_subNodes[s] \in SubNode
    /\ \A e \in SubNode : e.m_box \in Box /\ e.m_child \in Nat /\ e.m_data \in Nat
    /\ NoEntry \in SubNode
    /\ \A h \in Nat : NewNode(h) \in Node
  <1>1. NoEntry \in SubNode
    BY OriginType DEF NoEntry, SubNode, nullptr, NoData
  <1>2. \A h \in Nat : NewNode(h) \in Node
    BY <1>1, SlotFacts DEF NewNode, Node
  <1> QED
    BY <1>1, <1>2 DEF Node, SubNode

\* A node takes one more entry, in the slot after its last.
LEMMA PlacedHeap ==
    ASSUME NEW h \in Seq(Node), NEW n \in 1 .. Len(h), NEW entry \in SubNode,
           h[n].m_csize < MaxChildren
    PROVE  LET g == Placed(h, entry, n)
           IN /\ g \in Seq(Node) /\ Len(g) = Len(h)
              /\ \A k \in 1 .. Len(h) : /\ g[k].m_height = h[k].m_height
                                        /\ k # n => g[k] = h[k]
              /\ g[n].m_csize = h[n].m_csize + 1
              /\ h[n].m_csize \in Slots
              /\ g[n].m_subNodes[h[n].m_csize] = entry
              /\ \A s \in Slots : s # h[n].m_csize =>
                   g[n].m_subNodes[s] = h[n].m_subNodes[s]
  <1> DEFINE g == Placed(h, entry, n)
             x == [h[n] EXCEPT !.m_subNodes =
                     [h[n].m_subNodes EXCEPT ![h[n].m_csize] = entry],
                               !.m_csize = h[n].m_csize + 1]
  <1>1. h[n] \in Node
    OBVIOUS
  <1>2. /\ x \in Node /\ x.m_height = h[n].m_height
        /\ x.m_csize = h[n].m_csize + 1
        /\ h[n].m_csize \in Slots
        /\ x.m_subNodes[h[n].m_csize] = entry
        /\ \A s \in Slots : s # h[n].m_csize =>
             x.m_subNodes[s] = h[n].m_subNodes[s]
    <2>1. h[n].m_csize \in Slots /\ h[n].m_csize + 1 \in 0 .. MaxChildren
      BY <1>1, SlotFacts, NodeFields
    <2> DEFINE f == [h[n].m_subNodes EXCEPT ![h[n].m_csize] = entry]
    <2>2. /\ f \in [Slots -> SubNode] /\ f[h[n].m_csize] = entry
          /\ \A s \in Slots : s # h[n].m_csize => f[s] = h[n].m_subNodes[s]
      BY <1>1, <2>1, NodeFields
    <2> HIDE DEF f
    <2> QED
      BY <1>1, <2>1, <2>2 DEF Node, f
  <1>3. g = [h EXCEPT ![n] = x]
    BY <1>1 DEF Placed, Node
  <1> HIDE DEF g, x
  <1>4. /\ g \in Seq(Node) /\ Len(g) = Len(h) /\ g[n] = x
        /\ \A k \in 1 .. Len(h) : k # n => g[k] = h[k]
    BY <1>2, <1>3
  <1> QED
    BY <1>2, <1>4 DEF g

\* The box of one entry changes and nothing else.
LEMMA WithBoxHeap ==
    ASSUME NEW h \in Seq(Node), NEW n \in 1 .. Len(h), NEW s \in Slots,
           NEW b \in Box
    PROVE  LET g == WithBox(h, n, s, b)
           IN /\ g \in Seq(Node) /\ Len(g) = Len(h)
              /\ \A k \in 1 .. Len(h) : /\ g[k].m_height = h[k].m_height
                                        /\ g[k].m_csize = h[k].m_csize
                                        /\ k # n => g[k] = h[k]
              /\ \A r \in Slots :
                   /\ r # s => g[n].m_subNodes[r] = h[n].m_subNodes[r]
                   /\ g[n].m_subNodes[r].m_child = h[n].m_subNodes[r].m_child
                   /\ g[n].m_subNodes[r].m_data = h[n].m_subNodes[r].m_data
              /\ g[n].m_subNodes[s].m_box = b
  <1> DEFINE g == WithBox(h, n, s, b)
             e == [h[n].m_subNodes[s] EXCEPT !.m_box = b]
             x == [h[n] EXCEPT !.m_subNodes = [h[n].m_subNodes EXCEPT ![s] = e]]
  <1>0. h[n] \in Node
    OBVIOUS
  <1>1. h[n] \in Node /\ h[n].m_subNodes[s] \in SubNode
    BY <1>0, NodeFields
  <1>2. /\ e \in SubNode /\ e.m_box = b
        /\ e.m_child = h[n].m_subNodes[s].m_child
        /\ e.m_data = h[n].m_subNodes[s].m_data
    BY <1>1 DEF SubNode
  <1>3. g = [h EXCEPT ![n] = x]
    BY <1>1 DEF WithBox, Node, SubNode
  <1> HIDE DEF e
  <1>4. /\ x \in Node /\ x.m_height = h[n].m_height
        /\ x.m_csize = h[n].m_csize
        /\ x.m_subNodes[s] = e
        /\ \A r \in Slots : r # s => x.m_subNodes[r] = h[n].m_subNodes[r]
    BY <1>1, <1>2 DEF Node
  <1> HIDE DEF g, x
  <1>5. /\ g \in Seq(Node) /\ Len(g) = Len(h) /\ g[n] = x
        /\ \A k \in 1 .. Len(h) : k # n => g[k] = h[k]
    BY <1>3, <1>4
  <1> QED
    BY <1>2, <1>4, <1>5 DEF g

\* The node that is split is emptied, and a new one of its height allocated.
LEMMA SplitHeap ==
    ASSUME NEW h \in Seq(Node), NEW n \in 1 .. Len(h), NEW level \in Nat
    PROVE  LET g == Append([h EXCEPT ![n].m_csize = 0], NewNode(level))
           IN /\ g \in Seq(Node) /\ Len(g) = Len(h) + 1
              /\ \A k \in 1 .. Len(h) : /\ g[k].m_height = h[k].m_height
                                        /\ g[k].m_subNodes = h[k].m_subNodes
                                        /\ k # n => g[k] = h[k]
              /\ g[n].m_csize = 0
              /\ g[Len(h) + 1] = NewNode(level)
  <1> DEFINE x == [h[n] EXCEPT !.m_csize = 0]
             f == [h EXCEPT ![n] = x]
             g == Append(f, NewNode(level))
  <1>1. h[n] \in Node
    OBVIOUS
  <1>2. /\ x \in Node /\ x.m_height = h[n].m_height /\ x.m_csize = 0
        /\ x.m_subNodes = h[n].m_subNodes
    BY <1>1, SlotFacts DEF Node
  <1>3. [h EXCEPT ![n].m_csize = 0] = f
    OBVIOUS
  <1> HIDE DEF x
  <1>4. /\ f \in Seq(Node) /\ Len(f) = Len(h) /\ f[n] = x
        /\ \A k \in 1 .. Len(h) : k # n => f[k] = h[k]
    BY <1>2
  <1>5. NewNode(level) \in Node
    BY NodeFields
  <1> HIDE DEF f
  <1>6. /\ g \in Seq(Node) /\ Len(g) = Len(h) + 1
        /\ \A k \in 1 .. Len(h) : g[k] = f[k]
        /\ g[Len(h) + 1] = NewNode(level)
    BY <1>4, <1>5
  <1> QED
    BY <1>2, <1>3, <1>4, <1>6

\* The box NodeCover returns for a node of heap h: always a box, and the
\* smallest one around the node's entries when it has any.
LEMMA NodeCoverIsCover ==
    ASSUME NEW h \in Seq(Node), NEW n \in 1 .. Len(h)
    PROVE  LET boxes == {h[n].m_subNodes[s].m_box : s \in 0 .. h[n].m_csize - 1}
           IN /\ NodeCover(h, n) \in Box
              /\ boxes \in SUBSET Box /\ IsFiniteSet(boxes)
              /\ h[n].m_csize >= 1 => IsCover(NodeCover(h, n), boxes)
  <1> DEFINE boxes == {h[n].m_subNodes[s].m_box : s \in 0 .. h[n].m_csize - 1}
             all == {h[n].m_subNodes[0].m_box} \cup boxes
  <1>0. h[n] \in Node
    OBVIOUS
  <1>1. /\ h[n].m_csize \in 0 .. MaxChildren /\ 0 .. h[n].m_csize - 1 \subseteq Slots
        /\ \A s \in Slots : h[n].m_subNodes[s].m_box \in Box
    BY <1>0, NodeFields, SlotFacts
  <1>2. boxes \in SUBSET Box
    BY <1>1
  <1>3. IsFiniteSet(boxes)
    <2>1. IsFiniteSet(0 .. h[n].m_csize - 1)
      <3>1. 0 \in Int /\ h[n].m_csize - 1 \in Int
        BY <1>1, SlotFacts
      <3> QED
        BY <3>1, FS_Interval
    <2>2. [s \in 0 .. h[n].m_csize - 1 |-> h[n].m_subNodes[s].m_box]
            \in Surjection(0 .. h[n].m_csize - 1, boxes)
      BY DEF Surjection
    <2> HIDE DEF boxes
    <2> QED
      BY <2>1, <2>2, FS_Surjection
  <1>4. h[n].m_subNodes[0].m_box \in Box
    BY <1>1, SlotFacts
  <1>5. all \in SUBSET Box /\ IsFiniteSet(all) /\ all # {}
    <2>1. IsFiniteSet({h[n].m_subNodes[0].m_box})
      BY FS_Singleton
    <2> HIDE DEF boxes
    <2> QED
      BY <1>2, <1>3, <1>4, <2>1, FS_Union
  <1>6. IsCover(NodeCover(h, n), all)
    <2> HIDE DEF all
    <2>1. IsCover(Cover(all), all)
      BY <1>5, CoverIsCover
    <2> QED
      BY <2>1 DEF NodeCover, all
  <1>7. ASSUME h[n].m_csize >= 1 PROVE all = boxes
    BY <1>1, <1>7
  <1> HIDE DEF boxes, all
  <1>8. NodeCover(h, n) \in Box
    BY <1>6 DEF IsCover
  <1> QED
    BY <1>2, <1>3, <1>6, <1>7, <1>8 DEF boxes

\* A new root with two entries, above the old one.
LEMMA GrownHeapFacts ==
    ASSUME heap \in Seq(Node), m_root \in Nodes, m_nodeBuffer \in Nodes
    PROVE  /\ GrownHeap \in Seq(Node) /\ Len(GrownHeap) = Len(heap) + 1
           /\ \A k \in Nodes : GrownHeap[k] = heap[k]
           /\ GrownHeap[Len(heap) + 1].m_height = height(m_root) + 1
           /\ GrownHeap[Len(heap) + 1].m_csize = 2
           /\ GrownHeap[Len(heap) + 1].m_subNodes[0] = childEntry(m_root)
           /\ GrownHeap[Len(heap) + 1].m_subNodes[1] = childEntry(m_nodeBuffer)
           /\ childEntry(m_root) \in SubNode /\ childEntry(m_nodeBuffer) \in SubNode
  <1> DEFINE grown == Append(heap, NewNode(height(m_root) + 1))
             new == Len(heap) + 1
             withOld == Placed(grown, childEntry(m_root), new)
  <1>1. height(m_root) \in Nat /\ NewNode(height(m_root) + 1) \in Node
    BY NodeFields DEF height, Nodes
  <1>2. /\ grown \in Seq(Node) /\ Len(grown) = new /\ new \in 1 .. Len(grown)
        /\ \A k \in Nodes : grown[k] = heap[k]
        /\ grown[new] = NewNode(height(m_root) + 1)
    BY <1>1 DEF Nodes
  <1>3. \A n \in Nodes : childEntry(n) \in SubNode
    <2>1. \A n \in Nodes : NodeCover(heap, n) \in Box
      BY NodeCoverIsCover DEF Nodes
    <2> QED
      BY <2>1 DEF Nodes, childEntry, SubNode, NoData
  <1>4. /\ grown[new].m_csize = 0 /\ grown[new].m_height = height(m_root) + 1
        /\ \A k \in Nodes : k # new /\ k \in 1 .. Len(grown)
    BY <1>2 DEF NewNode, Nodes
  <1> HIDE DEF grown
  <1>5. /\ withOld \in Seq(Node) /\ Len(withOld) = new
        /\ \A k \in Nodes : withOld[k] = heap[k]
        /\ withOld[new].m_height = height(m_root) + 1
        /\ withOld[new].m_csize = 1
        /\ withOld[new].m_subNodes[0] = childEntry(m_root)
    BY <1>2, <1>3, <1>4, PlacedHeap, SlotFacts, SMTT(30)
  <1> HIDE DEF withOld
  <1>6. LET g == Placed(withOld, childEntry(m_nodeBuffer), new)
        IN /\ g \in Seq(Node) /\ Len(g) = new
           /\ \A k \in Nodes : g[k] = heap[k]
           /\ g[new].m_height = height(m_root) + 1
           /\ g[new].m_csize = 2
           /\ g[new].m_subNodes[0] = childEntry(m_root)
           /\ g[new].m_subNodes[1] = childEntry(m_nodeBuffer)
    <2> DEFINE entry == childEntry(m_nodeBuffer)
               g == Placed(withOld, entry, new)
    <2>1. /\ new \in 1 .. Len(withOld) /\ entry \in SubNode
          /\ withOld[new].m_csize < MaxChildren
      BY <1>2, <1>3, <1>5, SlotFacts
    <2> HIDE DEF entry
    <2>2. /\ g \in Seq(Node) /\ Len(g) = Len(withOld)
          /\ \A k \in 1 .. Len(withOld) :
               g[k].m_height = withOld[k].m_height /\ (k # new => g[k] = withOld[k])
          /\ g[new].m_csize = withOld[new].m_csize + 1
          /\ g[new].m_subNodes[withOld[new].m_csize] = entry
          /\ \A s \in Slots : s # withOld[new].m_csize =>
               g[new].m_subNodes[s] = withOld[new].m_subNodes[s]
      BY <1>5, <2>1, PlacedHeap
    <2> HIDE DEF g
    <2>3. \A k \in Nodes : g[k] = heap[k]
      BY <1>2, <1>4, <1>5, <2>2
    <2>4. /\ g[new].m_height = height(m_root) + 1 /\ g[new].m_csize = 2
          /\ g[new].m_subNodes[0] = childEntry(m_root)
          /\ g[new].m_subNodes[1] = entry
      BY <1>5, <2>1, <2>2, SlotFacts
    <2> QED
      BY <1>5, <2>2, <2>3, <2>4 DEF g, entry
  <1>7. GrownHeap = Placed(withOld, childEntry(m_nodeBuffer), new)
    BY <1>2 DEF GrownHeap, withOld, grown, height
  <1> QED
    BY <1>3, <1>6, <1>7

\* The activations below the innermost one.
LEMMA FramesFacts ==
    ASSUME NEW S, frames \in Seq(S), frames # <<>>
    PROVE  /\ Front(frames) \in Seq(S) /\ Len(frames) >= 1
           /\ Len(Front(frames)) = Len(frames) - 1
           /\ \A i \in 1 .. Len(frames) - 1 : Front(frames)[i] = frames[i]
           /\ caller = frames[Len(frames)] /\ caller \in S
  <1>1. Len(frames) \in Nat /\ Len(frames) >= 1
    OBVIOUS
  <1>2. Front(frames) = SubSeq(frames, 1, Len(frames) - 1)
    BY DEF Front
  <1>3. /\ Front(frames) \in Seq(S)
        /\ Len(Front(frames)) = Len(frames) - 1
        /\ \A i \in 1 .. Len(frames) - 1 : Front(frames)[i] = frames[i]
    <2> DEFINE n == Len(frames) - 1
    <2>1. 1 \in Int /\ n \in Nat /\ \A i \in 1 .. n : frames[i] \in S
      BY <1>1
    <2> HIDE DEF n
    <2>2. /\ SubSeq(frames, 1, n) \in Seq(S)
          /\ Len(SubSeq(frames, 1, n)) = IF 1 <= n THEN n - 1 + 1 ELSE 0
          /\ \A i \in 1 .. n - 1 + 1 :
               SubSeq(frames, 1, n)[i] = frames[1 + i - 1]
      BY <2>1, SubSeqProperties
    <2>3. /\ n - 1 + 1 = n /\ \A i \in 1 .. n : 1 + i - 1 = i
      BY <2>1
    <2>4. /\ SubSeq(frames, 1, n) \in Seq(S)
          /\ Len(SubSeq(frames, 1, n)) = n
          /\ \A i \in 1 .. n : SubSeq(frames, 1, n)[i] = frames[i]
      BY <2>1, <2>2, <2>3
    <2> QED
      BY <1>2, <2>4 DEF n
  <1>4. caller = frames[Len(frames)] /\ caller \in S
    BY <1>1 DEF caller, Last
  <1> QED
    BY <1>1, <1>3, <1>4
-----------------------------------------------------------------------------
\* What fits in a heap fits in one that extends it.
LEMMA FitsExtends ==
    ASSUME NEW h \in Seq(Node), NEW g \in Seq(Node), Extends(h, g),
           NEW e \in SubNode, NEW level \in Nat, Fits(h, e, level)
    PROVE  Fits(g, e, level)
  <1>1. 1 .. Len(h) \subseteq 1 .. Len(g)
    BY DEF Extends
  <1> QED
    BY <1>1 DEF Fits, Extends

\* Extending is transitive, and so is keeping the children.
LEMMA ExtendsTransitive ==
    ASSUME NEW h \in Seq(Node), NEW f \in Seq(Node), NEW g \in Seq(Node),
           Extends(h, f), Extends(f, g)
    PROVE  /\ Extends(h, g)
           /\ \A n \in 1 .. Len(h) :
                KeepsChildren(h, f, n) /\ KeepsChildren(f, g, n)
                  => KeepsChildren(h, g, n)
  <1>1. Len(h) <= Len(f) /\ Len(f) <= Len(g)
    BY DEF Extends
  <1>2. \A n \in 1 .. Len(h) : n \in 1 .. Len(f)
    BY <1>1
  <1>3. Extends(h, g)
    BY <1>1, <1>2 DEF Extends
  <1> QED
    BY <1>3 DEF KeepsChildren

\* A node takes one more entry, of its level.
LEMMA PlacedShape ==
    ASSUME NEW h \in Seq(Node), NEW n \in 1 .. Len(h), NEW entry \in SubNode,
           h[n].m_csize < MaxChildren, Levels(h),
           Fits(h, entry, h[n].m_height)
    PROVE  LET g == Placed(h, entry, n)
           IN /\ g \in Seq(Node) /\ Len(g) = Len(h)
              /\ Extends(h, g)
              /\ Levels(g)
              /\ \A k \in 1 .. Len(h) : KeepsChildren(h, g, k)
  <1> DEFINE g == Placed(h, entry, n)
  <1>1. /\ g \in Seq(Node) /\ Len(g) = Len(h)
        /\ \A k \in 1 .. Len(h) : /\ g[k].m_height = h[k].m_height
                                  /\ k # n => g[k] = h[k]
        /\ g[n].m_csize = h[n].m_csize + 1
        /\ h[n].m_csize \in Slots
        /\ g[n].m_subNodes[h[n].m_csize] = entry
        /\ \A s \in Slots : s # h[n].m_csize =>
             g[n].m_subNodes[s] = h[n].m_subNodes[s]
    BY PlacedHeap
  <1> HIDE DEF g
  <1>2. Extends(h, g)
    BY <1>1 DEF Extends
  <1>3. ASSUME NEW k \in 1 .. Len(g), NEW s \in Slots, s < g[k].m_csize
        PROVE  Fits(g, g[k].m_subNodes[s], g[k].m_height)
    <2>1. k \in 1 .. Len(h) /\ h[k] \in Node /\ h[k].m_height \in Nat
          /\ h[k].m_subNodes[s] \in SubNode /\ h[k].m_csize \in 0 .. MaxChildren
      BY <1>1, NodeFields
    <2>2. CASE k = n /\ s = h[n].m_csize
      BY <1>1, <1>2, <2>1, <2>2, FitsExtends
    <2>3. CASE ~ (k = n /\ s = h[n].m_csize)
      <3>1. /\ s < h[k].m_csize
            /\ g[k].m_subNodes[s] = h[k].m_subNodes[s]
            /\ g[k].m_height = h[k].m_height
        BY <1>1, <1>3, <2>1, <2>3 DEF Slots
      <3>2. Fits(h, h[k].m_subNodes[s], h[k].m_height)
        BY <2>1, <3>1 DEF Levels
      <3> QED
        BY <1>1, <1>2, <2>1, <3>1, <3>2, FitsExtends
    <2> QED
      BY <2>2, <2>3
  <1>4. Levels(g)
    BY <1>3 DEF Levels
  <1>5. \A k \in 1 .. Len(h) : KeepsChildren(h, g, k)
    <2>1. h[n].m_csize \in Nat
      BY <1>1 DEF Slots
    <2> QED
      BY <1>1, <2>1 DEF KeepsChildren, Slots
  <1> QED
    BY <1>1, <1>2, <1>4, <1>5 DEF g

\* The box of an entry changes: neither levels nor children do.
LEMMA WithBoxShape ==
    ASSUME NEW h \in Seq(Node), NEW n \in 1 .. Len(h), NEW s \in Slots,
           NEW b \in Box, Levels(h)
    PROVE  LET g == WithBox(h, n, s, b)
           IN /\ g \in Seq(Node) /\ Len(g) = Len(h)
              /\ Extends(h, g)
              /\ Levels(g)
              /\ \A k \in 1 .. Len(h) : KeepsChildren(h, g, k)
  <1> DEFINE g == WithBox(h, n, s, b)
  <1>1. /\ g \in Seq(Node) /\ Len(g) = Len(h)
        /\ \A k \in 1 .. Len(h) : /\ g[k].m_height = h[k].m_height
                                  /\ g[k].m_csize = h[k].m_csize
        /\ \A k \in 1 .. Len(h) : \A r \in Slots :
             /\ g[k].m_subNodes[r].m_child = h[k].m_subNodes[r].m_child
             /\ g[k].m_subNodes[r].m_data = h[k].m_subNodes[r].m_data
    <2>1. /\ g \in Seq(Node) /\ Len(g) = Len(h)
          /\ \A k \in 1 .. Len(h) : /\ g[k].m_height = h[k].m_height
                                    /\ g[k].m_csize = h[k].m_csize
                                    /\ k # n => g[k] = h[k]
          /\ \A r \in Slots :
               /\ g[n].m_subNodes[r].m_child = h[n].m_subNodes[r].m_child
               /\ g[n].m_subNodes[r].m_data = h[n].m_subNodes[r].m_data
      BY WithBoxHeap
    <2> HIDE DEF g
    <2> QED
      BY <2>1
  <1> HIDE DEF g
  <1>2. Extends(h, g)
    BY <1>1 DEF Extends
  <1>3. Levels(g)
    <2> SUFFICES ASSUME NEW k \in 1 .. Len(g), NEW r \in Slots,
                        r < g[k].m_csize
                 PROVE  Fits(g, g[k].m_subNodes[r], g[k].m_height)
      BY DEF Levels
    <2>1. Fits(h, h[k].m_subNodes[r], h[k].m_height)
      BY <1>1 DEF Levels
    <2> QED
      BY <1>1, <2>1 DEF Fits
  <1>4. \A k \in 1 .. Len(h) : KeepsChildren(h, g, k)
    BY <1>1 DEF KeepsChildren
  <1> QED
    BY <1>1, <1>2, <1>3, <1>4 DEF g

\* A node is emptied and a sibling allocated.
LEMMA SplitHeapShape ==
    ASSUME NEW h \in Seq(Node), NEW n \in 1 .. Len(h), NEW level \in Nat,
           Levels(h)
    PROVE  LET g == Append([h EXCEPT ![n].m_csize = 0], NewNode(level))
           IN /\ g \in Seq(Node) /\ Len(g) = Len(h) + 1
              /\ Extends(h, g)
              /\ Levels(g)
              /\ g[Len(g)].m_height = level
              /\ \A k \in 1 .. Len(h) : k # n => KeepsChildren(h, g, k)
  <1> DEFINE g == Append([h EXCEPT ![n].m_csize = 0], NewNode(level))
  <1>1. /\ g \in Seq(Node) /\ Len(g) = Len(h) + 1
        /\ \A k \in 1 .. Len(h) : /\ g[k].m_height = h[k].m_height
                                  /\ g[k].m_subNodes = h[k].m_subNodes
                                  /\ k # n => g[k] = h[k]
        /\ g[n].m_csize = 0
        /\ g[Len(h) + 1] = NewNode(level)
    BY SplitHeap
  <1> HIDE DEF g
  <1>2. Extends(h, g)
    BY <1>1 DEF Extends
  <1>3. g[Len(g)].m_height = level /\ g[Len(g)].m_csize = 0
    BY <1>1 DEF NewNode
  <1>4. ASSUME NEW k \in 1 .. Len(g), NEW s \in Slots, s < g[k].m_csize
        PROVE  Fits(g, g[k].m_subNodes[s], g[k].m_height)
    <2>1. k \in 1 .. Len(h) /\ k # n
      BY <1>1, <1>3, <1>4 DEF Slots
    <2>2. /\ h[k] \in Node /\ h[k].m_height \in Nat
          /\ h[k].m_subNodes[s] \in SubNode
      BY <2>1, NodeFields
    <2>3. g[k] = h[k] /\ Fits(h, h[k].m_subNodes[s], h[k].m_height)
      BY <1>1, <1>4, <2>1 DEF Levels
    <2> QED
      BY <1>1, <1>2, <2>2, <2>3, FitsExtends
  <1>5. Levels(g)
    BY <1>4 DEF Levels
  <1>6. \A k \in 1 .. Len(h) : k # n => KeepsChildren(h, g, k)
    BY <1>1 DEF KeepsChildren
  <1> QED
    BY <1>1, <1>2, <1>3, <1>5, <1>6 DEF g

\* The tree gets a new root.
LEMMA GrownHeapShape ==
    ASSUME heap \in Seq(Node), m_root \in Nodes, m_nodeBuffer \in Nodes,
           height(m_nodeBuffer) = height(m_root), Levels(heap)
    PROVE  Extends(heap, GrownHeap) /\ Levels(GrownHeap)
  <1> DEFINE g == GrownHeap
             new == Len(heap) + 1
  <1>1. /\ g \in Seq(Node) /\ Len(g) = Len(heap) + 1
        /\ \A k \in Nodes : g[k] = heap[k]
        /\ g[new].m_height = height(m_root) + 1
        /\ g[new].m_csize = 2
        /\ g[new].m_subNodes[0] = childEntry(m_root)
        /\ g[new].m_subNodes[1] = childEntry(m_nodeBuffer)
        /\ childEntry(m_root) \in SubNode /\ childEntry(m_nodeBuffer) \in SubNode
    BY GrownHeapFacts
  <1> HIDE DEF g
  <1>2. Extends(heap, g)
    BY <1>1 DEF Extends, Nodes
  <1>3. height(m_root) \in Nat
    BY NodeFields DEF height, Nodes
  <1>4. /\ Fits(heap, childEntry(m_root), height(m_root) + 1)
        /\ Fits(heap, childEntry(m_nodeBuffer), height(m_root) + 1)
    BY <1>3 DEF Fits, childEntry, Nodes, height, NoData
  <1>5. ASSUME NEW k \in 1 .. Len(g), NEW s \in Slots, s < g[k].m_csize
        PROVE  Fits(g, g[k].m_subNodes[s], g[k].m_height)
    <2>1. CASE k \in Nodes
      <3>1. /\ heap[k] \in Node /\ heap[k].m_height \in Nat
            /\ heap[k].m_subNodes[s] \in SubNode
        BY <2>1, NodeFields DEF Nodes
      <3>2. Fits(heap, heap[k].m_subNodes[s], heap[k].m_height)
        BY <1>1, <1>5, <2>1 DEF Levels, Nodes
      <3> QED
        BY <1>1, <1>2, <2>1, <3>1, <3>2, FitsExtends
    <2>2. CASE k = new
      <3>1. s = 0 \/ s = 1
        BY <1>1, <1>5, <2>2 DEF Slots
      <3>2. Fits(heap, g[k].m_subNodes[s], height(m_root) + 1)
        BY <1>1, <1>4, <2>2, <3>1
      <3>3. g[k].m_subNodes[s] \in SubNode
        BY <1>1, <2>2, <3>1
      <3>4. height(m_root) + 1 \in Nat
        BY <1>3
      <3>5. Fits(g, g[k].m_subNodes[s], height(m_root) + 1)
        BY <1>1, <1>2, <3>2, <3>3, <3>4, FitsExtends
      <3> QED
        BY <1>1, <2>2, <3>5
    <2> QED
      BY <1>1, <2>1, <2>2 DEF Nodes
  <1> QED
    BY <1>2, <1>5 DEF g, Levels
-----------------------------------------------------------------------------
\* The nodes and the slots of the activations.
LEMMA FrameFields ==
    ASSUME TypeOK
    PROVE  /\ Len(frames) \in Nat /\ DOMAIN frames = 1 .. Len(frames)
           /\ \A i \in 1 .. Len(frames) : /\ frames[i].p_node \in Nodes
                                          /\ frames[i].index \in Slots
           /\ heap \in Seq(Node) /\ Len(heap) \in Nat
           /\ \A n \in Nodes : /\ heap[n] \in Node
                               /\ height(n) \in Nat
                               /\ csize(n) \in 0 .. MaxChildren
                               /\ \A s \in Slots : sub(n, s) \in SubNode
  <1>1. frames \in Seq([p_node : Nodes, index : Slots]) /\ heap \in Seq(Node)
    BY DEF TypeOK
  <1>2. \A n \in Nodes : heap[n] \in Node
    BY <1>1 DEF Nodes
  <1>3. \A n \in Nodes : /\ height(n) \in Nat /\ csize(n) \in 0 .. MaxChildren
                        /\ \A s \in Slots : sub(n, s) \in SubNode
    BY <1>2, NodeFields DEF height, csize, sub
  <1>4. /\ Len(frames) \in Nat /\ DOMAIN frames = 1 .. Len(frames)
        /\ Len(heap) \in Nat
    BY <1>1
  <1>5. \A i \in 1 .. Len(frames) : frames[i] \in [p_node : Nodes, index : Slots]
    <2> DEFINE S == [p_node : Nodes, index : Slots]
    <2>1. frames \in Seq(S)
      BY <1>1
    <2> HIDE DEF S
    <2>2. \A i \in 1 .. Len(frames) : frames[i] \in S
      BY <2>1
    <2> QED
      BY <2>2 DEF S
  <1> QED
    BY <1>1, <1>2, <1>3, <1>4, <1>5

\* The activations stay well typed when the heap is extended.
LEMMA FramesExtend ==
    ASSUME TypeOK, heap' \in Seq(Node), Extends(heap, heap'),
           frames' = frames
    PROVE  frames' \in Seq([p_node : Nodes', index : Slots])
  <1>1. Nodes \subseteq Nodes'
    BY FrameFields DEF Nodes, Extends
  <1>2. [p_node : Nodes, index : Slots] \subseteq [p_node : Nodes', index : Slots]
    BY <1>1
  <1>3. frames \in Seq([p_node : Nodes, index : Slots])
    BY DEF TypeOK
  <1> DEFINE S == [p_node : Nodes, index : Slots]
             T == [p_node : Nodes', index : Slots]
  <1>4. S \subseteq T /\ frames \in Seq(S)
    BY <1>2, <1>3
  <1> HIDE DEF S, T
  <1>5. frames \in Seq(T)
    BY <1>4
  <1> QED
    BY <1>5 DEF T

\* The entry through which the innermost activation was reached.
LEMMA PathCaller ==
    ASSUME TypeOK, Path, frames # <<>>
    PROVE  /\ Len(frames) \in DOMAIN frames /\ caller = frames[Len(frames)]
           /\ caller.p_node \in Nodes /\ caller.index \in Slots
           /\ caller.index \in Used(caller.p_node)
           /\ sub(caller.p_node, caller.index).m_child = p_node
           /\ height(caller.p_node) = height(p_node) + 1
           /\ caller.p_node # p_node
  <1>1. caller = frames[Len(frames)] /\ Len(frames) >= 1
    BY FramesFacts DEF TypeOK
  <1>2. Len(frames) \in DOMAIN frames
    BY <1>1, FrameFields
  <1>3. node(Len(frames) + 1) = p_node
    BY FrameFields DEF node
  <1>4. height(p_node) \in Nat
    BY FrameFields DEF Path
  <1>5. height(caller.p_node) = height(p_node) + Len(frames) + 1 - Len(frames)
    BY <1>1, <1>2 DEF Path
  <1>6. height(caller.p_node) = height(p_node) + 1
    BY <1>4, <1>5, FrameFields
  <1> QED
    BY <1>1, <1>2, <1>3, <1>4, <1>6, FrameFields DEF Path

\* The nodes above the innermost one lie higher.
LEMMA PathAbove ==
    ASSUME TypeOK, Path
    PROVE  /\ \A i \in DOMAIN frames : /\ frames[i].p_node # p_node
                                       /\ height(frames[i].p_node) > height(p_node)
           /\ frames = <<>> => p_node = m_root
           /\ frames # <<>> => p_node # m_root /\ frames[1].p_node = m_root
  <1>1. height(p_node) \in Nat
    BY FrameFields DEF Path
  <1>2. ASSUME NEW i \in DOMAIN frames
        PROVE  height(frames[i].p_node) > height(p_node)
    <2>1. i \in 1 .. Len(frames) /\ Len(frames) \in Nat
      BY FrameFields
    <2>2. height(frames[i].p_node) = height(p_node) + Len(frames) + 1 - i
      BY DEF Path
    <2> QED
      BY <1>1, <2>1, <2>2
  <1>3. \A i \in DOMAIN frames : frames[i].p_node # p_node
    BY <1>1, <1>2
  <1>4. frames = <<>> => p_node = m_root
    BY DEF Path, node
  <1>5. frames # <<>> => 1 \in DOMAIN frames /\ frames[1].p_node = m_root
    <2> SUFFICES ASSUME frames # <<>>
                 PROVE  1 \in DOMAIN frames /\ frames[1].p_node = m_root
      OBVIOUS
    <2>1. Len(frames) >= 1
      BY FramesFacts DEF TypeOK
    <2> QED
      BY <2>1, FrameFields DEF Path, node
  <1> QED
    BY <1>2, <1>3, <1>4, <1>5

\* The path survives what happens below its last node.
LEMMA PathKept ==
    ASSUME TypeOK, Path, heap' \in Seq(Node), Extends(heap, heap'),
           UNCHANGED <<frames, p_node, m_root>>,
           \A n \in Nodes : n # p_node => KeepsChildren(heap, heap', n)
    PROVE  Path' /\ height(p_node)' = height(p_node)
  <1>1. Nodes \subseteq Nodes' /\ \A n \in Nodes : height(n)' = height(n)
    BY FrameFields DEF Nodes, Extends, height
  <1>2. p_node \in Nodes
    BY DEF Path
  <1>3. ASSUME NEW i \in DOMAIN frames
        PROVE  /\ frames[i].index \in Used(frames[i].p_node)'
               /\ sub(frames[i].p_node, frames[i].index)'.m_child = node(i + 1)'
               /\ height(frames[i].p_node)' = height(p_node)' + Len(frames) + 1 - i
    <2>1. /\ frames[i].p_node \in Nodes /\ frames[i].index \in Slots
          /\ frames[i].p_node # p_node
      BY FrameFields, PathAbove
    <2>2. /\ frames[i].index \in Used(frames[i].p_node)
          /\ sub(frames[i].p_node, frames[i].index).m_child = node(i + 1)
          /\ height(frames[i].p_node) = height(p_node) + Len(frames) + 1 - i
      BY DEF Path
    <2>3. node(i + 1)' = node(i + 1)
      BY DEF node
    <2>4. KeepsChildren(heap, heap', frames[i].p_node)
      BY <2>1
    <2>5. /\ frames[i].index \in Used(frames[i].p_node)'
          /\ sub(frames[i].p_node, frames[i].index)'.m_child
               = sub(frames[i].p_node, frames[i].index).m_child
      BY <2>1, <2>2, <2>4 DEF KeepsChildren, Used, sub
    <2> QED
      BY <1>1, <1>2, <2>1, <2>2, <2>3, <2>5
  <1>4. node(1)' = m_root'
    BY DEF Path, node
  <1> QED
    BY <1>1, <1>2, <1>3, <1>4 DEF Path

\* When an activation returns, its caller is the innermost one.
LEMMA PathPopped ==
    ASSUME TypeOK, Path, frames # <<>>,
           heap' \in Seq(Node), Extends(heap, heap'),
           frames' = Front(frames), p_node' = caller.p_node, m_root' = m_root,
           \A n \in Nodes : KeepsChildren(heap, heap', n)
    PROVE  /\ Path'
           /\ frames' \in Seq([p_node : Nodes', index : Slots])
           /\ height(p_node)' = height(p_node) + 1
  <1>1. Nodes \subseteq Nodes' /\ \A n \in Nodes : height(n)' = height(n)
    BY FrameFields DEF Nodes, Extends, height
  <1> DEFINE S == [p_node : Nodes, index : Slots]
             T == [p_node : Nodes', index : Slots]
  <1>2. frames \in Seq(S) /\ S \subseteq T
    BY <1>1 DEF TypeOK
  <1>3. /\ Front(frames) \in Seq(S) /\ Len(frames) >= 1
        /\ Len(Front(frames)) = Len(frames) - 1
        /\ \A i \in 1 .. Len(frames) - 1 : Front(frames)[i] = frames[i]
        /\ caller = frames[Len(frames)]
    <2> HIDE DEF S, T
    <2> QED
      BY <1>2, FramesFacts
  <1>4. frames' \in Seq(T)
    <2> HIDE DEF S, T
    <2> QED
      BY <1>2, <1>3
  <1>5. /\ p_node \in Nodes /\ caller.p_node \in Nodes
        /\ height(caller.p_node) = height(p_node) + 1
        /\ height(p_node) \in Nat
    BY PathCaller, FrameFields DEF Path
  <1>6. height(p_node)' = height(p_node) + 1
    BY <1>1, <1>5
  <1>7. Len(frames) \in Nat /\ DOMAIN frames = 1 .. Len(frames)
        /\ DOMAIN frames' = 1 .. Len(frames) - 1 /\ Len(frames') = Len(frames) - 1
    BY <1>3, FrameFields
  <1>8. \A i \in 1 .. Len(frames) : node(i)' = node(i)
    BY <1>3, <1>7 DEF node
  <1>9. ASSUME NEW i \in DOMAIN frames'
        PROVE  /\ frames'[i].index \in Used(frames[i].p_node)'
               /\ frames'[i] = frames[i]
               /\ sub(frames[i].p_node, frames[i].index)'.m_child = node(i + 1)'
               /\ height(frames[i].p_node)'
                    = height(p_node)' + Len(frames') + 1 - i
    <2>1. i \in DOMAIN frames /\ frames'[i] = frames[i] /\ i + 1 \in 1 .. Len(frames)
      BY <1>3, <1>7
    <2>2. /\ frames[i].p_node \in Nodes /\ frames[i].index \in Slots
      BY <2>1, FrameFields
    <2>3. /\ frames[i].index \in Used(frames[i].p_node)
          /\ sub(frames[i].p_node, frames[i].index).m_child = node(i + 1)
          /\ height(frames[i].p_node) = height(p_node) + Len(frames) + 1 - i
      BY <2>1 DEF Path
    <2>4. KeepsChildren(heap, heap', frames[i].p_node)
      BY <2>2
    <2>5. /\ frames[i].index \in Used(frames[i].p_node)'
          /\ sub(frames[i].p_node, frames[i].index)'.m_child
               = sub(frames[i].p_node, frames[i].index).m_child
      BY <2>1, <2>2, <2>3, <2>4 DEF KeepsChildren, Used, sub
    <2>6. height(frames[i].p_node)' = height(p_node)' + Len(frames') + 1 - i
      BY <1>1, <1>5, <1>6, <1>7, <2>1, <2>2, <2>3
    <2> QED
      BY <1>8, <2>1, <2>3, <2>5, <2>6
  <1>10. node(1)' = m_root'
    <2>1. 1 \in 1 .. Len(frames)
      BY <1>3, <1>7
    <2> QED
      BY <1>8, <2>1 DEF Path
  <1>11. p_node' \in Nodes'
    BY <1>1, <1>5
  <1>12. Path'
    BY <1>9, <1>10, <1>11 DEF Path
  <1> QED
    BY <1>4, <1>6, <1>12
-----------------------------------------------------------------------------
ShapeInv == TypeOK /\ SplitCore /\ Shape

\* An entry of the right level is added to the node n of the heap h, or the
\* split of that node begins.
LEMMA AddSubNodeShape ==
    ASSUME TypeOK, SplitCore, pc \in {"insert", "return"},
           NEW h \in Seq(Node), Extends(heap, h), Len(h) = Len(heap),
           Levels(h), \A k \in Nodes : KeepsChildren(heap, h, k),
           NEW n \in Nodes, NEW entry \in SubNode,
           Fits(h, entry, h[n].m_height),
           AddSubNode(h, entry, n), p_node' = n
    PROVE  /\ heap' \in Seq(Node) /\ Len(heap') = Len(heap)
           /\ Extends(heap, heap') /\ Levels(heap')
           /\ \A k \in Nodes : KeepsChildren(heap, heap', k)
           /\ SplitCore' /\ Buffer'
           /\ \/ pc' = "return" /\ splited' = FALSE
              \/ pc' = "seed" /\ splited' = splited
  <1>0. /\ n \in 1 .. Len(h) /\ h[n] \in Node /\ Len(h) \in Nat
        /\ h[n].m_csize \in 0 .. MaxChildren
        /\ \A s \in Slots : h[n].m_subNodes[s] \in SubNode
    BY NodeFields DEF Nodes
  <1>1. CASE h[n].m_csize < MaxChildren
    <2>1. /\ heap' = Placed(h, entry, n) /\ splited' = FALSE
          /\ pc' = "return" /\ UNCHANGED splitVars
      BY <1>1 DEF AddSubNode
    <2>2. /\ heap' \in Seq(Node) /\ Len(heap') = Len(h)
          /\ Extends(h, heap') /\ Levels(heap')
          /\ \A k \in 1 .. Len(h) : KeepsChildren(h, heap', k)
      BY <1>0, <1>1, <2>1, PlacedShape
    <2>3. /\ Extends(heap, heap')
          /\ \A k \in Nodes : KeepsChildren(heap, heap', k)
      BY <2>2, ExtendsTransitive DEF TypeOK, Nodes
    <2>4. SplitCore'
      BY <2>1 DEF SplitCore, LocalsOK, CountsMatch, splitVars, count, Members
    <2>5. Buffer'
      BY <2>1 DEF Buffer, Splitting
    <2> QED
      BY <2>1, <2>2, <2>3, <2>4, <2>5
  <1>2. CASE ~ (h[n].m_csize < MaxChildren)
    <2> DEFINE entries == [i \in Overflow |->
                 IF i < MaxChildren THEN h[n].m_subNodes[i] ELSE entry]
    <2>1. heap' = h /\ StartSplit(entries) /\ splited' = splited
      BY <1>2 DEF AddSubNode
    <2>2. entries \in [Overflow -> SubNode]
      BY <1>0, SlotFacts
    <2>3. /\ entries[MaxChildren] = entry
          /\ \A s \in Slots : entries[s] = h[n].m_subNodes[s]
      BY SlotFacts
    <2>4. t_overflowBuffer' = entries
      BY <2>1 DEF StartSplit
    <2> HIDE DEF entries
    <2>5. SplitCore' /\ pc' = "seed"
      BY <2>1, <2>2, StartSplitCore
    <2>6. h[n].m_csize = MaxChildren
      BY <1>0, <1>2, SlotFacts
    <2>7. Buffer'
      BY <2>1, <2>3, <2>4, <2>5, <2>6
      DEF Buffer, Splitting, csize, height, sub
    <2> QED
      BY <2>1, <2>5, <2>7
  <1> QED
    BY <1>1, <1>2

\* The empty tree.
LEMMA InitShape == Init => ShapeInv
  <1> SUFFICES ASSUME Init PROVE ShapeInv
    OBVIOUS
  <1>1. /\ heap = <<NewNode(0)>> /\ heap \in Seq(Node) /\ Len(heap) = 1
        /\ heap[1].m_csize = 0
    BY NodeFields DEF Init, NewNode
  <1>2. LocalsOK /\ CountsMatch /\ pc = "idle"
    BY NoLocalsCore DEF Init
  <1>3. TypeOK
    <2>1. /\ m_root \in Nodes /\ m_size \in 0 .. MaxInserts
          /\ m_nodeBuffer \in Nodes \cup {nullptr}
          /\ p_node \in Nodes \cup {nullptr}
          /\ splited \in BOOLEAN /\ next \in 0 .. Size
      <3>1. /\ m_root = 1 /\ m_size = 0 /\ m_nodeBuffer = nullptr
            /\ p_node = nullptr /\ splited = FALSE /\ next = 0
        BY DEF Init
      <3>2. 1 \in Nodes
        BY <1>1 DEF Nodes
      <3>3. 0 \in 0 .. MaxInserts /\ 0 \in 0 .. Size
        BY SlotFacts, MaxInsertsAssumption
      <3> QED
        BY <3>1, <3>2, <3>3
    <2>2. /\ frames \in Seq([p_node : Nodes, index : Slots])
          /\ inserted \in Seq(Box)
      BY DEF Init
    <2>3. r_subNode \in SubNode
      BY NodeFields DEF Init
    <2> QED
      BY <1>1, <1>2, <2>1, <2>2, <2>3 DEF TypeOK
  <1>4. Levels(heap)
    BY <1>1 DEF Levels, Slots
  <1> QED
    BY <1>2, <1>3, <1>4
    DEF ShapeInv, SplitCore, Shape, Quiet, Active, Splitting, Pending, Buffer, Init

\* Insert is called.
LEMMA InsertShape ==
    ASSUME ShapeInv, NEW a_box \in Boxes, Insert(a_box)
    PROVE  ShapeInv'
  <1>1. /\ pc = "idle" /\ pc' = "insert" /\ m_size < MaxInserts
        /\ r_subNode' = [m_box |-> a_box, m_child |-> nullptr,
                         m_data |-> m_size + 1]
        /\ p_node' = m_root /\ UNCHANGED <<splitVars, indexVars, frames, splited, next>>
    BY DEF Insert
  <1>2. UNCHANGED <<t_overflowBuffer, m_groupAssign, m_groups, group, heap, m_root,
                    m_size, m_nodeBuffer, inserted, frames, splited, next>>
    BY <1>1 DEF splitVars, indexVars
  <1>3. a_box \in Box /\ m_size \in Nat
    BY BoxesAssumption, MaxInsertsAssumption DEF ShapeInv, TypeOK
  <1>4. r_subNode' \in SubNode
    BY <1>1, <1>3 DEF SubNode, nullptr
  <1>5. SplitCore'
    BY <1>1, <1>2 DEF ShapeInv, SplitCore, LocalsOK, CountsMatch, count, Members
  <1>6. TypeOK'
    BY <1>1, <1>2, <1>4, <1>5 DEF ShapeInv, TypeOK, Nodes, SplitCore
  <1>7. frames = <<>> /\ ~ splited
    BY <1>1 DEF ShapeInv, Shape, Quiet
  <1>8. Path'
    BY <1>1, <1>2, <1>7 DEF Path, node, ShapeInv, TypeOK, Nodes
  <1>9. NewEntry'
    BY <1>1, <1>2 DEF NewEntry
  <1>10. Levels(heap')
    BY <1>2 DEF ShapeInv, Shape
  <1> QED
    BY <1>1, <1>2, <1>5, <1>6, <1>7, <1>8, <1>9, <1>10
    DEF ShapeInv, Shape, Quiet, Active, Splitting, Pending, Buffer

\* An inner node's activation calls itself on a child.
LEMMA DescendShape ==
    ASSUME ShapeInv, Descend
    PROVE  ShapeInv'
  <1>1. PICK index \in Candidates(p_node) :
          /\ frames' = Append(frames, [p_node |-> p_node, index |-> index])
          /\ p_node' = sub(p_node, index).m_child
    BY DEF Descend
  <1>2. /\ pc = "insert" /\ pc' = pc /\ ~ isLeaf(p_node)
        /\ UNCHANGED <<t_overflowBuffer, m_groupAssign, m_groups, group, heap, m_root,
                       m_size, m_nodeBuffer, inserted, r_subNode, splited, next>>
    BY DEF Descend, splitVars, indexVars
  <1>3. TypeOK /\ Path /\ NewEntry /\ Levels(heap) /\ ~ splited
    BY <1>2 DEF ShapeInv, Shape, Active
  <1>4. /\ index \in Used(p_node) /\ index \in Slots /\ p_node \in Nodes
    BY <1>1, <1>3 DEF Candidates, Used, Path
  <1>5. /\ sub(p_node, index).m_child \in Nodes
        /\ height(sub(p_node, index).m_child) = height(p_node) - 1
    BY <1>2, <1>3, <1>4 DEF Levels, Fits, Used, sub, Nodes, isLeaf, height
  <1>6. height(p_node) \in Nat /\ Len(frames) \in Nat
    BY <1>3, <1>4, FrameFields
  <1> DEFINE f == [p_node |-> p_node, index |-> index]
             S == [p_node : Nodes, index : Slots]
  <1>7. /\ frames' \in Seq(S) /\ Len(frames') = Len(frames) + 1
        /\ DOMAIN frames' = 1 .. Len(frames) + 1
        /\ \A i \in 1 .. Len(frames) : frames'[i] = frames[i]
        /\ frames'[Len(frames) + 1] = f
    <2>1. f \in S /\ frames \in Seq(S)
      BY <1>3, <1>4 DEF TypeOK
    <2>2. frames' = Append(frames, f)
      BY <1>1
    <2> HIDE DEF f, S
    <2> QED
      BY <2>1, <2>2
  <1>8. \A i \in 1 .. Len(frames) + 1 : node(i)' = node(i)
    BY <1>6, <1>7 DEF node
  <1>9. \A i \in Nat : i = Len(frames) + 2 => node(i)' = p_node'
    BY <1>6, <1>7 DEF node
  <1>10. ASSUME NEW i \in DOMAIN frames'
         PROVE  /\ frames'[i].index \in Used(frames[i].p_node)'
                /\ sub(frames[i].p_node, frames[i].index)'.m_child = node(i + 1)'
                /\ height(frames[i].p_node)'
                     = height(p_node)' + Len(frames') + 1 - i
    <2>1. CASE i \in 1 .. Len(frames)
      <3>1. /\ frames[i].index \in Used(frames[i].p_node)
            /\ sub(frames[i].p_node, frames[i].index).m_child = node(i + 1)
            /\ height(frames[i].p_node) = height(p_node) + Len(frames) + 1 - i
        BY <1>3, <2>1, FrameFields DEF Path
      <3>2. frames'[i] = frames[i] /\ node(i + 1)' = node(i + 1)
        BY <1>6, <1>7, <1>8, <2>1
      <3>3. height(frames[i].p_node)' = height(frames[i].p_node)
        BY <1>2, <3>2 DEF height
      <3>4. height(p_node)' = height(p_node) - 1
        BY <1>1, <1>2, <1>5 DEF height
      <3>5. height(frames[i].p_node)' = height(p_node)' + Len(frames') + 1 - i
        BY <1>6, <1>7, <2>1, <3>1, <3>3, <3>4
      <3> QED
        BY <1>2, <3>1, <3>2, <3>5 DEF Used, sub
    <2>2. CASE i = Len(frames) + 1
      <3>1. frames'[i] = f /\ node(i + 1)' = p_node'
        <4>1. i + 1 = Len(frames) + 2 /\ i + 1 \in Nat
          BY <1>6, <2>2
        <4>2. node(i + 1)' = p_node'
          BY <1>9, <4>1
        <4> QED
          BY <1>7, <2>2, <4>2
      <3>2. height(p_node)' = height(p_node) - 1
        BY <1>1, <1>2, <1>5 DEF height
      <3>3. height(frames[i].p_node)' = height(p_node)
        BY <1>2, <3>1 DEF height
      <3>4. height(frames[i].p_node)' = height(p_node)' + Len(frames') + 1 - i
        BY <1>6, <1>7, <2>2, <3>2, <3>3
      <3> QED
        BY <1>1, <1>2, <1>4, <3>1, <3>4 DEF Used, sub
    <2> QED
      BY <1>6, <1>7, <2>1, <2>2
  <1>11. Path'
    <2>1. node(1)' = m_root'
      BY <1>2, <1>3, <1>6, <1>8 DEF Path
    <2>2. p_node' \in Nodes'
      BY <1>1, <1>2, <1>5 DEF Nodes
    <2> QED
      BY <1>10, <2>1, <2>2 DEF Path
  <1>12. SplitCore'
    BY <1>2 DEF ShapeInv, SplitCore, LocalsOK, CountsMatch, count, Members
  <1>13. TypeOK'
    BY <1>1, <1>2, <1>5, <1>7, <1>12 DEF ShapeInv, TypeOK, Nodes, SplitCore
  <1>14. NewEntry' /\ Levels(heap')
    BY <1>2, <1>3 DEF NewEntry
  <1> QED
    BY <1>2, <1>3, <1>11, <1>12, <1>13, <1>14
    DEF ShapeInv, Shape, Quiet, Active, Splitting, Pending, Buffer

\* Steps outside a split leave its locals alone.
LEMMA SplitCoreKept ==
    ASSUME SplitCore, UNCHANGED splitVars,
           pc' = pc \/ pc' \notin {"seed", "rest", "assigned", "fill"}
    PROVE  SplitCore'
  BY DEF SplitCore, LocalsOK, CountsMatch, splitVars, count, Members, Unassigned

\* Steps that only move the program on to where nothing is in progress.
LEMMA PassiveShape ==
    ASSUME ShapeInv, UNCHANGED <<splitVars, indexVars, callVars>>,
           pc' = pc \/ (Quiet' /\ Quiet) \/ Dead'
    PROVE  ShapeInv'
  <1>1. /\ UNCHANGED <<t_overflowBuffer, m_groupAssign, m_groups, group, heap, m_root,
                      m_size, m_nodeBuffer, inserted, r_subNode, p_node, frames,
                      splited, next>>
        /\ UNCHANGED splitVars
    BY DEF splitVars, indexVars, callVars
  <1>2. SplitCore'
    BY <1>1, SplitCoreKept DEF ShapeInv, Quiet, Dead
  <1>3. TypeOK'
    BY <1>1, <1>2 DEF ShapeInv, SplitCore, TypeOK, Nodes, Quiet, Dead
  <1>4. Shape'
    <2>1. Levels(heap)' /\ (Path => Path') /\ (NewEntry => NewEntry')
      BY <1>1 DEF ShapeInv, Shape, Path, NewEntry, Nodes, node, Used, sub, height
    <2>2. CASE pc' = pc
      <3>1. Buffer'
        BY <1>1, <2>2
        DEF ShapeInv, Shape, Buffer, Splitting, csize, height, sub, t_node
      <3> QED
        BY <1>1, <2>1, <2>2, <3>1
        DEF ShapeInv, Shape, Quiet, Active, Splitting, Pending, height, Nodes
    <2>3. CASE Quiet' /\ Quiet
      BY <1>1, <2>1, <2>3
      DEF ShapeInv, Shape, Quiet, Active, Splitting, Pending, Buffer
    <2>4. CASE Dead'
      BY <1>1, <2>1, <2>4
      DEF ShapeInv, Shape, Dead, Quiet, Active, Splitting, Pending, Buffer
    <2> QED
      BY <2>2, <2>3, <2>4
  <1> QED
    BY <1>2, <1>3, <1>4 DEF ShapeInv

\* The leaf is reached: the new entry is stored, or the split begins.
LEMMA AddToLeafShape ==
    ASSUME ShapeInv, AddToLeaf
    PROVE  ShapeInv' /\ Extends(heap, heap')
  <1>1. /\ pc = "insert" /\ isLeaf(p_node) /\ AddSubNode(heap, r_subNode, p_node)
        /\ UNCHANGED <<m_root, m_size, m_nodeBuffer, inserted, r_subNode, p_node,
                       frames, next>>
    BY DEF AddToLeaf
  <1>2. TypeOK /\ SplitCore /\ Path /\ NewEntry /\ Levels(heap) /\ ~ splited
    BY <1>1 DEF ShapeInv, Shape, Active
  <1>3. p_node \in Nodes /\ r_subNode \in SubNode
    BY <1>2 DEF Path, TypeOK
  <1>4. /\ Extends(heap, heap)
        /\ \A k \in Nodes : KeepsChildren(heap, heap, k)
    BY <1>2, FrameFields DEF Extends, KeepsChildren
  <1>5. Fits(heap, r_subNode, heap[p_node].m_height)
    BY <1>1, <1>2, MaxInsertsAssumption
    DEF Fits, NewEntry, isLeaf, NoData, TypeOK
  <1>6. /\ heap' \in Seq(Node) /\ Len(heap') = Len(heap)
        /\ Extends(heap, heap') /\ Levels(heap')
        /\ \A k \in Nodes : KeepsChildren(heap, heap', k)
        /\ SplitCore' /\ Buffer'
        /\ \/ pc' = "return" /\ splited' = FALSE
           \/ pc' = "seed" /\ splited' = splited
    BY <1>1, <1>2, <1>3, <1>4, <1>5, AddSubNodeShape, FrameFields
  <1>7. Path' /\ frames' \in Seq([p_node : Nodes', index : Slots])
    BY <1>1, <1>2, <1>6, PathKept, FramesExtend
  <1>8. NewEntry'
    BY <1>1, <1>2 DEF NewEntry
  <1>9. TypeOK'
    BY <1>1, <1>2, <1>6, <1>7 DEF TypeOK, Nodes, SplitCore
  <1> QED
    BY <1>2, <1>6, <1>7, <1>8, <1>9
    DEF ShapeInv, Shape, Quiet, Active, Splitting, Pending

\* What a step of the split itself does: the buffer stays as it is.
LEMMA SplitStepFrame ==
    ASSUME SplitStep
    PROVE  /\ t_overflowBuffer' = t_overflowBuffer
           /\ pc \in {"seed", "deal", "rest", "check"}
           /\ pc' \in {"deal", "rest", "check", "assigned", "aborted"}
  BY DEF SplitStep, PickSeeds, SeedsCollide, AssignChosen, StopDealing, AssignRest,
         RestAssigned, CheckGroups, splitVars

LEMMA SplitStepShape ==
    ASSUME ShapeInv, SplitStep, UNCHANGED <<indexVars, callVars>>
    PROVE  ShapeInv'
  <1>1. UNCHANGED <<heap, m_root, m_size, m_nodeBuffer, inserted, r_subNode, p_node,
                    frames, splited, next>>
    BY DEF indexVars, callVars
  <1>2. SplitCore'
    BY SplitStepCore DEF ShapeInv
  <1>3. TypeOK'
    BY <1>1, <1>2, SplitStepFrame DEF ShapeInv, SplitCore, TypeOK, Nodes
  <1>4. Path' /\ NewEntry' /\ Levels(heap')
    BY <1>1, SplitStepFrame
    DEF ShapeInv, Shape, Active, Splitting, Path, NewEntry, Nodes, node, Used, sub,
        height
  <1>5. Buffer'
    BY <1>1, SplitStepFrame
    DEF ShapeInv, Shape, Buffer, Splitting, csize, height, sub
  <1> QED
    BY <1>2, <1>3, <1>4, <1>5, SplitStepFrame
    DEF ShapeInv, Shape, Quiet, Active, Splitting, Pending

\* The node that is split is emptied, and its sibling allocated.
LEMMA AllocateSiblingShape ==
    ASSUME ShapeInv, AllocateSibling
    PROVE  ShapeInv' /\ Extends(heap, heap')
  <1>1. /\ pc = "assigned" /\ pc' = "fill" /\ next' = 0
        /\ heap' = Append([heap EXCEPT ![p_node].m_csize = 0],
                          NewNode(height(p_node)))
        /\ UNCHANGED <<t_overflowBuffer, m_groupAssign, m_groups, group, m_root,
                       m_size, m_nodeBuffer, inserted, r_subNode, p_node, frames,
                       splited>>
    BY DEF AllocateSibling, splitVars, height
  <1>2. /\ TypeOK /\ SplitCore /\ Path /\ NewEntry /\ Levels(heap)
        /\ \A s \in Slots : t_overflowBuffer[s] = sub(p_node, s)
        /\ csize(p_node) = MaxChildren
        /\ Fits(heap, t_overflowBuffer[MaxChildren], height(p_node))
    BY <1>1 DEF ShapeInv, Shape, Active, Splitting, Buffer
  <1>3. p_node \in 1 .. Len(heap) /\ height(p_node) \in Nat /\ heap \in Seq(Node)
        /\ Len(heap) \in Nat
    BY <1>2, FrameFields DEF Path, Nodes
  <1>4. /\ heap' \in Seq(Node) /\ Len(heap') = Len(heap) + 1
        /\ Extends(heap, heap') /\ Levels(heap')
        /\ heap'[Len(heap')].m_height = height(p_node)
        /\ \A k \in Nodes : k # p_node => KeepsChildren(heap, heap', k)
    BY <1>1, <1>2, <1>3, SplitHeapShape DEF Nodes
  <1>5. /\ Path' /\ height(p_node)' = height(p_node)
        /\ frames' \in Seq([p_node : Nodes', index : Slots])
    BY <1>1, <1>2, <1>4, PathKept, FramesExtend
  <1>6. \A i \in Overflow : Fits(heap', t_overflowBuffer[i], height(p_node))
    <2> SUFFICES ASSUME NEW i \in Overflow
                 PROVE  Fits(heap', t_overflowBuffer[i], height(p_node))
      OBVIOUS
    <2>1. t_overflowBuffer[i] \in SubNode
      BY <1>2 DEF TypeOK, LocalsOK
    <2>2. Fits(heap, t_overflowBuffer[i], height(p_node))
      <3>1. CASE i \in Slots
        BY <1>2, <1>3, <3>1, SlotFacts DEF Levels, csize, height, sub
      <3> QED
        BY <1>2, <3>1, SlotFacts
    <2> QED
      BY <1>3, <1>4, <2>1, <2>2, FitsExtends
  <1>7. Buffer'
    <2>1. t_node' = Len(heap) + 1 /\ height(t_node)' = height(p_node)
      BY <1>4 DEF t_node, height
    <2>2. t_node' # p_node'
      BY <1>1, <1>3, <2>1
    <2>3. \A i \in Overflow : Fits(heap, t_overflowBuffer[i], height(p_node))'
      BY <1>1, <1>5, <1>6
    <2> QED
      BY <1>1, <1>5, <2>1, <2>2, <2>3 DEF Buffer, Splitting
  <1>8. SplitCore'
    BY <1>1, <1>2
    DEF SplitCore, LocalsOK, CountsMatch, count, Members, Unassigned
  <1>9. TypeOK'
    BY <1>1, <1>2, <1>4, <1>5, <1>8, SlotFacts
    DEF TypeOK, Nodes, SplitCore, Extends
  <1>10. NewEntry'
    BY <1>1, <1>2 DEF NewEntry
  <1> QED
    BY <1>1, <1>4, <1>5, <1>7, <1>8, <1>9, <1>10
    DEF ShapeInv, Shape, Quiet, Active, Splitting, Pending

\* One of the two halves takes the next entry of the buffer.
LEMMA FillNextShape ==
    ASSUME ShapeInv, FillNext
    PROVE  ShapeInv' /\ Extends(heap, heap')
  <1>1. /\ pc = "fill" /\ next < Size
        /\ UNCHANGED <<t_overflowBuffer, m_groupAssign, m_groups, group, m_root,
                       m_size, m_nodeBuffer, inserted, r_subNode, p_node, frames,
                       splited>>
        /\ UNCHANGED splitVars
    BY DEF FillNext, splitVars
  <1>2. /\ TypeOK /\ SplitCore /\ Path /\ NewEntry /\ Levels(heap) /\ Buffer
    BY <1>1 DEF ShapeInv, Shape, Active
  <1>3. /\ t_node # p_node /\ height(t_node) = height(p_node)
        /\ \A i \in Overflow : Fits(heap, t_overflowBuffer[i], height(p_node))
    BY <1>1, <1>2 DEF Buffer
  <1> DEFINE n == target(next)
             g == Placed(heap, t_overflowBuffer[next], n)
  <1>4. CASE heap[n].m_csize < MaxChildren
    <2>1. heap' = g /\ next' = next + 1 /\ pc' = pc
      BY <1>4 DEF FillNext
    <2>2. /\ p_node \in Nodes /\ t_node \in Nodes /\ n \in {p_node, t_node}
          /\ next \in Overflow /\ t_overflowBuffer[next] \in SubNode
      <3>1. next \in Nat /\ next < MaxChildren + 1
        BY <1>1, <1>2, SlotFacts DEF TypeOK
      <3>2. next \in Overflow
        BY <3>1, SlotFacts
      <3> QED
        BY <1>2, <3>2, FrameFields DEF TypeOK, LocalsOK, Path, t_node, Nodes, target
    <2>3. /\ n \in 1 .. Len(heap) /\ heap[n].m_height = height(p_node)
          /\ heap \in Seq(Node) /\ Len(heap) \in Nat
      BY <1>2, <1>3, <2>2, FrameFields DEF Nodes, height
    <2>4. /\ heap' \in Seq(Node) /\ Len(heap') = Len(heap)
          /\ Extends(heap, heap') /\ Levels(heap')
          /\ \A k \in Nodes : KeepsChildren(heap, heap', k)
      <3> HIDE DEF n
      <3> QED
        BY <1>2, <1>3, <1>4, <2>1, <2>2, <2>3, PlacedShape DEF Nodes
    <2>5. /\ Path' /\ height(p_node)' = height(p_node)
          /\ frames' \in Seq([p_node : Nodes', index : Slots])
      BY <1>1, <1>2, <2>4, PathKept, FramesExtend
    <2>6. \A i \in Overflow : Fits(heap', t_overflowBuffer[i], height(p_node))
      BY <1>2, <1>3, <2>2, <2>4, FitsExtends, FrameFields DEF TypeOK, LocalsOK
    <2>7. Buffer'
      <3>1. t_node' = t_node /\ height(t_node)' = height(p_node)
        BY <1>3, <2>2, <2>3, <2>4 DEF t_node, height, Extends, Nodes
      <3> QED
        BY <1>1, <1>3, <2>1, <2>5, <2>6, <3>1 DEF Buffer, Splitting
    <2>8. SplitCore'
      BY <1>1, <1>2, <2>1, SplitCoreKept
    <2>9. TypeOK'
      <3>1. next' \in 0 .. Size
        BY <1>1, <1>2, <2>1, SlotFacts DEF TypeOK
      <3> QED
        BY <1>1, <1>2, <2>1, <2>4, <2>5, <2>8, <3>1 DEF TypeOK, Nodes, SplitCore
    <2>10. NewEntry'
      BY <1>1, <1>2 DEF NewEntry
    <2> QED
      BY <1>1, <2>1, <2>4, <2>5, <2>7, <2>8, <2>9, <2>10
      DEF ShapeInv, Shape, Quiet, Active, Splitting, Pending
  <1>5. CASE ~ (heap[n].m_csize < MaxChildren)
    <2>1. pc' = "aborted" /\ UNCHANGED <<heap, next>>
      BY <1>5 DEF FillNext
    <2> QED
      BY <1>1, <1>2, <2>1, PassiveShape, FrameFields
      DEF indexVars, callVars, Dead, Extends
  <1> QED
    BY <1>4, <1>5

\* The buffer is empty: SplitNode and the AddSubNode that called it return.
LEMMA FillDoneShape ==
    ASSUME ShapeInv, FillDone
    PROVE  ShapeInv'
  <1>1. /\ pc = "fill" /\ pc' = "return" /\ next' = 0 /\ splited' = TRUE
        /\ m_nodeBuffer' = t_node /\ DropLocals
        /\ UNCHANGED <<heap, m_root, m_size, inserted, r_subNode, p_node, frames>>
    BY DEF FillDone
  <1>2. /\ TypeOK /\ Path /\ NewEntry /\ Levels(heap)
        /\ t_node # p_node /\ height(t_node) = height(p_node)
    BY <1>1 DEF ShapeInv, Shape, Active, Buffer
  <1>3. t_node \in Nodes
    BY <1>2, FrameFields DEF t_node, Nodes, Path
  <1>4. SplitCore'
    BY <1>1, NoLocalsCore DEF SplitCore
  <1>5. TypeOK'
    BY <1>1, <1>2, <1>3, <1>4, SlotFacts DEF TypeOK, Nodes, SplitCore
  <1>6. Path' /\ NewEntry' /\ Levels(heap')
    BY <1>1, <1>2 DEF Path, NewEntry, Nodes, node, Used, sub, height
  <1>7. m_nodeBuffer' \in Nodes' \ {p_node'} /\ height(m_nodeBuffer)' = height(p_node)'
    BY <1>1, <1>2, <1>3 DEF Nodes, height
  <1> QED
    BY <1>1, <1>4, <1>5, <1>6, <1>7
    DEF ShapeInv, Shape, Quiet, Active, Splitting, Pending, Buffer

\* The child was not split: only the box of its entry changes.
LEMMA ReturnUnsplitShape ==
    ASSUME ShapeInv, ReturnUnsplit
    PROVE  ShapeInv' /\ Extends(heap, heap')
  <1>1. /\ pc = "return" /\ ~ splited /\ frames # <<>> /\ pc' = pc
        /\ p_node' = caller.p_node /\ frames' = Front(frames)
        /\ UNCHANGED <<t_overflowBuffer, m_groupAssign, m_groups, group, m_root,
                       m_size, m_nodeBuffer, inserted, r_subNode, splited, next>>
        /\ UNCHANGED splitVars
    BY DEF ReturnUnsplit, splitVars
  <1> DEFINE b == UnionBox(sub(caller.p_node, caller.index).m_box, r_subNode.m_box)
  <1>2. heap' = WithBox(heap, caller.p_node, caller.index, b)
    BY DEF ReturnUnsplit
  <1>3. TypeOK /\ SplitCore /\ Path /\ NewEntry /\ Levels(heap)
    BY <1>1 DEF ShapeInv, Shape, Active
  <1>4. /\ caller.p_node \in 1 .. Len(heap) /\ caller.index \in Slots
        /\ heap \in Seq(Node)
    BY <1>1, <1>3, PathCaller, FrameFields DEF Nodes
  <1>5. b \in Box
    <2>1. /\ sub(caller.p_node, caller.index) \in SubNode /\ r_subNode \in SubNode
      BY <1>3, <1>4, FrameFields DEF TypeOK, Nodes
    <2> QED
      BY <2>1, NodeFields, UnionBoxType
  <1> HIDE DEF b
  <1>6. /\ heap' \in Seq(Node) /\ Len(heap') = Len(heap)
        /\ Extends(heap, heap') /\ Levels(heap')
        /\ \A k \in Nodes : KeepsChildren(heap, heap', k)
    BY <1>2, <1>3, <1>4, <1>5, WithBoxShape DEF Nodes
  <1>7. /\ Path' /\ frames' \in Seq([p_node : Nodes', index : Slots])
    BY <1>1, <1>3, <1>6, PathPopped
  <1>8. SplitCore'
    BY <1>1, <1>3, SplitCoreKept
  <1>9. TypeOK'
    BY <1>1, <1>3, <1>6, <1>7, <1>8 DEF TypeOK, Nodes, SplitCore, Path
  <1>10. NewEntry'
    BY <1>1, <1>3 DEF NewEntry
  <1> QED
    BY <1>1, <1>6, <1>7, <1>8, <1>9, <1>10
    DEF ShapeInv, Shape, Quiet, Active, Splitting, Pending, Buffer

\* What the caller of a split activation stores: the child's shrunk box, and
\* an entry for the sibling.
LEMMA SiblingEntry ==
    ASSUME TypeOK, Path, Pending, Shape, frames # <<>>
    PROVE  /\ NodeCover(heap, p_node) \in Box
           /\ [m_box |-> NodeCover(heap, m_nodeBuffer),
               m_child |-> m_nodeBuffer, m_data |-> NoData] \in SubNode
           /\ m_nodeBuffer \in Nodes /\ m_nodeBuffer # p_node
           /\ height(m_nodeBuffer) = height(p_node)
           /\ height(caller.p_node) = height(p_node) + 1 /\ height(p_node) \in Nat
  <1>1. /\ m_nodeBuffer \in Nodes /\ p_node \in Nodes /\ heap \in Seq(Node)
        /\ m_nodeBuffer # p_node /\ height(m_nodeBuffer) = height(p_node)
    BY FrameFields DEF Shape, Path
  <1>2. NodeCover(heap, p_node) \in Box /\ NodeCover(heap, m_nodeBuffer) \in Box
    BY <1>1, NodeCoverIsCover DEF Nodes
  <1>3. m_nodeBuffer \in Nat
    BY <1>1, FrameFields DEF Nodes
  <1> QED
    BY <1>1, <1>2, <1>3, PathCaller, FrameFields DEF SubNode, NoData

\* The child was split: its caller takes the sibling, or is split in turn.
LEMMA ReturnSplitShape ==
    ASSUME ShapeInv, ReturnSplit
    PROVE  ShapeInv' /\ Extends(heap, heap')
  <1> DEFINE h == WithBox(heap, caller.p_node, caller.index, NodeCover(heap, p_node))
             entry == [m_box |-> NodeCover(heap, m_nodeBuffer),
                       m_child |-> m_nodeBuffer, m_data |-> NoData]
  <1>1. /\ pc = "return" /\ splited /\ frames # <<>>
        /\ AddSubNode(h, entry, caller.p_node)
        /\ p_node' = caller.p_node /\ frames' = Front(frames)
        /\ UNCHANGED <<m_root, m_size, m_nodeBuffer, inserted, r_subNode, next>>
    BY DEF ReturnSplit
  <1>2. /\ TypeOK /\ SplitCore /\ Path /\ NewEntry /\ Levels(heap) /\ Shape
        /\ Pending
    BY <1>1 DEF ShapeInv, Shape, Active, Pending
  <1>3. /\ caller.p_node \in 1 .. Len(heap) /\ caller.index \in Slots
        /\ heap \in Seq(Node)
    BY <1>1, <1>2, PathCaller, FrameFields DEF Nodes
  <1>4. /\ NodeCover(heap, p_node) \in Box /\ entry \in SubNode
        /\ m_nodeBuffer \in Nodes /\ height(m_nodeBuffer) = height(p_node)
        /\ height(caller.p_node) = height(p_node) + 1 /\ height(p_node) \in Nat
    BY <1>1, <1>2, SiblingEntry
  <1>5. /\ h \in Seq(Node) /\ Len(h) = Len(heap)
        /\ Extends(heap, h) /\ Levels(h)
        /\ \A k \in Nodes : KeepsChildren(heap, h, k)
    BY <1>2, <1>3, <1>4, WithBoxShape DEF Nodes
  <1>6. Fits(h, entry, h[caller.p_node].m_height)
    <2>1. h[caller.p_node].m_height = height(p_node) + 1
      BY <1>3, <1>4, <1>5 DEF Extends, height
    <2>2. m_nodeBuffer \in 1 .. Len(h) /\ h[m_nodeBuffer].m_height = height(p_node)
      BY <1>4, <1>5 DEF Extends, height, Nodes
    <2> HIDE DEF h
    <2> QED
      BY <1>4, <2>1, <2>2 DEF Fits
  <1> HIDE DEF h, entry
  <1>7. /\ heap' \in Seq(Node) /\ Len(heap') = Len(heap)
        /\ Extends(heap, heap') /\ Levels(heap')
        /\ \A k \in Nodes : KeepsChildren(heap, heap', k)
        /\ SplitCore' /\ Buffer'
        /\ \/ pc' = "return" /\ splited' = FALSE
           \/ pc' = "seed" /\ splited' = splited
    BY <1>1, <1>2, <1>3, <1>4, <1>5, <1>6, AddSubNodeShape DEF Nodes
  <1>8. /\ Path' /\ frames' \in Seq([p_node : Nodes', index : Slots])
    BY <1>1, <1>2, <1>7, PathPopped
  <1>9. TypeOK'
    BY <1>1, <1>2, <1>7, <1>8 DEF TypeOK, Nodes, SplitCore, Path
  <1>10. NewEntry'
    BY <1>1, <1>2 DEF NewEntry
  <1> QED
    BY <1>1, <1>7, <1>8, <1>9, <1>10
    DEF ShapeInv, Shape, Quiet, Active, Splitting, Pending

\* The insertion is over; after a split of the root the tree has a new one.
LEMMA FinishShape ==
    ASSUME ShapeInv, Finish
    PROVE  ShapeInv' /\ Extends(heap, heap')
  <1>1. /\ pc = "return" /\ frames = <<>> /\ m_size' = m_size + 1
        /\ inserted' = Append(inserted, r_subNode.m_box)
        /\ pc' = "idle" /\ r_subNode' = NoEntry /\ p_node' = nullptr
        /\ splited' = FALSE
        /\ UNCHANGED <<t_overflowBuffer, m_groupAssign, m_groups, group,
                       m_nodeBuffer, frames, next>>
        /\ UNCHANGED splitVars
    BY DEF Finish, splitVars
  <1>2. TypeOK /\ SplitCore /\ Path /\ NewEntry /\ Levels(heap) /\ Shape
    BY <1>1 DEF ShapeInv, Shape, Active
  <1>3. p_node = m_root /\ m_root \in Nodes /\ heap \in Seq(Node) /\ Len(heap) \in Nat
    BY <1>1, <1>2, PathAbove, FrameFields DEF TypeOK
  <1>4. /\ heap' \in Seq(Node) /\ Extends(heap, heap') /\ Levels(heap')
        /\ m_root' \in Nodes'
    <2>1. CASE splited
      <3>1. heap' = GrownHeap /\ m_root' = Len(heap) + 1
        BY <2>1 DEF Finish
      <3>2. m_nodeBuffer \in Nodes /\ height(m_nodeBuffer) = height(m_root)
        BY <1>1, <1>2, <1>3, <2>1 DEF Shape, Pending
      <3> QED
        BY <1>2, <1>3, <3>1, <3>2, GrownHeapFacts, GrownHeapShape DEF Nodes
    <2>2. CASE ~ splited
      <3>1. heap' = heap /\ m_root' = m_root
        BY <2>2 DEF Finish
      <3> QED
        BY <1>2, <1>3, <3>1 DEF Extends, Nodes
    <2> QED
      BY <2>1, <2>2
  <1>5. SplitCore'
    BY <1>1, <1>2, SplitCoreKept
  <1>6. TypeOK'
    <2>1. m_size' \in 0 .. MaxInserts
      BY <1>1, <1>2, MaxInsertsAssumption DEF TypeOK, NewEntry
    <2>2. inserted' \in Seq(Box)
      BY <1>1, <1>2, NodeFields DEF TypeOK
    <2>3. frames' \in Seq([p_node : Nodes', index : Slots])
      BY <1>1
    <2>4. r_subNode' \in SubNode /\ p_node' \in Nodes' \cup {nullptr}
      BY <1>1, NodeFields
    <2>5. m_nodeBuffer' \in Nodes' \cup {nullptr}
      BY <1>1, <1>2, <1>3, <1>4 DEF TypeOK, Extends, Nodes
    <2> QED
      BY <1>1, <1>2, <1>4, <1>5, <2>1, <2>2, <2>3, <2>4, <2>5
      DEF TypeOK, SplitCore
  <1> QED
    BY <1>1, <1>4, <1>5, <1>6
    DEF ShapeInv, Shape, Quiet, Active, Splitting, Pending, Buffer

\* Every step keeps the types, the levels and the path.
LEMMA NextShape == ShapeInv /\ [Next]_vars => ShapeInv'
  <1> SUFFICES ASSUME ShapeInv, [Next]_vars PROVE ShapeInv'
    OBVIOUS
  <1>1. CASE UNCHANGED vars
    BY <1>1, PassiveShape DEF vars
  <1>2. ASSUME NEW a_box \in Boxes, Insert(a_box) PROVE ShapeInv'
    BY <1>2, InsertShape
  <1>3. CASE Descend
    BY <1>3, DescendShape
  <1>4. CASE DescendNowhere
    BY <1>4, PassiveShape DEF DescendNowhere, Dead
  <1>5. CASE AddToLeaf
    BY <1>5, AddToLeafShape
  <1>6. CASE SplitStep /\ UNCHANGED <<indexVars, callVars>>
    BY <1>6, SplitStepShape
  <1>7. CASE AllocateSibling
    BY <1>7, AllocateSiblingShape
  <1>8. CASE FillNext
    BY <1>8, FillNextShape
  <1>9. CASE FillDone
    BY <1>9, FillDoneShape
  <1>10. CASE ReturnUnsplit
    BY <1>10, ReturnUnsplitShape
  <1>11. CASE ReturnSplit
    BY <1>11, ReturnSplitShape
  <1>12. CASE DanglingRead
    BY <1>12, PassiveShape DEF DanglingRead, Dead
  <1>13. CASE Finish
    BY <1>13, FinishShape
  <1>14. CASE Stopped
    BY <1>14, PassiveShape DEF Stopped, vars
  <1> QED
    BY <1>1, <1>2, <1>3, <1>4, <1>5, <1>6, <1>7, <1>8, <1>9, <1>10, <1>11, <1>12,
       <1>13, <1>14 DEF Next, InsertStep
-----------------------------------------------------------------------------
LEMMA ShapeInvariant == Spec => []ShapeInv
  <1>1. ShapeInv /\ [Next]_vars => ShapeInv'
    BY NextShape
  <1> QED
    BY <1>1, InitShape, PTL DEF Spec

\* Every variable keeps its type at every step of every insertion.
THEOREM SpatialTypes == Spec => []TypeOK
  <1>1. ShapeInv => TypeOK
    BY DEF ShapeInv
  <1> QED
    BY <1>1, ShapeInvariant, PTL

\* The levels of the nodes are those HeightsStep describes.
LEMMA ShapeHeights == ShapeInv => HeightsStep
  <1> SUFFICES ASSUME ShapeInv, NEW p \in Places
               PROVE  IF isLeaf(p[1])
                        THEN at(p).m_child = nullptr /\ at(p).m_data # NoData
                        ELSE /\ at(p).m_child \in Nodes
                             /\ heap[at(p).m_child].m_height
                                  = heap[p[1]].m_height - 1
    BY DEF HeightsStep
  <1>1. p[1] \in Nodes /\ p[2] \in Slots /\ p[2] < heap[p[1]].m_csize
    BY DEF Places, Used
  <1>2. Fits(heap, at(p), heap[p[1]].m_height)
    BY <1>1 DEF ShapeInv, Shape, Levels, Nodes, at, sub
  <1> QED
    BY <1>2 DEF Fits, isLeaf, Nodes

\* All leaves are equally deep, whatever is inserted and however nodes split:
\* a child lies one level below its parent, and entries are in leaves only,
\* also between the steps of an insertion.
THEOREM SpatialHeights == Spec => []HeightsStep
  BY ShapeHeights, ShapeInvariant, PTL
-----------------------------------------------------------------------------
\* The entries of group g that are back in its node.
Filled(g) == {i \in Members(g) : i < next}

\* How full the nodes are.  While a split is filled back both halves hold what
\* was dealt to them so far; the root is exempt from MinChildren.
Occupied ==
    /\ pc = "fill" => /\ csize(p_node) = Cardinality(Filled(0))
                      /\ csize(t_node) = Cardinality(Filled(1))
    /\ Pending => csize(p_node) >= MinChildren /\ csize(m_nodeBuffer) >= MinChildren
    /\ ~ Dead =>
         /\ \A n \in Nodes \ {m_root} :
              csize(n) >= MinChildren \/ (pc = "fill" /\ n \in {p_node, t_node})
         /\ \/ isLeaf(m_root)
            \/ csize(m_root) >= 2
            \/ pc = "fill" /\ m_root = p_node
            \/ Pending /\ frames = <<>>

\* Occupied after a step that takes no entry from any node, outside the
\* filling of a split.
LEMMA OccupiedKept ==
    ASSUME ShapeInv, ShapeInv', Occupied, ~ Dead, pc # "fill", pc' # "fill",
           ~ Pending', ~ (Pending /\ frames = <<>>), m_root' = m_root,
           Len(heap') = Len(heap),
           \A n \in Nodes : /\ height(n)' = height(n)
                            /\ csize(n)' >= csize(n)
    PROVE  Occupied'
  <1>1. /\ Nodes' = Nodes /\ m_root \in Nodes
        /\ \A n \in Nodes : csize(n) \in Nat /\ csize(n)' \in Nat
    <2>1. heap \in Seq(Node) /\ heap' \in Seq(Node) /\ m_root \in Nodes
      BY DEF ShapeInv, TypeOK
    <2>2. \A n \in 1 .. Len(heap) : heap[n] \in Node /\ heap'[n] \in Node
      BY <2>1
    <2>3. \A x \in Node : x.m_csize \in Nat
      BY NodeFields, SlotFacts
    <2> QED
      BY <2>1, <2>2, <2>3 DEF Nodes, csize
  <1>2. \A n \in Nodes \ {m_root} : csize(n)' >= MinChildren
    BY <1>1, SlotFacts DEF Occupied
  <1>3. isLeaf(m_root)' \/ csize(m_root)' >= 2
    BY <1>1 DEF Occupied, isLeaf, height
  <1> QED
    BY <1>1, <1>2, <1>3 DEF Occupied

\* What AddSubNode does to the sizes of the nodes.
LEMMA AddSubNodeSizes ==
    ASSUME NEW h \in Seq(Node), NEW n \in 1 .. Len(h), NEW entry \in SubNode,
           AddSubNode(h, entry, n)
    PROVE  /\ Len(heap') = Len(h)
           /\ \A k \in 1 .. Len(h) : /\ heap'[k].m_height = h[k].m_height
                                     /\ heap'[k].m_csize >= h[k].m_csize
           /\ (pc' = "return" /\ splited' = FALSE) \/ pc' = "seed"
  <1>1. \A k \in 1 .. Len(h) : h[k].m_csize \in Nat
    <2> SUFFICES ASSUME NEW k \in 1 .. Len(h) PROVE h[k].m_csize \in Nat
      OBVIOUS
    <2>1. h[k] \in Node
      OBVIOUS
    <2> QED
      BY <2>1 DEF Node
  <1>2. CASE h[n].m_csize < MaxChildren
    <2> DEFINE g == Placed(h, entry, n)
    <2>1. heap' = g /\ pc' = "return" /\ splited' = FALSE
      BY <1>2 DEF AddSubNode
    <2>2. /\ Len(g) = Len(h)
          /\ \A k \in 1 .. Len(h) : g[k].m_height = h[k].m_height /\ (k # n => g[k] = h[k])
          /\ g[n].m_csize = h[n].m_csize + 1
      BY <1>2, PlacedHeap
    <2> HIDE DEF g
    <2> QED
      BY <1>1, <2>1, <2>2
  <1>3. CASE ~ (h[n].m_csize < MaxChildren)
    BY <1>1, <1>3 DEF AddSubNode, StartSplit
  <1> QED
    BY <1>2, <1>3

\* The emptied node and its new sibling are filled from nothing.
LEMMA AllocateSiblingOccupied ==
    ASSUME ShapeInv, ShapeInv', Occupied, AllocateSibling
    PROVE  Occupied'
  <1>1. /\ pc = "assigned" /\ pc' = "fill" /\ next' = 0 /\ m_root' = m_root
        /\ heap' = Append([heap EXCEPT ![p_node].m_csize = 0],
                          NewNode(height(p_node)))
        /\ p_node' = p_node
    BY DEF AllocateSibling, height
  <1>2. p_node \in 1 .. Len(heap) /\ height(p_node) \in Nat /\ heap \in Seq(Node)
        /\ Len(heap) \in Nat /\ m_root \in Nodes
    BY <1>1, FrameFields
    DEF ShapeInv, Shape, Active, Splitting, Path, Nodes, TypeOK
  <1>3. /\ Len(heap') = Len(heap) + 1
        /\ \A k \in 1 .. Len(heap) : /\ heap'[k].m_height = heap[k].m_height
                                     /\ k # p_node => heap'[k] = heap[k]
        /\ heap'[p_node].m_csize = 0
        /\ heap'[Len(heap) + 1].m_csize = 0
    BY <1>1, <1>2, SplitHeap DEF NewNode
  <1>4. t_node' = Len(heap) + 1 /\ Nodes' = Nodes \cup {t_node'}
    BY <1>2, <1>3 DEF t_node, Nodes
  <1>5. \A g \in {0, 1} : Cardinality(Filled(g)') = 0
    <2>1. \A g \in {0, 1} : Filled(g)' = {}
      BY <1>1, SlotFacts DEF Filled, Members
    <2> QED
      BY <2>1, FS_EmptySet
  <1>6. csize(p_node)' = 0 /\ csize(t_node)' = 0
    BY <1>1, <1>3, <1>4 DEF csize
  <1>7. \A n \in Nodes' \ {m_root, p_node, t_node'} : csize(n)' >= MinChildren
    <2>1. \A n \in Nodes \ {m_root, p_node} : heap[n].m_csize >= MinChildren
      BY <1>1 DEF Occupied, Dead, csize
    <2> QED
      BY <1>3, <1>4, <2>1 DEF csize, Nodes
  <1>8. m_root # p_node => isLeaf(m_root)' \/ csize(m_root)' >= 2
    <2>1. m_root # p_node => heap'[m_root] = heap[m_root]
      BY <1>2, <1>3 DEF Nodes
    <2>2. isLeaf(m_root) \/ csize(m_root) >= 2
      BY <1>1 DEF Occupied, Dead, Pending
    <2> QED
      BY <1>1, <2>1, <2>2 DEF isLeaf, csize
  <1> QED
    BY <1>1, <1>5, <1>6, <1>7, <1>8 DEF Occupied, Pending

\* The next entry goes to the half of its group.
LEMMA FillNextOccupied ==
    ASSUME ShapeInv, ShapeInv', Occupied, FillNext
    PROVE  Occupied'
  <1>1. /\ pc = "fill" /\ next < Size
        /\ UNCHANGED <<m_groupAssign, m_root, m_nodeBuffer, p_node, frames, splited>>
    BY DEF FillNext, splitVars
  <1> DEFINE n == target(next)
             x == heap[n].m_csize
  <1>2. CASE ~ (x < MaxChildren)
    BY <1>2 DEF FillNext, Occupied, Dead, Pending
  <1>3. CASE x < MaxChildren
    <2>1. /\ heap' = Placed(heap, t_overflowBuffer[next], n) /\ next' = next + 1
          /\ pc' = pc
      BY <1>3 DEF FillNext
    <2>0. PICK g \in {0, 1} : g = IF m_groupAssign[next] = 0 THEN 0 ELSE 1
      OBVIOUS
    <2>2. /\ p_node \in Nodes /\ t_node \in Nodes /\ p_node # t_node
          /\ n = (IF g = 0 THEN p_node ELSE t_node)
          /\ next \in Overflow /\ t_overflowBuffer[next] \in SubNode
          /\ m_groupAssign[next] \in {0, 1} /\ m_groupAssign[next] = g
          /\ heap \in Seq(Node) /\ Len(heap) \in Nat
      <3>1. TypeOK /\ Path /\ t_node # p_node /\ Unassigned = {}
        BY <1>1 DEF ShapeInv, Shape, Active, Buffer, SplitCore
      <3>2. next \in Overflow
        BY <1>1, <3>1, SlotFacts DEF TypeOK
      <3>3. m_groupAssign[next] \in {0, 1}
        BY <3>1, <3>2 DEF TypeOK, LocalsOK, Unassigned
      <3> QED
        BY <2>0, <3>1, <3>2, <3>3, FrameFields
        DEF TypeOK, LocalsOK, Path, t_node, Nodes, target
    <2>3. n \in Nodes /\ x \in Nat
      BY <2>2, FrameFields DEF ShapeInv, csize
    <2>4. /\ Len(heap') = Len(heap)
          /\ \A k \in Nodes : /\ heap'[k].m_height = heap[k].m_height
                              /\ k # n => heap'[k] = heap[k]
          /\ heap'[n].m_csize = x + 1
      <3> HIDE DEF n
      <3> QED
        BY <1>3, <2>1, <2>2, <2>3, PlacedHeap DEF Nodes
    <2>5. t_node' = t_node /\ Nodes' = Nodes
      BY <2>4 DEF t_node, Nodes
    <2>6. /\ Cardinality(Filled(g)') = Cardinality(Filled(g)) + 1
          /\ Cardinality(Filled(1 - g)') = Cardinality(Filled(1 - g))
      <3>1. /\ Filled(g)' = Filled(g) \cup {next}
            /\ Filled(1 - g)' = Filled(1 - g)
            /\ next \notin Filled(g)
        BY <1>1, <2>1, <2>2, SlotFacts DEF Filled, Members
      <3>2. IsFiniteSet(Filled(g))
        <4>1. Filled(g) \subseteq Overflow
          BY DEF Filled, Members
        <4> QED
          BY <4>1, OverflowSize, FS_Subset
      <3> QED
        BY <3>1, <3>2, FS_AddElement
    <2>7. csize(p_node) = Cardinality(Filled(0)) /\ csize(t_node) = Cardinality(Filled(1))
      BY <1>1 DEF Occupied
    <2>8. csize(p_node)' = Cardinality(Filled(0)') /\ csize(t_node)' = Cardinality(Filled(1)')
      <3>1. CASE g = 0
        BY <1>1, <2>2, <2>4, <2>5, <2>6, <2>7, <3>1 DEF csize
      <3>2. CASE g = 1
        BY <1>1, <2>2, <2>4, <2>5, <2>6, <2>7, <3>2 DEF csize
      <3> QED
        BY <2>2, <3>1, <3>2
    <2> HIDE DEF n, x
    <2>9. \A k \in Nodes' \ {m_root, p_node, t_node} : csize(k)' >= MinChildren
      <3>1. \A k \in Nodes \ {m_root, p_node, t_node} : csize(k) >= MinChildren
        BY <1>1 DEF Occupied, Dead
      <3> QED
        BY <2>2, <2>4, <2>5, <3>1 DEF csize
    <2>10. m_root # p_node => isLeaf(m_root)' \/ csize(m_root)' >= 2
      <3>1. /\ m_root \in Nodes
            /\ m_root # p_node => isLeaf(m_root) \/ csize(m_root) >= 2
        BY <1>1 DEF Occupied, Dead, Pending, ShapeInv, TypeOK
      <3> QED
        BY <1>1, <2>3, <2>4, <3>1 DEF isLeaf, csize, x
    <2> QED
      BY <1>1, <2>1, <2>5, <2>8, <2>9, <2>10 DEF Occupied, Pending
  <1> QED
    BY <1>2, <1>3

\* Both halves are complete, and hold MinChildren entries at least.
LEMMA FillDoneOccupied ==
    ASSUME ShapeInv, ShapeInv', Occupied, FillDone
    PROVE  Occupied'
  <1>1. /\ pc = "fill" /\ next = Size /\ pc' = "return"
        /\ m_nodeBuffer' = t_node
        /\ UNCHANGED <<heap, m_root, p_node, frames>>
    BY DEF FillDone
  <1>2. \A g \in {0, 1} : Filled(g) = Members(g)
    BY <1>1, SlotFacts DEF Filled, Members
  <1>3. csize(p_node) >= MinChildren /\ csize(t_node) >= MinChildren
    BY <1>1, <1>2 DEF Occupied, ShapeInv, SplitCore, CountsMatch
  <1>4. m_root = p_node => frames = <<>>
    BY <1>1, PathAbove DEF ShapeInv, Shape, Active
  <1>5. Pending'
    BY <1>1 DEF FillDone, Pending
  <1>6. \A n \in Nodes \ {m_root} : csize(n) >= MinChildren
    BY <1>1, <1>3 DEF Occupied, Dead
  <1> QED
    BY <1>1, <1>3, <1>4, <1>5, <1>6 DEF Occupied, csize, isLeaf, Nodes, Pending, Dead

\* The new root has two children.
LEMMA FinishOccupied ==
    ASSUME ShapeInv, ShapeInv', Occupied, Finish
    PROVE  Occupied'
  <1>1. /\ pc = "return" /\ frames = <<>> /\ pc' = "idle" /\ splited' = FALSE
    BY DEF Finish
  <1>2. /\ p_node = m_root /\ m_root \in Nodes /\ heap \in Seq(Node)
        /\ Len(heap) \in Nat
    BY <1>1, PathAbove, FrameFields DEF ShapeInv, Shape, Active, TypeOK
  <1>3. \A n \in Nodes \ {m_root} : csize(n) >= MinChildren
    BY <1>1 DEF Occupied, Dead
  <1>4. CASE splited
    <2>1. heap' = GrownHeap /\ m_root' = Len(heap) + 1
      BY <1>4 DEF Finish
    <2>2. m_nodeBuffer \in Nodes /\ csize(m_root) >= MinChildren
      BY <1>1, <1>2, <1>4 DEF ShapeInv, Shape, Pending, Occupied
    <2>3. /\ Len(heap') = Len(heap) + 1
          /\ \A k \in Nodes : heap'[k] = heap[k]
          /\ heap'[m_root'].m_csize = 2
      BY <1>2, <2>1, <2>2, GrownHeapFacts
    <2>4. \A n \in Nodes' \ {m_root'} : n \in Nodes /\ csize(n)' >= MinChildren
      BY <1>2, <1>3, <2>1, <2>2, <2>3 DEF Nodes, csize
    <2>5. csize(m_root)' >= 2
      BY <2>3 DEF csize
    <2> QED
      BY <1>1, <2>4, <2>5 DEF Occupied, Pending
  <1>5. CASE ~ splited
    <2>1. UNCHANGED <<heap, m_root>>
      BY <1>5 DEF Finish
    <2> QED
      BY <1>1, <1>3, <1>5, <2>1 DEF Occupied, Pending, Dead, csize, isLeaf, Nodes
  <1> QED
    BY <1>4, <1>5

OccupiedInv == ShapeInv /\ Occupied

\* Steps that leave the nodes alone.
LEMMA PassiveOccupied ==
    ASSUME OccupiedInv, UNCHANGED <<splitVars, indexVars, callVars>>,
           pc' = pc \/ (Quiet' /\ Quiet) \/ Dead'
    PROVE  OccupiedInv'
  <1>1. UNCHANGED <<heap, m_root, m_nodeBuffer, m_groupAssign, p_node, frames,
                    splited, next>>
    BY DEF splitVars, indexVars, callVars
  <1>2. ShapeInv'
    BY PassiveShape DEF OccupiedInv
  <1>3. CASE pc' = pc
    BY <1>1, <1>2, <1>3
    DEF OccupiedInv, Occupied, Pending, Dead, csize, isLeaf, Nodes, t_node, Filled,
        Members
  <1>4. CASE Quiet' /\ Quiet
    BY <1>1, <1>2, <1>4
    DEF OccupiedInv, Occupied, Pending, Quiet, Dead, csize, isLeaf, Nodes
  <1>5. CASE Dead'
    BY <1>2, <1>5 DEF OccupiedInv, Occupied, Pending, Dead
  <1> QED
    BY <1>3, <1>4, <1>5

\* Every step keeps the nodes as full as Occupied says.
LEMMA NextOccupied == OccupiedInv /\ [Next]_vars => OccupiedInv'
  <1> SUFFICES ASSUME OccupiedInv, [Next]_vars PROVE Occupied'
    BY NextShape DEF OccupiedInv
  <1>1. ShapeInv /\ ShapeInv' /\ Occupied
    BY NextShape DEF OccupiedInv
  <1>2. CASE UNCHANGED vars
    BY <1>2, PassiveOccupied DEF vars, OccupiedInv
  <1>3. ASSUME NEW a_box \in Boxes, Insert(a_box) PROVE Occupied'
    BY <1>1, <1>3
    DEF Insert, indexVars, Occupied, Pending, Dead, csize, isLeaf, Nodes
  <1>4. CASE Descend
    BY <1>1, <1>4
    DEF Descend, indexVars, Occupied, Pending, Dead, csize, isLeaf, Nodes
  <1>5. CASE DescendNowhere
    BY <1>5, PassiveOccupied DEF DescendNowhere, Dead, OccupiedInv
  <1>6. CASE AddToLeaf
    <2>1. /\ pc = "insert" /\ AddSubNode(heap, r_subNode, p_node)
          /\ m_root' = m_root
      BY <1>6 DEF AddToLeaf
    <2>2. p_node \in 1 .. Len(heap) /\ r_subNode \in SubNode /\ heap \in Seq(Node)
      BY <1>1, <2>1 DEF ShapeInv, Shape, Active, Path, TypeOK, Nodes
    <2>3. /\ Len(heap') = Len(heap)
          /\ \A n \in Nodes : height(n)' = height(n) /\ csize(n)' >= csize(n)
          /\ (pc' = "return" /\ splited' = FALSE) \/ pc' = "seed"
      BY <2>1, <2>2, AddSubNodeSizes DEF Nodes, height, csize
    <2> QED
      BY <1>1, <2>1, <2>3, OccupiedKept DEF Pending, Dead
  <1>7. CASE SplitStep /\ UNCHANGED <<indexVars, callVars>>
    BY <1>1, <1>7, SplitStepFrame
    DEF indexVars, callVars, Occupied, Pending, Dead, csize, isLeaf, Nodes
  <1>8. CASE AllocateSibling
    BY <1>1, <1>8, AllocateSiblingOccupied
  <1>9. CASE FillNext
    BY <1>1, <1>9, FillNextOccupied
  <1>10. CASE FillDone
    BY <1>1, <1>10, FillDoneOccupied
  <1>11. CASE ReturnUnsplit
    <2> DEFINE b == UnionBox(sub(caller.p_node, caller.index).m_box, r_subNode.m_box)
    <2>1. /\ pc = "return" /\ pc' = pc /\ ~ splited /\ splited' = splited
          /\ frames # <<>> /\ m_root' = m_root
          /\ heap' = WithBox(heap, caller.p_node, caller.index, b)
      BY <1>11 DEF ReturnUnsplit
    <2>2. /\ TypeOK /\ Path
      BY <1>1, <2>1 DEF ShapeInv, Shape, Active
    <2>3. /\ caller.p_node \in 1 .. Len(heap) /\ caller.index \in Slots
          /\ heap \in Seq(Node)
      BY <2>1, <2>2, PathCaller, FrameFields DEF Nodes
    <2>4. b \in Box
      <3>1. sub(caller.p_node, caller.index) \in SubNode /\ r_subNode \in SubNode
        BY <2>2, <2>3, FrameFields DEF TypeOK, Nodes
      <3> QED
        BY <3>1, NodeFields, UnionBoxType
    <2> HIDE DEF b
    <2>5. /\ Len(heap') = Len(heap)
          /\ \A n \in Nodes : height(n)' = height(n) /\ csize(n)' = csize(n)
      BY <2>1, <2>3, <2>4, WithBoxHeap DEF Nodes, height, csize
    <2>6. \A n \in Nodes : csize(n) \in Nat
      BY <2>2, FrameFields
    <2> QED
      BY <1>1, <2>1, <2>5, <2>6, OccupiedKept DEF Pending, Dead
  <1>12. CASE ReturnSplit
    <2> DEFINE h == WithBox(heap, caller.p_node, caller.index,
                            NodeCover(heap, p_node))
               entry == [m_box |-> NodeCover(heap, m_nodeBuffer),
                         m_child |-> m_nodeBuffer, m_data |-> NoData]
    <2>1. /\ pc = "return" /\ splited /\ frames # <<>> /\ m_root' = m_root
          /\ AddSubNode(h, entry, caller.p_node)
      BY <1>12 DEF ReturnSplit
    <2>2. TypeOK /\ Path /\ Shape /\ Pending
      BY <1>1, <2>1 DEF ShapeInv, Shape, Active, Pending
    <2>3. /\ caller.p_node \in 1 .. Len(heap) /\ caller.index \in Slots
          /\ heap \in Seq(Node)
      BY <2>1, <2>2, PathCaller, FrameFields DEF Nodes
    <2>4. NodeCover(heap, p_node) \in Box /\ entry \in SubNode
      BY <2>1, <2>2, SiblingEntry
    <2>5. /\ h \in Seq(Node) /\ Len(h) = Len(heap)
          /\ \A n \in Nodes : h[n].m_height = height(n) /\ h[n].m_csize = csize(n)
      BY <2>3, <2>4, WithBoxHeap DEF Nodes, height, csize
    <2> HIDE DEF h, entry
    <2>6. /\ Len(heap') = Len(heap)
          /\ \A n \in Nodes : height(n)' = height(n) /\ csize(n)' >= csize(n)
          /\ (pc' = "return" /\ splited' = FALSE) \/ pc' = "seed"
      BY <2>1, <2>3, <2>4, <2>5, AddSubNodeSizes DEF Nodes, height, csize
    <2> QED
      BY <1>1, <2>1, <2>6, OccupiedKept DEF Pending, Dead
  <1>13. CASE DanglingRead
    BY <1>13, PassiveOccupied DEF DanglingRead, Dead, OccupiedInv
  <1>14. CASE Finish
    BY <1>1, <1>14, FinishOccupied
  <1>15. CASE Stopped
    BY <1>15, PassiveOccupied DEF Stopped, vars, OccupiedInv
  <1> QED
    BY <1>1, <1>2, <1>3, <1>4, <1>5, <1>6, <1>7, <1>8, <1>9, <1>10, <1>11, <1>12,
       <1>13, <1>14, <1>15 DEF Next, InsertStep

LEMMA OccupiedInvariant == Spec => []OccupiedInv
  <1>1. Init => OccupiedInv
    <2> SUFFICES ASSUME Init PROVE OccupiedInv
      OBVIOUS
    <2>1. heap = <<NewNode(0)>> /\ Len(heap) = 1 /\ m_root = 1 /\ pc = "idle"
      BY DEF Init
    <2>2. Nodes = {1} /\ isLeaf(m_root)
      BY <2>1 DEF Nodes, isLeaf, NewNode
    <2> QED
      BY <2>1, <2>2, InitShape DEF OccupiedInv, Occupied, Pending
  <1>2. OccupiedInv /\ [Next]_vars => OccupiedInv'
    BY NextOccupied
  <1> QED
    BY <1>1, <1>2, PTL DEF Spec

\* Between two calls no node but the root has fewer than MinChildren entries,
\* and an inner root has two or more, whatever was inserted.
THEOREM SpatialOccupancy == Spec => []Occupancy
  <1>1. OccupiedInv => Occupancy
    BY DEF OccupiedInv, Occupied, Occupancy, Dead, Pending, csize
  <1> QED
    BY <1>1, OccupiedInvariant, PTL

-----------------------------------------------------------------------------
\* What is stored in the tree.

\* The slots of the buffer that hold an entry no node holds.
Buffered == IF Splitting THEN {MaxChildren}
            ELSE IF pc = "fill" THEN {i \in Overflow : i >= next} ELSE {}

\* Where an entry can be: in a used slot of a node, or in the buffer.
Homes == Places \cup ({0} \X Buffered)
held(h) == IF h[1] = 0 THEN t_overflowBuffer[h[2]] ELSE at(h)

\* The node that an entry is in, or was taken from.
owner(h) == IF h[1] = 0 THEN p_node ELSE h[1]

\* Where AddSubNode puts an entry: behind the others, or last in the buffer.
Lands(h, n) == h = <<n, csize(n)>> \/ h = <<0, MaxChildren>>

\* The nodes that are nobody's child: the root, and during a split the sibling.
Roots == {m_root} \cup (IF Pending THEN {m_nodeBuffer} ELSE {})
                  \cup (IF pc = "fill" THEN {t_node} ELSE {})

\* No two homes hold the same child, and no node is lost.
Linked ==
    /\ \A h, k \in Homes : held(h).m_child = held(k).m_child
                             /\ held(h).m_child # nullptr => h = k
    /\ \A h \in Homes : held(h).m_child \notin Roots
    /\ ~ Dead => \A n \in Nodes \ Roots : \E h \in Homes : held(h).m_child = n

\* The new entry was stored.
Stored == Splitting \/ pc \in {"fill", "return"}

\* Every inserted entry has one home, where it keeps its box.
Kept ==
    /\ Len(inserted) = m_size
    /\ \A h, k \in Homes : held(h).m_data = held(k).m_data
                             /\ held(h).m_data # NoData => h = k
    /\ \A k \in 1 .. m_size : \E h \in Homes : held(h).m_data = k
    /\ Stored => \E h \in Homes : held(h).m_data = m_size + 1
    /\ \A h \in Homes :
         /\ held(h).m_data <= m_size + 1
         /\ held(h).m_data = m_size + 1 =>
              ~ Quiet /\ pc # "insert" /\ held(h).m_box = r_subNode.m_box
         /\ held(h).m_data \in 1 .. m_size =>
              held(h).m_box = inserted[held(h).m_data]
    /\ Splitting => t_overflowBuffer[MaxChildren].m_data \in {NoData, m_size + 1}
-----------------------------------------------------------------------------
\* The homes are pairs, and what they hold are entries.
HomesTyped ==
    /\ \A n, s : <<n, s>> \in Homes
         <=> \/ n \in Nodes /\ s \in Slots /\ s < csize(n)
             \/ n = 0 /\ s \in Buffered
    /\ \A h \in Homes : \E n, s : h = <<n, s>>
    /\ \A n \in Nodes : n # 0 /\ \A s : held(<<n, s>>) = sub(n, s)
    /\ \A s : held(<<0, s>>) = t_overflowBuffer[s]
    /\ Buffered \subseteq Overflow
    /\ \A h \in Homes : held(h) \in SubNode

LEMMA HomeFacts == TypeOK => HomesTyped
  <1> SUFFICES ASSUME TypeOK PROVE HomesTyped
    OBVIOUS
  <1>1. \A n, s : <<n, s>> \in Homes
           <=> \/ n \in Nodes /\ s \in Slots /\ s < csize(n)
               \/ n = 0 /\ s \in Buffered
    BY DEF Homes, Places, Used, csize
  <1>2. \A h \in Homes : \E n, s : h = <<n, s>>
    BY DEF Homes, Places
  <1>3. \A n \in Nodes : n # 0 /\ \A s : held(<<n, s>>) = sub(n, s)
    BY DEF held, at, Nodes
  <1>4. \A s : held(<<0, s>>) = t_overflowBuffer[s]
    BY DEF held
  <1>5. Buffered \subseteq Overflow
    BY SlotFacts DEF Buffered
  <1>6. \A h \in Homes : held(h) \in SubNode
    <2> SUFFICES ASSUME NEW n, NEW s, <<n, s>> \in Homes
                 PROVE  held(<<n, s>>) \in SubNode
      BY <1>2
    <2>1. CASE n = 0 /\ s \in Buffered
      BY <1>4, <1>5, <2>1 DEF TypeOK, LocalsOK
    <2>2. CASE n \in Nodes /\ s \in Slots
      BY <1>3, <2>2, FrameFields
    <2> QED
      BY <1>1, <2>1, <2>2
  <1> QED
    BY <1>1, <1>2, <1>3, <1>4, <1>5, <1>6 DEF HomesTyped

LEMMA HomeFactsNext == TypeOK' => HomesTyped'
  BY HomeFacts, PTL

\* The entry of a home fits the node it is in, or is to go to.
ChildrenTyped ==
    /\ \A h \in Homes : held(h).m_child \in Nodes \cup {nullptr}
    /\ \A h \in Homes : held(h).m_child = nullptr <=> held(h).m_data # NoData
    /\ nullptr \notin Roots /\ Roots \subseteq Nodes

LEMMA HomeChildren == ShapeInv => ChildrenTyped
  <1> SUFFICES ASSUME ShapeInv PROVE ChildrenTyped
    OBVIOUS
  <1>1. HomesTyped /\ TypeOK /\ Shape
    BY HomeFacts DEF ShapeInv
  <1>2. \A h \in Homes : \E level \in Nat : Fits(heap, held(h), level)
    <2> SUFFICES ASSUME NEW n, NEW s, <<n, s>> \in Homes
                 PROVE  \E level \in Nat : Fits(heap, held(<<n, s>>), level)
      BY <1>1 DEF HomesTyped
    <2>1. CASE n \in Nodes /\ s \in Slots /\ s < csize(n)
      <3>1. Fits(heap, sub(n, s), height(n)) /\ height(n) \in Nat
        BY <1>1, <2>1, FrameFields
        DEF Shape, Levels, sub, height, csize, Nodes
      <3> QED
        BY <1>1, <2>1, <3>1 DEF HomesTyped
    <2>2. CASE n = 0 /\ s \in Buffered
      <3>1. Fits(heap, t_overflowBuffer[s], height(p_node)) /\ height(p_node) \in Nat
        BY <1>1, <2>2, FrameFields
        DEF Shape, Buffered, Buffer, Splitting, Active, Path
      <3> QED
        BY <1>1, <2>2, <3>1 DEF HomesTyped
    <2> QED
      BY <1>1, <2>1, <2>2 DEF HomesTyped
  <1>3. \A h \in Homes : /\ held(h).m_child \in Nodes \cup {nullptr}
                         /\ held(h).m_child = nullptr <=> held(h).m_data # NoData
    <2>1. nullptr \notin Nodes
      BY DEF Nodes, nullptr
    <2> QED
      BY <1>2, <2>1 DEF Fits, Nodes
  <1>4. Roots \subseteq Nodes
    <2>1. m_root \in Nodes /\ (Pending => m_nodeBuffer \in Nodes)
      BY <1>1 DEF Shape, TypeOK
    <2>2. pc = "fill" => t_node \in Nodes
      BY <1>1, FrameFields DEF Shape, Active, Path, t_node, Nodes
    <2> QED
      BY <2>1, <2>2 DEF Roots
  <1> QED
    BY <1>3, <1>4 DEF ChildrenTyped, Nodes, nullptr

LEMMA HomeChildrenNext == ShapeInv' => ChildrenTyped'
  BY HomeChildren, PTL
-----------------------------------------------------------------------------
\* What a step does to the homes: Extra are new ones, every other one holds
\* what its origin held, and only entries at Changed get another box.
Moves(origin, Extra, Changed) ==
    /\ Extra \subseteq Homes'
    /\ origin \in [Homes' \ Extra -> Homes]
    /\ \A h, k \in Homes' \ Extra : origin[h] = origin[k] => h = k
    /\ \A h \in Homes : \E k \in Homes' \ Extra : origin[k] = h
    /\ \A k \in Homes' \ Extra :
         /\ held(k)'.m_child = held(origin[k]).m_child
         /\ held(k)'.m_data = held(origin[k]).m_data
         /\ origin[k] \notin Changed => held(k)'.m_box = held(origin[k]).m_box

\* Nodes stay linked once when the children of new homes were roots before.
LEMMA LinkedMoves ==
    ASSUME ShapeInv, ShapeInv', Linked, ~ Dead, NEW origin, NEW Extra, NEW Changed,
           Moves(origin, Extra, Changed),
           \A k \in Extra : held(k)'.m_child \in (Roots \cup {nullptr}) \ Roots',
           \A h, k \in Extra : held(h)'.m_child = held(k)'.m_child
                                 /\ held(h)'.m_child # nullptr => h = k,
           \A n \in Roots' : n \in Roots \/ n \notin Nodes,
           \A n \in Nodes' \ Roots' : \/ n \in Nodes \ Roots
                                      \/ \E k \in Extra : held(k)'.m_child = n
    PROVE  Linked'
  <1>1. ASSUME NEW h \in Homes', NEW k \in Homes',
               held(h)'.m_child = held(k)'.m_child, held(h)'.m_child # nullptr
        PROVE  h = k
    <2>1. CASE h \in Extra /\ k \in Extra
      BY <1>1, <2>1
    <2>2. CASE h \notin Extra /\ k \notin Extra
      BY <1>1, <2>2 DEF Moves, Linked
    <2>3. CASE h \in Extra /\ k \notin Extra
      BY <1>1, <2>3 DEF Moves, Linked
    <2>4. CASE h \notin Extra /\ k \in Extra
      BY <1>1, <2>4 DEF Moves, Linked
    <2> QED
      BY <2>1, <2>2, <2>3, <2>4
  <1>2. ASSUME NEW h \in Homes'
        PROVE  held(h)'.m_child \notin Roots'
    <2>1. CASE h \in Extra
      BY <2>1
    <2>2. CASE h \notin Extra
      <3>1. held(h)'.m_child = held(origin[h]).m_child /\ origin[h] \in Homes
        BY <2>2 DEF Moves
      <3> QED
        BY <3>1, HomeChildren, HomeChildrenNext DEF Linked, ChildrenTyped
    <2> QED
      BY <2>1, <2>2
  <1>3. ASSUME NEW n \in Nodes' \ Roots'
        PROVE  \E h \in Homes' : held(h)'.m_child = n
    BY DEF Moves, Linked
  <1> QED
    BY <1>1, <1>2, <1>3 DEF Linked

\* The entries keep their homes when no entry of a leaf is among the new ones.
LEMMA KeptMoves ==
    ASSUME ShapeInv, ShapeInv', Kept, NEW origin, NEW Extra, NEW Changed,
           Moves(origin, Extra, Changed),
           UNCHANGED <<m_size, inserted, r_subNode>>,
           \A k \in Extra : held(k)'.m_data = NoData,
           \A h \in Changed \cap Homes : held(h).m_data = NoData,
           Stored' => Stored, pc' = "insert" \/ Quiet' => pc = "insert" \/ Quiet,
           Splitting' => t_overflowBuffer'[MaxChildren].m_data \in {NoData, m_size + 1}
    PROVE  Kept'
  <1>1. \A h, k \in Homes' : held(h)'.m_data = held(k)'.m_data
                               /\ held(h)'.m_data # NoData => h = k
    BY DEF Moves, Kept
  <1>2. ASSUME NEW k \in 1 .. m_size
        PROVE  \E h \in Homes' : held(h)'.m_data = k
    BY DEF Moves, Kept
  <1>3. Stored' => \E h \in Homes' : held(h)'.m_data = m_size + 1
    BY DEF Moves, Kept
  <1>4. ASSUME NEW h \in Homes'
        PROVE  /\ held(h)'.m_data <= m_size + 1
               /\ held(h)'.m_data = m_size + 1 =>
                    ~ Quiet' /\ pc' # "insert" /\ held(h)'.m_box = r_subNode.m_box
               /\ held(h)'.m_data \in 1 .. m_size =>
                    held(h)'.m_box = inserted[held(h)'.m_data]
    <2>0. m_size \in Nat /\ m_size + 1 # NoData /\ NoData \notin 1 .. m_size
          /\ NoData <= m_size + 1
      BY MaxInsertsAssumption DEF ShapeInv, TypeOK, NoData
    <2>1. CASE h \in Extra
      BY <2>0, <2>1
    <2>2. CASE h \notin Extra
      <3>1. /\ origin[h] \in Homes
            /\ held(h)'.m_data = held(origin[h]).m_data
            /\ held(h)'.m_data # NoData => held(h)'.m_box = held(origin[h]).m_box
        BY <2>2 DEF Moves
      <3>2. /\ held(origin[h]).m_data <= m_size + 1
            /\ held(origin[h]).m_data = m_size + 1 =>
                 ~ Quiet /\ pc # "insert" /\ held(origin[h]).m_box = r_subNode.m_box
            /\ held(origin[h]).m_data \in 1 .. m_size =>
                 held(origin[h]).m_box = inserted[held(origin[h]).m_data]
        BY <3>1 DEF Kept
      <3> QED
        BY <2>0, <3>1, <3>2
    <2> QED
      BY <2>1, <2>2
  <1> QED
    BY <1>1, <1>2, <1>3, <1>4 DEF Kept
-----------------------------------------------------------------------------
\* Steps that move nothing: the origin of a home is the home itself.
LEMMA StayingMoves ==
    ASSUME NEW Extra, NEW Changed, Homes' = Homes \cup Extra, Extra \cap Homes = {},
           \A h \in Homes :
             /\ held(h)'.m_child = held(h).m_child
             /\ held(h)'.m_data = held(h).m_data
             /\ h \notin Changed => held(h)'.m_box = held(h).m_box
    PROVE  Moves([h \in Homes |-> h], Extra, Changed)
  <1>1. Homes' \ Extra = Homes
    OBVIOUS
  <1> QED
    BY <1>1 DEF Moves

\* Steps that change neither the nodes nor what waits in the buffer.
LEMMA SameHomes ==
    ASSUME TypeOK, TypeOK', heap' = heap, Buffered' = Buffered,
           \A i \in Buffered : t_overflowBuffer'[i] = t_overflowBuffer[i]
    PROVE  /\ Homes' = Homes /\ \A h \in Homes : held(h)' = held(h)
           /\ Moves([h \in Homes |-> h], {}, {})
  <1>1. Homes' = Homes
    BY DEF Homes, Places, Nodes, Used
  <1>2. \A h \in Homes : held(h)' = held(h)
    <2> SUFFICES ASSUME NEW n, NEW s, <<n, s>> \in Homes
                 PROVE  held(<<n, s>>)' = held(<<n, s>>)
      BY HomeFacts DEF HomesTyped
    <2>1. CASE n = 0 /\ s \in Buffered
      BY <2>1 DEF held
    <2>2. CASE n \in Nodes
      BY <2>2 DEF held, at, sub, Nodes
    <2> QED
      BY <2>1, <2>2, HomeFacts DEF HomesTyped
  <1> QED
    BY <1>1, <1>2, StayingMoves

\* A new entry is added to a node, or to the buffer when the node is full.
LEMMA AddSubNodeMoves ==
    ASSUME ShapeInv, ShapeInv', pc \in {"insert", "return"},
           NEW h \in Seq(Node), Len(h) = Len(heap), NEW Changed,
           \A n \in Nodes :
             /\ h[n].m_csize = csize(n)
             /\ \A s \in Slots :
                  /\ h[n].m_subNodes[s].m_child = sub(n, s).m_child
                  /\ h[n].m_subNodes[s].m_data = sub(n, s).m_data
                  /\ <<n, s>> \notin Changed =>
                       h[n].m_subNodes[s].m_box = sub(n, s).m_box,
           NEW node_ \in Nodes, NEW entry \in SubNode, AddSubNode(h, entry, node_)
    PROVE  \E x : /\ x \notin Homes /\ Homes' = Homes \cup {x} /\ held(x)' = entry
                  /\ Lands(x, node_)
                  /\ Moves([k \in Homes |-> k], {x}, Changed)
                  /\ Splitting' => t_overflowBuffer'[MaxChildren] = entry
  <1>1. HomesTyped /\ HomesTyped' /\ Buffered = {} /\ Len(heap) \in Nat
    BY HomeFacts, HomeFactsNext, FrameFields DEF ShapeInv, Buffered, Splitting
  <1>2. \A n \in Nodes : csize(n) \in Nat
    BY FrameFields DEF ShapeInv
  <1>3. \A k \in Homes : \E n \in Nodes, s \in Slots : k = <<n, s>> /\ s < csize(n)
    BY <1>1 DEF HomesTyped
  <1>4. CASE h[node_].m_csize < MaxChildren
    <2> DEFINE g == Placed(h, entry, node_)
               last == h[node_].m_csize
    <2>1. heap' = g /\ pc' = "return" /\ UNCHANGED splitVars
      BY <1>4 DEF AddSubNode
    <2>2. /\ g \in Seq(Node) /\ Len(g) = Len(h)
          /\ \A k \in 1 .. Len(h) : k # node_ => g[k] = h[k]
          /\ g[node_].m_csize = last + 1 /\ last \in Slots
          /\ g[node_].m_subNodes[last] = entry
          /\ \A s \in Slots : s # last => g[node_].m_subNodes[s] = h[node_].m_subNodes[s]
      BY <1>4, PlacedHeap DEF Nodes
    <2> HIDE DEF g
    <2>3. Nodes' = Nodes /\ Buffered' = {} /\ last = csize(node_)
      BY <2>1, <2>2 DEF Nodes, Buffered, Splitting
    <2>4. /\ \A n \in Nodes : /\ csize(n)' = IF n = node_ THEN last + 1 ELSE csize(n)
                              /\ \A s \in Slots : n # node_ \/ s # last =>
                                   sub(n, s)' = h[n].m_subNodes[s]
          /\ sub(node_, last)' = entry
      BY <2>1, <2>2 DEF csize, sub, Nodes
    <2> HIDE DEF last
    <2>5. <<node_, last>> \notin Homes
      BY <1>1, <1>2, <2>3 DEF HomesTyped
    <2>6. Homes' = Homes \cup {<<node_, last>>}
      <3>1. \A k \in Homes' : \E n \in Nodes, s \in Slots : k = <<n, s>> /\ s < csize(n)'
        BY <1>1, <2>3 DEF HomesTyped
      <3>2. ASSUME NEW n \in Nodes, NEW s \in Slots
            PROVE  s < csize(n)' <=> s < csize(n) \/ (n = node_ /\ s = last)
        BY <1>2, <2>3, <2>4, SlotFacts
      <3>3. \A n \in Nodes, s \in Slots :
              <<n, s>> \in Homes' <=> <<n, s>> \in Homes \/ <<n, s>> = <<node_, last>>
        <4>1. \A n \in Nodes : n # 0
          BY <1>1 DEF HomesTyped
        <4>2. \A n \in Nodes, s \in Slots :
                /\ <<n, s>> \in Homes <=> s < csize(n)
                /\ <<n, s>> \in Homes' <=> s < csize(n)'
          BY <1>1, <2>3, <4>1 DEF HomesTyped
        <4> QED
          BY <3>2, <4>2
      <3>4. node_ \in Nodes /\ last \in Slots
        BY <2>2 DEF last
      <3> QED
        BY <1>3, <3>1, <3>3, <3>4
    <2>7. /\ held(<<node_, last>>)' = entry
          /\ \A k \in Homes : /\ held(k)'.m_child = held(k).m_child
                              /\ held(k)'.m_data = held(k).m_data
                              /\ k \notin Changed => held(k)'.m_box = held(k).m_box
      <3>1. \A n \in Nodes : \A s : held(<<n, s>>) = sub(n, s)
                                    /\ held(<<n, s>>)' = sub(n, s)'
        BY <1>1, <2>3 DEF HomesTyped
      <3>2. \A n \in Nodes, s \in Slots : <<n, s>> \in Homes =>
              held(<<n, s>>)' = h[n].m_subNodes[s]
        BY <2>4, <2>5, <3>1
      <3>3. \A n \in Nodes, s \in Slots : <<n, s>> \in Homes =>
              /\ held(<<n, s>>)'.m_child = held(<<n, s>>).m_child
              /\ held(<<n, s>>)'.m_data = held(<<n, s>>).m_data
              /\ <<n, s>> \notin Changed =>
                   held(<<n, s>>)'.m_box = held(<<n, s>>).m_box
        BY <3>1, <3>2
      <3> QED
        BY <1>3, <2>4, <3>1, <3>3
    <2>8. Moves([k \in Homes |-> k], {<<node_, last>>}, Changed)
      BY <2>5, <2>6, <2>7, StayingMoves
    <2>9. ~ Splitting'
      BY <2>1 DEF Splitting
    <2>10. PICK x : x = <<node_, last>>
      OBVIOUS
    <2>11. Lands(x, node_)
      BY <2>3, <2>10 DEF Lands
    <2> QED
      BY <2>5, <2>6, <2>7, <2>8, <2>9, <2>10, <2>11
  <1>5. CASE ~ (h[node_].m_csize < MaxChildren)
    <2>1. heap' = h /\ pc' = "seed" /\ t_overflowBuffer'[MaxChildren] = entry
      BY <1>5, SlotFacts DEF AddSubNode, StartSplit
    <2>2. Nodes' = Nodes /\ Buffered' = {MaxChildren}
      BY <2>1 DEF Nodes, Buffered, Splitting
    <2>3. \A n \in Nodes : csize(n)' = csize(n) /\ \A s : sub(n, s)' = h[n].m_subNodes[s]
      BY <2>1 DEF csize, sub
    <2>4. <<0, MaxChildren>> \notin Homes
      BY <1>1 DEF HomesTyped
    <2>5. Homes' = Homes \cup {<<0, MaxChildren>>}
      <3>1. \A n, s : <<n, s>> \in Homes' <=> <<n, s>> \in Homes
                                              \/ (n = 0 /\ s = MaxChildren)
        <4> SUFFICES ASSUME NEW n, NEW s
                     PROVE  <<n, s>> \in Homes' <=> <<n, s>> \in Homes
                                                    \/ (n = 0 /\ s = MaxChildren)
          OBVIOUS
        <4>1. <<n, s>> \in Homes' <=> \/ n \in Nodes /\ s \in Slots /\ s < csize(n)'
                                      \/ n = 0 /\ s = MaxChildren
          BY <1>1, <2>2 DEF HomesTyped
        <4>2. <<n, s>> \in Homes <=> n \in Nodes /\ s \in Slots /\ s < csize(n)
          BY <1>1 DEF HomesTyped
        <4> QED
          BY <2>3, <4>1, <4>2
      <3> QED
        BY <1>1, <3>1 DEF HomesTyped
    <2>6. /\ held(<<0, MaxChildren>>)' = entry
          /\ \A k \in Homes : /\ held(k)'.m_child = held(k).m_child
                              /\ held(k)'.m_data = held(k).m_data
                              /\ k \notin Changed => held(k)'.m_box = held(k).m_box
      <3>1. \A n \in Nodes : \A s : held(<<n, s>>) = sub(n, s)
                                    /\ held(<<n, s>>)' = h[n].m_subNodes[s]
        <4>1. \A n \in Nodes : \A s : held(<<n, s>>) = sub(n, s)
          BY <1>1 DEF HomesTyped
        <4>2. \A n \in Nodes : \A s : held(<<n, s>>)' = sub(n, s)'
          BY <1>1, <2>2 DEF HomesTyped
        <4>3. \A n \in Nodes : \A s : sub(n, s)' = h[n].m_subNodes[s]
          BY <2>3
        <4>4. ASSUME NEW n \in Nodes, NEW s
              PROVE  held(<<n, s>>)' = h[n].m_subNodes[s]
          <5>1. held(<<n, s>>)' = sub(n, s)'
            BY <4>2
          <5>2. sub(n, s)' = h[n].m_subNodes[s]
            BY <4>3
          <5> QED
            BY <5>1, <5>2
        <4> QED
          BY <4>1, <4>4
      <3> QED
        BY <1>1, <1>3, <2>1, <3>1 DEF HomesTyped
    <2>7. Moves([k \in Homes |-> k], {<<0, MaxChildren>>}, Changed)
      BY <2>4, <2>5, <2>6, StayingMoves
    <2>8. PICK x : x = <<0, MaxChildren>>
      OBVIOUS
    <2>9. Lands(x, node_)
      BY <2>8 DEF Lands
    <2> QED
      BY <2>1, <2>4, <2>5, <2>6, <2>7, <2>8, <2>9
  <1> QED
    BY <1>4, <1>5

\* The entries of the node that is split go to the buffer.
LEMMA AllocateSiblingMoves ==
    ASSUME ShapeInv, ShapeInv', AllocateSibling
    PROVE  \E origin :
             /\ Moves(origin, {}, {})
             /\ \A k \in Homes' : \/ origin[k] = k
                                  \/ k[1] = 0 /\ origin[k][1] = p_node
  <1>1. /\ pc = "assigned" /\ pc' = "fill" /\ next' = 0 /\ p_node' = p_node
        /\ heap' = Append([heap EXCEPT ![p_node].m_csize = 0],
                          NewNode(height(p_node)))
        /\ t_overflowBuffer' = t_overflowBuffer
    BY DEF AllocateSibling, height, splitVars
  <1>2. /\ HomesTyped /\ HomesTyped' /\ p_node \in Nodes /\ Len(heap) \in Nat
        /\ csize(p_node) = MaxChildren
        /\ \A s \in Slots : t_overflowBuffer[s] = sub(p_node, s)
        /\ heap \in Seq(Node) /\ height(p_node) \in Nat
    BY <1>1, HomeFacts, HomeFactsNext, FrameFields
    DEF ShapeInv, Shape, Buffer, Splitting, Active, Path
  <1>3. /\ Nodes' = Nodes \cup {Len(heap) + 1} /\ Len(heap) + 1 \notin Nodes
        /\ csize(p_node)' = 0 /\ \A n : n = Len(heap) + 1 => csize(n)' = 0
        /\ \A n \in Nodes : n # p_node => csize(n)' = csize(n)
        /\ \A n \in Nodes : \A s : sub(n, s)' = sub(n, s)
    <2>1. /\ Len(heap') = Len(heap) + 1
          /\ \A k \in 1 .. Len(heap) : /\ heap'[k].m_subNodes = heap[k].m_subNodes
                                       /\ k # p_node => heap'[k] = heap[k]
          /\ heap'[p_node].m_csize = 0
          /\ heap'[Len(heap) + 1] = NewNode(height(p_node))
      BY <1>1, <1>2, SplitHeap DEF Nodes
    <2>2. /\ Nodes' = Nodes \cup {Len(heap) + 1} /\ Len(heap) + 1 \notin Nodes
      BY <1>2, <2>1 DEF Nodes
    <2>3. csize(p_node)' = 0
      BY <1>1, <2>1 DEF csize
    <2>4. \A n : n = Len(heap) + 1 => csize(n)' = 0
      BY <2>1 DEF csize, NewNode
    <2>5. /\ \A n \in Nodes : n # p_node => csize(n)' = csize(n)
          /\ \A n \in Nodes : \A s : sub(n, s)' = sub(n, s)
      BY <2>1 DEF csize, sub, Nodes
    <2> QED
      BY <2>1, <2>2, <2>3, <2>4, <2>5
  <1>4. Buffered = {MaxChildren} /\ Buffered' = Overflow
    <2>1. \A i \in Overflow : i >= 0
      BY SlotFacts
    <2> QED
      BY <1>1, <2>1 DEF Buffered, Splitting
  <1>5. \A n, s : <<n, s>> \in Homes
          <=> \/ n \in Nodes /\ s \in Slots /\ s < csize(n)
              \/ n = 0 /\ s = MaxChildren
    BY <1>2, <1>4 DEF HomesTyped
  <1>6. \A n, s : <<n, s>> \in Homes'
          <=> \/ n \in Nodes /\ n # p_node /\ s \in Slots /\ s < csize(n)
              \/ n = 0 /\ s \in Overflow
    <2> SUFFICES ASSUME NEW n, NEW s
                 PROVE  <<n, s>> \in Homes'
                          <=> \/ n \in Nodes /\ n # p_node /\ s \in Slots /\ s < csize(n)
                              \/ n = 0 /\ s \in Overflow
      OBVIOUS
    <2>1. <<n, s>> \in Homes' <=> \/ n \in Nodes' /\ s \in Slots /\ s < csize(n)'
                                  \/ n = 0 /\ s \in Overflow
      BY <1>2, <1>4 DEF HomesTyped
    <2>2. \A r \in Slots : ~ (r < 0)
      BY SlotFacts
    <2>3. /\ n = p_node => ~ (s \in Slots /\ s < csize(n)')
          /\ n = Len(heap) + 1 => ~ (s \in Slots /\ s < csize(n)')
      BY <1>1, <1>3, <2>2
    <2>4. n \in Nodes /\ n # p_node => csize(n)' = csize(n)
      BY <1>3
    <2> QED
      BY <1>2, <1>3, <2>1, <2>3, <2>4
  <1>7. \A n, s : /\ n \in Nodes => held(<<n, s>>)' = sub(n, s)
                                    /\ held(<<n, s>>) = sub(n, s)
                  /\ held(<<0, s>>)' = t_overflowBuffer[s]
                  /\ held(<<0, s>>) = t_overflowBuffer[s]
    <2> SUFFICES ASSUME NEW n, NEW s
                 PROVE  /\ n \in Nodes => held(<<n, s>>)' = sub(n, s)
                                          /\ held(<<n, s>>) = sub(n, s)
                        /\ held(<<0, s>>)' = t_overflowBuffer[s]
                        /\ held(<<0, s>>) = t_overflowBuffer[s]
      OBVIOUS
    <2>1. n \in Nodes => held(<<n, s>>)' = sub(n, s)' /\ held(<<n, s>>) = sub(n, s)
      BY <1>2, <1>3 DEF HomesTyped
    <2>2. held(<<0, s>>)' = t_overflowBuffer'[s] /\ held(<<0, s>>) = t_overflowBuffer[s]
      BY <1>2 DEF HomesTyped
    <2> QED
      BY <1>1, <1>3, <2>1, <2>2
  <1> DEFINE origin == [k \in Homes' |-> IF k[1] = 0 /\ k[2] # MaxChildren
                                         THEN <<p_node, k[2]>> ELSE k]
  <1>8. \A n, s : <<n, s>> \in Homes' =>
          /\ n # 0 \/ s = MaxChildren => origin[<<n, s>>] = <<n, s>>
          /\ n = 0 /\ s # MaxChildren => origin[<<n, s>>] = <<p_node, s>>
    OBVIOUS
  <1>9. origin \in [Homes' -> Homes]
    <2>1. ASSUME NEW n, NEW s, <<n, s>> \in Homes'
          PROVE  origin[<<n, s>>] \in Homes
      <3>1. CASE n = 0 /\ s # MaxChildren
        <4>1. s \in Slots /\ s < csize(p_node)
          BY <1>2, <1>6, <2>1, <3>1, SlotFacts
        <4> QED
          BY <1>2, <1>5, <1>8, <2>1, <3>1, <4>1
      <3>2. CASE n = 0 /\ s = MaxChildren
        BY <1>5, <1>8, <2>1, <3>2
      <3>3. CASE n # 0
        BY <1>5, <1>6, <1>8, <2>1, <3>3
      <3> QED
        BY <3>1, <3>2, <3>3
    <2>2. \A k \in Homes' : \E n, s : k = <<n, s>>
      BY <1>2 DEF HomesTyped
    <2>3. \A k \in Homes' : origin[k] \in Homes
      BY <2>1, <2>2
    <2>4. origin = [k \in Homes' |-> origin[k]]
      OBVIOUS
    <2> HIDE DEF origin
    <2> QED
      BY <2>3, <2>4
  <1> HIDE DEF origin
  <1>10. ASSUME NEW n, NEW s, NEW m, NEW r, <<n, s>> \in Homes', <<m, r>> \in Homes',
                origin[<<n, s>>] = origin[<<m, r>>]
         PROVE  <<n, s>> = <<m, r>>
    <2>1. (n # 0 => n # p_node /\ n \in Nodes) /\ (m # 0 => m # p_node /\ m \in Nodes)
      BY <1>6, <1>10
    <2>2. p_node # 0
      BY <1>2 DEF HomesTyped
    <2> QED
      BY <1>8, <1>10, <2>1, <2>2
  <1>11. ASSUME NEW n, NEW s, <<n, s>> \in Homes
         PROVE  \E k \in Homes' : origin[k] = <<n, s>>
    <2>1. CASE n = p_node
      <3>1. s \in Slots /\ s \in Overflow /\ s # MaxChildren
        BY <1>2, <1>5, <1>11, <2>1, SlotFacts DEF HomesTyped
      <3>2. <<0, s>> \in Homes'
        BY <1>6, <3>1
      <3> QED
        BY <1>8, <2>1, <3>1, <3>2
    <2>2. CASE n # p_node
      <3>1. <<n, s>> \in Homes' /\ (n # 0 \/ s = MaxChildren)
        BY <1>2, <1>5, <1>6, <1>11, <2>2, SlotFacts DEF HomesTyped
      <3> QED
        BY <1>8, <3>1
    <2> QED
      BY <2>1, <2>2
  <1>12. ASSUME NEW n, NEW s, <<n, s>> \in Homes'
         PROVE  held(<<n, s>>)' = held(origin[<<n, s>>])
    <2>1. CASE n = 0 /\ s # MaxChildren
      <3>1. s \in Slots
        BY <1>2, <1>6, <1>12, <2>1, SlotFacts
      <3>2. held(<<n, s>>)' = t_overflowBuffer[s] /\ held(<<p_node, s>>) = sub(p_node, s)
        BY <1>2, <1>7, <2>1
      <3> QED
        BY <1>2, <1>8, <1>12, <2>1, <3>1, <3>2
    <2>2. CASE n = 0 /\ s = MaxChildren
      BY <1>7, <1>8, <1>12, <2>2
    <2>3. CASE n # 0
      BY <1>6, <1>7, <1>8, <1>12, <2>3
    <2> QED
      BY <2>1, <2>2, <2>3
  <1>13. Moves(origin, {}, {})
    <2>1. /\ \A k \in Homes' : \E n, s : k = <<n, s>>
          /\ \A k \in Homes : \E n, s : k = <<n, s>>
      BY <1>2 DEF HomesTyped
    <2>2. Homes' \ {} = Homes'
      OBVIOUS
    <2>3. \A h, k \in Homes' : origin[h] = origin[k] => h = k
      BY <1>10, <2>1
    <2>4. \A h \in Homes : \E k \in Homes' : origin[k] = h
      BY <1>11, <2>1
    <2>5. \A k \in Homes' : held(k)' = held(origin[k])
      BY <1>12, <2>1
    <2> QED
      BY <1>9, <2>2, <2>3, <2>4, <2>5 DEF Moves
  <1>14. \A k \in Homes' : \/ origin[k] = k
                           \/ k[1] = 0 /\ origin[k][1] = p_node
    <2>1. ASSUME NEW k \in Homes'
          PROVE  \/ origin[k] = k
                 \/ k[1] = 0 /\ origin[k][1] = p_node
      <3>1. PICK n, s : k = <<n, s>>
        BY <1>2 DEF HomesTyped
      <3> QED
        BY <1>8, <2>1, <3>1
    <2> QED
      BY <2>1
  <1> QED
    BY <1>13, <1>14

\* Neither half overflows while the split is filled back.
LEMMA FillFits ==
    ASSUME OccupiedInv, pc = "fill", next < Size
    PROVE  heap[target(next)].m_csize < MaxChildren
  <1>1. /\ TypeOK /\ SplitCore /\ Occupied /\ Unassigned = {}
        /\ count(0) >= MinChildren /\ count(1) >= MinChildren
    BY DEF OccupiedInv, ShapeInv, SplitCore
  <1>2. next \in Overflow /\ m_groupAssign[next] \in {0, 1}
    <2>1. next \in Overflow
      BY <1>1, SlotFacts DEF TypeOK
    <2> QED
      BY <1>1, <2>1 DEF TypeOK, LocalsOK, Unassigned
  <1>3. PICK g \in {0, 1} : g = m_groupAssign[next]
    BY <1>2
  <1>4. heap[target(next)].m_csize = Cardinality(Filled(g))
    BY <1>1, <1>3 DEF Occupied, target, csize
  <1>5. /\ IsFiniteSet(Filled(g)) /\ next \notin Filled(g)
        /\ Filled(g) \cup {next} \subseteq Members(g) /\ IsFiniteSet(Members(g))
    <2>1. Members(g) \subseteq Overflow /\ Filled(g) \subseteq Overflow
      BY DEF Filled, Members
    <2>2. IsFiniteSet(Filled(g)) /\ IsFiniteSet(Members(g))
      BY <2>1, OverflowSize, FS_Subset
    <2>3. next \notin Filled(g)
      BY <1>1, SlotFacts DEF Filled, TypeOK
    <2> QED
      BY <1>2, <1>3, <2>2, <2>3 DEF Filled, Members
  <1>6. Cardinality(Filled(g)) \in Nat /\ Cardinality(Filled(g)) + 1 <= Cardinality(Members(g))
    <2>1. /\ IsFiniteSet(Filled(g) \cup {next})
          /\ Cardinality(Filled(g) \cup {next}) = Cardinality(Filled(g)) + 1
      BY <1>5, FS_AddElement
    <2>2. Cardinality(Filled(g) \cup {next}) <= Cardinality(Members(g))
      BY <1>5, FS_Subset
    <2> QED
      BY <1>5, <2>1, <2>2, FS_CardinalityType
  <1>7. /\ Cardinality(Members(0)) + Cardinality(Members(1)) <= Size
        /\ Cardinality(Members(0)) \in Nat /\ Cardinality(Members(1)) \in Nat
    BY <1>1, MembersPartition, OverflowSize, SMTT(30) DEF TypeOK, LocalsOK
  <1>8. Cardinality(Members(0)) >= MinChildren /\ Cardinality(Members(1)) >= MinChildren
    BY <1>1 DEF SplitCore, CountsMatch
  <1> QED
    BY <1>4, <1>6, <1>7, <1>8, SlotFacts
\* The next entry of the buffer goes to a node.
LEMMA FillNextMoves ==
    ASSUME OccupiedInv, ShapeInv', FillNext
    PROVE  /\ pc' = "fill" /\ UNCHANGED t_node /\ Nodes' = Nodes
           /\ \E origin :
                /\ Moves(origin, {}, {})
                /\ \A k \in Homes' :
                     \/ origin[k] = k
                     \/ origin[k][1] = 0 /\ k[1] \in {p_node, t_node}
  <1> DEFINE n_ == target(next)
             last == heap[n_].m_csize
  <1>1. /\ pc = "fill" /\ next < Size /\ pc' = "fill" /\ next' = next + 1
        /\ heap' = Placed(heap, t_overflowBuffer[next], n_)
        /\ t_overflowBuffer' = t_overflowBuffer /\ last < MaxChildren
    <2>1. last < MaxChildren
      BY FillFits DEF FillNext
    <2> QED
      BY <2>1 DEF FillNext, splitVars
  <1>2. /\ HomesTyped /\ HomesTyped' /\ next \in Overflow
        /\ t_overflowBuffer[next] \in SubNode
        /\ n_ \in Nodes /\ heap \in Seq(Node) /\ Len(heap) \in Nat
    <2>1. TypeOK /\ Path /\ HomesTyped /\ HomesTyped'
      BY <1>1, HomeFacts, HomeFactsNext DEF OccupiedInv, ShapeInv, Shape, Active
    <2>2. next \in Overflow
      BY <1>1, <2>1, SlotFacts DEF TypeOK
    <2> QED
      BY <2>1, <2>2, FrameFields DEF TypeOK, LocalsOK, Path, t_node, Nodes, target
  <1>3. PICK node_ \in Nodes, r \in Slots :
          /\ node_ = n_ /\ r = last /\ r = csize(node_)
    <2>1. csize(n_) \in 0 .. MaxChildren
      BY <1>2, FrameFields DEF OccupiedInv, ShapeInv
    <2>2. last \in Slots
      BY <1>1, <2>1, SlotFacts DEF csize
    <2> QED
      BY <1>2, <2>2 DEF csize
  <1>4. PICK i \in Overflow : i = next
    BY <1>2
  <1> HIDE DEF n_, last
  <1>5. /\ Len(heap') = Len(heap)
        /\ \A k \in Nodes : k # node_ => heap'[k] = heap[k]
        /\ heap'[node_].m_csize = r + 1
        /\ heap'[node_].m_subNodes[r] = t_overflowBuffer[i]
        /\ \A s \in Slots : s # r => heap'[node_].m_subNodes[s] = heap[node_].m_subNodes[s]
    <2>1. heap' = Placed(heap, t_overflowBuffer[i], node_) /\ node_ \in 1 .. Len(heap)
      BY <1>1, <1>3, <1>4 DEF Nodes
    <2>2. heap[node_].m_csize = r /\ heap[node_].m_csize < MaxChildren
      BY <1>1, <1>3 DEF csize, last
    <2> DEFINE e == t_overflowBuffer[i]
    <2>3. e \in SubNode
      BY <1>2, <1>4
    <2> HIDE DEF e
    <2>4. heap' = Placed(heap, e, node_)
      BY <2>1 DEF e
    <2>5. LET g == Placed(heap, e, node_)
          IN /\ Len(g) = Len(heap)
             /\ \A k \in 1 .. Len(heap) : k # node_ => g[k] = heap[k]
             /\ g[node_].m_csize = r + 1
             /\ g[node_].m_subNodes[r] = e
             /\ \A s \in Slots : s # r => g[node_].m_subNodes[s] = heap[node_].m_subNodes[s]
      BY <1>2, <2>1, <2>2, <2>3, PlacedHeap
    <2> QED
      BY <2>4, <2>5 DEF e, Nodes
  <1>6. /\ Nodes' = Nodes /\ UNCHANGED t_node
        /\ \A n \in Nodes : csize(n)' = IF n = node_ THEN r + 1 ELSE csize(n)
        /\ \A n \in Nodes, s \in Slots :
             sub(n, s)' = IF n = node_ /\ s = r THEN t_overflowBuffer[i] ELSE sub(n, s)
    BY <1>5 DEF Nodes, t_node, csize, sub
  <1>7. /\ \A s : s \in Buffered <=> s \in Overflow /\ s >= i
        /\ \A s : s \in Buffered' <=> s \in Overflow /\ s >= i /\ s # i
    <2>1. \A s \in Overflow : s >= i + 1 <=> s >= i /\ s # i
      BY SlotFacts
    <2> QED
      BY <1>1, <1>4, <2>1 DEF Buffered, Splitting
  <1>8. \A n, s : <<n, s>> \in Homes
          <=> \/ n \in Nodes /\ s \in Slots /\ s < csize(n)
              \/ n = 0 /\ s \in Overflow /\ s >= i
    BY <1>2, <1>7 DEF HomesTyped
  <1>9. \A n, s : <<n, s>> \in Homes'
          <=> \/ n \in Nodes /\ s \in Slots /\ s < csize(n)
              \/ n = node_ /\ s = r
              \/ n = 0 /\ s \in Overflow /\ s >= i /\ s # i
    <2> SUFFICES ASSUME NEW n, NEW s
                 PROVE  <<n, s>> \in Homes'
                          <=> \/ n \in Nodes /\ s \in Slots /\ s < csize(n)
                              \/ n = node_ /\ s = r
                              \/ n = 0 /\ s \in Overflow /\ s >= i /\ s # i
      OBVIOUS
    <2>1. <<n, s>> \in Homes' <=> \/ n \in Nodes /\ s \in Slots /\ s < csize(n)'
                                  \/ n = 0 /\ s \in Overflow /\ s >= i /\ s # i
      BY <1>2, <1>6, <1>7 DEF HomesTyped
    <2>2. s \in Slots => (s < r + 1 <=> s < r \/ s = r)
      BY SlotFacts
    <2> QED
      BY <1>3, <1>6, <2>1, <2>2
  <1>10. \A n, s : /\ n \in Nodes => held(<<n, s>>)' = sub(n, s)'
                                     /\ held(<<n, s>>) = sub(n, s)
                   /\ held(<<0, s>>)' = t_overflowBuffer[s]
                   /\ held(<<0, s>>) = t_overflowBuffer[s]
    <2> SUFFICES ASSUME NEW n, NEW s
                 PROVE  /\ n \in Nodes => held(<<n, s>>)' = sub(n, s)'
                                          /\ held(<<n, s>>) = sub(n, s)
                        /\ held(<<0, s>>)' = t_overflowBuffer[s]
                        /\ held(<<0, s>>) = t_overflowBuffer[s]
      OBVIOUS
    <2>1. n \in Nodes => held(<<n, s>>)' = sub(n, s)' /\ held(<<n, s>>) = sub(n, s)
      BY <1>2, <1>6 DEF HomesTyped
    <2>2. held(<<0, s>>)' = t_overflowBuffer'[s] /\ held(<<0, s>>) = t_overflowBuffer[s]
      BY <1>2 DEF HomesTyped
    <2> QED
      BY <1>1, <2>1, <2>2
  <1> DEFINE origin == [k \in Homes' |-> IF k = <<node_, r>> THEN <<0, i>> ELSE k]
  <1>11. /\ <<0, i>> \in Homes /\ <<0, i>> \notin Homes'
         /\ <<node_, r>> \in Homes' /\ <<node_, r>> \notin Homes
         /\ \A k \in Homes' : k # <<node_, r>> => k \in Homes
         /\ \A k \in Homes : k # <<0, i>> => k \in Homes'
    <2>1. node_ # 0 /\ i >= i /\ ~ (r < r) /\ 0 \notin Nodes
      BY <1>2, SlotFacts DEF HomesTyped
    <2>2. /\ \A k \in Homes' : \E n, s : k = <<n, s>>
          /\ \A k \in Homes : \E n, s : k = <<n, s>>
      BY <1>2 DEF HomesTyped
    <2>3. \A n, s : <<n, s>> \in Homes' /\ <<n, s>> # <<node_, r>> => <<n, s>> \in Homes
      BY <1>8, <1>9
    <2>4. \A n, s : <<n, s>> \in Homes /\ <<n, s>> # <<0, i>> => <<n, s>> \in Homes'
      BY <1>8, <1>9
    <2> QED
      BY <1>3, <1>8, <1>9, <2>1, <2>2, <2>3, <2>4
  <1>12. /\ \A k \in Homes' : held(k)' = held(origin[k])
    <2>1. held(<<node_, r>>)' = held(<<0, i>>)
      BY <1>6, <1>10
    <2>2. ASSUME NEW n, NEW s, <<n, s>> \in Homes', <<n, s>> # <<node_, r>>
          PROVE  held(<<n, s>>)' = held(<<n, s>>)
      <3>1. CASE n = 0
        BY <1>10, <3>1
      <3>2. CASE n # 0
        <4>1. n \in Nodes /\ s \in Slots /\ ~ (n = node_ /\ s = r)
          BY <1>9, <2>2, <3>2
        <4> QED
          BY <1>6, <1>10, <4>1
      <3> QED
        BY <3>1, <3>2
    <2>3. \A k \in Homes' : \E n, s : k = <<n, s>>
      BY <1>2 DEF HomesTyped
    <2>4. \A k \in Homes' : k # <<node_, r>> => held(k)' = held(k)
      BY <2>2, <2>3
    <2> QED
      BY <2>1, <2>4
  <1>13. Moves(origin, {}, {})
    <2>1. /\ origin \in [Homes' -> Homes]
          /\ \A h, k \in Homes' : origin[h] = origin[k] => h = k
          /\ \A h \in Homes : \E k \in Homes' : origin[k] = h
      BY <1>11
    <2>2. Homes' \ {} = Homes'
      OBVIOUS
    <2> HIDE DEF origin
    <2> QED
      BY <1>12, <2>1, <2>2 DEF Moves
  <1>14. \A k \in Homes' : \/ origin[k] = k
                           \/ origin[k][1] = 0 /\ k[1] \in {p_node, t_node}
    <2>1. node_ \in {p_node, t_node}
      BY <1>3 DEF n_, target
    <2> QED
      BY <2>1
  <1> QED
    BY <1>1, <1>6, <1>13, <1>14

\* The entry of the innermost caller.
LEMMA CallerHome ==
    ASSUME ShapeInv, Active, frames # <<>>
    PROVE  /\ <<caller.p_node, caller.index>> \in Homes
           /\ held(<<caller.p_node, caller.index>>) = sub(caller.p_node, caller.index)
           /\ held(<<caller.p_node, caller.index>>).m_child = p_node
           /\ held(<<caller.p_node, caller.index>>).m_data = NoData
  <1>1. TypeOK /\ Path /\ HomesTyped
    BY HomeFacts DEF ShapeInv, Shape
  <1>2. /\ caller.p_node \in Nodes /\ caller.index \in Slots
        /\ caller.index \in Used(caller.p_node)
        /\ sub(caller.p_node, caller.index).m_child = p_node
    BY <1>1, PathCaller
  <1>3. /\ <<caller.p_node, caller.index>> \in Homes
        /\ held(<<caller.p_node, caller.index>>) = sub(caller.p_node, caller.index)
    BY <1>1, <1>2 DEF HomesTyped, Used, csize
  <1>4. p_node # nullptr
    BY <1>1 DEF Path, Nodes, nullptr
  <1> QED
    BY <1>2, <1>3, <1>4, HomeChildren DEF ChildrenTyped

\* The box of one entry grows.
LEMMA ReturnUnsplitMoves ==
    ASSUME ShapeInv, ShapeInv', ReturnUnsplit
    PROVE  /\ Nodes' = Nodes /\ Homes' = Homes
           /\ Moves([h \in Homes |-> h], {}, {<<caller.p_node, caller.index>>})
           /\ held(<<caller.p_node, caller.index>>).m_data = NoData
  <1> DEFINE b == UnionBox(sub(caller.p_node, caller.index).m_box, r_subNode.m_box)
             home == <<caller.p_node, caller.index>>
  <1>1. /\ pc = "return" /\ frames # <<>> /\ pc' = pc
        /\ heap' = WithBox(heap, caller.p_node, caller.index, b)
        /\ t_overflowBuffer' = t_overflowBuffer
    BY DEF ReturnUnsplit, splitVars
  <1>2. TypeOK /\ TypeOK' /\ Path /\ HomesTyped /\ HomesTyped' /\ Active
    BY <1>1, HomeFacts, HomeFactsNext DEF ShapeInv, Shape, Active
  <1>3. /\ caller.p_node \in Nodes /\ caller.index \in Slots
        /\ heap \in Seq(Node)
    BY <1>1, <1>2, PathCaller, FrameFields
  <1>4. b \in Box
    <2>1. sub(caller.p_node, caller.index) \in SubNode /\ r_subNode \in SubNode
      BY <1>2, <1>3, FrameFields DEF TypeOK
    <2> QED
      BY <2>1, NodeFields, UnionBoxType
  <1> HIDE DEF b
  <1>5. /\ Nodes' = Nodes /\ \A n \in Nodes : csize(n)' = csize(n)
        /\ \A n \in Nodes, s \in Slots :
             /\ sub(n, s)'.m_child = sub(n, s).m_child
             /\ sub(n, s)'.m_data = sub(n, s).m_data
             /\ <<n, s>> # home => sub(n, s)'.m_box = sub(n, s).m_box
    <2>1. PICK n \in 1 .. Len(heap), s \in Slots : n = caller.p_node /\ s = caller.index
      BY <1>3 DEF Nodes
    <2>2. PICK box \in Box : box = b
      BY <1>4
    <2>3. /\ Len(heap') = Len(heap)
          /\ \A k \in 1 .. Len(heap) : /\ heap'[k].m_csize = heap[k].m_csize
                                       /\ k # n => heap'[k] = heap[k]
          /\ \A r \in Slots :
               /\ r # s => heap'[n].m_subNodes[r] = heap[n].m_subNodes[r]
               /\ heap'[n].m_subNodes[r].m_child = heap[n].m_subNodes[r].m_child
               /\ heap'[n].m_subNodes[r].m_data = heap[n].m_subNodes[r].m_data
      <3>1. heap' = WithBox(heap, n, s, box) /\ heap \in Seq(Node)
        BY <1>1, <1>3, <2>1, <2>2
      <3> QED
        BY <3>1, WithBoxHeap
    <2>4. home = <<n, s>>
      BY <2>1
    <2> QED
      BY <2>3, <2>4 DEF csize, sub, Nodes
  <1>6. Buffered = {} /\ Buffered' = {}
    BY <1>1 DEF Buffered, Splitting
  <1>7. Homes' = Homes
    <2>1. ASSUME NEW n, NEW s
          PROVE  <<n, s>> \in Homes' <=> <<n, s>> \in Homes
      <3>1. <<n, s>> \in Homes' <=> n \in Nodes /\ s \in Slots /\ s < csize(n)'
        BY <1>2, <1>5, <1>6 DEF HomesTyped
      <3>2. <<n, s>> \in Homes <=> n \in Nodes /\ s \in Slots /\ s < csize(n)
        BY <1>2, <1>6 DEF HomesTyped
      <3> QED
        BY <1>5, <3>1, <3>2
    <2> QED
      BY <1>2, <2>1 DEF HomesTyped
  <1>8. \A k \in Homes : /\ held(k)'.m_child = held(k).m_child
                         /\ held(k)'.m_data = held(k).m_data
                         /\ k \notin {home} => held(k)'.m_box = held(k).m_box
    <2>1. \A k \in Homes : \E n \in Nodes, s \in Slots : k = <<n, s>>
      BY <1>2, <1>6 DEF HomesTyped
    <2>2. \A n \in Nodes : \A s : held(<<n, s>>) = sub(n, s)
      BY <1>2 DEF HomesTyped
    <2>3. \A n \in Nodes : \A s : held(<<n, s>>)' = sub(n, s)'
      BY <1>2, <1>5 DEF HomesTyped
    <2> SUFFICES ASSUME NEW n \in Nodes, NEW s \in Slots
                 PROVE  /\ held(<<n, s>>)'.m_child = held(<<n, s>>).m_child
                        /\ held(<<n, s>>)'.m_data = held(<<n, s>>).m_data
                        /\ <<n, s>> # home => held(<<n, s>>)'.m_box = held(<<n, s>>).m_box
      BY <2>1
    <2> QED
      BY <1>5, <2>2, <2>3
  <1> HIDE DEF home
  <1>9. Moves([h \in Homes |-> h], {}, {home})
    BY <1>7, <1>8, StayingMoves
  <1>10. held(home).m_data = NoData
    BY <1>1, <1>2, CallerHome DEF home
  <1> QED
    BY <1>5, <1>7, <1>9, <1>10 DEF home

\* The new root has the two halves of the old one as its children.
LEMMA FinishMoves ==
    ASSUME ShapeInv, ShapeInv', Finish, splited
    PROVE  \E new :
             /\ new = Len(heap) + 1 /\ Nodes' = Nodes \cup {new} /\ new \notin Nodes
             /\ held(<<new, 0>>)' = childEntry(m_root)
             /\ held(<<new, 1>>)' = childEntry(m_nodeBuffer)
             /\ {<<new, 0>>, <<new, 1>>} \cap Homes = {}
             /\ Homes' = Homes \cup {<<new, 0>>, <<new, 1>>}
             /\ \A k \in Homes : held(k)' = held(k)
             /\ Moves([h \in Homes |-> h], {<<new, 0>>, <<new, 1>>}, {})
  <1>1. /\ pc = "return" /\ frames = <<>> /\ heap' = GrownHeap /\ pc' = "idle"
    BY DEF Finish
  <1>2. /\ HomesTyped /\ HomesTyped' /\ m_root \in Nodes /\ m_nodeBuffer \in Nodes
        /\ heap \in Seq(Node) /\ Len(heap) \in Nat
    BY <1>1, HomeFacts, HomeFactsNext, FrameFields DEF ShapeInv, Shape, Pending, TypeOK
  <1>3. PICK new \in Nat : new = Len(heap) + 1
    BY <1>2
  <1>4. /\ Len(heap') = Len(heap) + 1 /\ \A k \in Nodes : heap'[k] = heap[k]
        /\ heap'[new].m_csize = 2
        /\ heap'[new].m_subNodes[0] = childEntry(m_root)
        /\ heap'[new].m_subNodes[1] = childEntry(m_nodeBuffer)
    BY <1>1, <1>2, <1>3, GrownHeapFacts
  <1>5. /\ Nodes' = Nodes \cup {new} /\ new \notin Nodes /\ new # 0
        /\ csize(new)' = 2 /\ \A n \in Nodes : csize(n)' = csize(n)
        /\ \A n \in Nodes : \A s : sub(n, s)' = sub(n, s)
        /\ sub(new, 0)' = childEntry(m_root) /\ sub(new, 1)' = childEntry(m_nodeBuffer)
    BY <1>2, <1>3, <1>4 DEF Nodes, csize, sub
  <1>6. Buffered = {} /\ Buffered' = {}
    BY <1>1 DEF Buffered, Splitting
  <1> DEFINE Extra == {<<new, 0>>, <<new, 1>>}
  <1>7. \A s \in Slots : s < 2 <=> s = 0 \/ s = 1
    BY DEF Slots
  <1>8. 0 \in Slots /\ 1 \in Slots
    BY SlotFacts
  <1>9. ASSUME NEW n, NEW s
        PROVE  <<n, s>> \in Homes' <=> <<n, s>> \in Homes \/ <<n, s>> \in Extra
    <2>1. <<n, s>> \in Homes' <=> n \in Nodes' /\ s \in Slots /\ s < csize(n)'
      BY <1>2, <1>6 DEF HomesTyped
    <2>2. <<n, s>> \in Homes <=> n \in Nodes /\ s \in Slots /\ s < csize(n)
      BY <1>2, <1>6 DEF HomesTyped
    <2>3. <<n, s>> \in Extra <=> n = new /\ (s = 0 \/ s = 1)
      OBVIOUS
    <2> HIDE DEF Extra
    <2>4. CASE n = new
      BY <1>5, <1>7, <1>8, <2>1, <2>2, <2>3, <2>4
    <2>5. CASE n # new
      BY <1>5, <2>1, <2>2, <2>3, <2>5
    <2> QED
      BY <2>4, <2>5
  <1>10. Extra \cap Homes = {}
    BY <1>2, <1>5 DEF HomesTyped
  <1>11. Homes' = Homes \cup Extra
    <2>1. /\ \A k \in Homes' : \E n, s : k = <<n, s>>
          /\ \A k \in Homes : \E n, s : k = <<n, s>>
          /\ \A k \in Extra : \E n, s : k = <<n, s>>
      BY <1>2 DEF HomesTyped
    <2> HIDE DEF Extra
    <2> QED
      BY <1>9, <2>1
  <1>12. \A k \in Homes : held(k)' = held(k)
    <2>1. ASSUME NEW n \in Nodes, NEW s PROVE held(<<n, s>>)' = held(<<n, s>>)
      <3>1. held(<<n, s>>)' = sub(n, s)'
        BY <1>2, <1>5 DEF HomesTyped
      <3>2. held(<<n, s>>) = sub(n, s)
        BY <1>2 DEF HomesTyped
      <3> QED
        BY <1>5, <3>1, <3>2
    <2>2. \A k \in Homes : \E n \in Nodes, s \in Slots : k = <<n, s>>
      BY <1>2, <1>6 DEF HomesTyped
    <2> QED
      BY <2>1, <2>2
  <1>13. /\ held(<<new, 0>>)' = childEntry(m_root)
         /\ held(<<new, 1>>)' = childEntry(m_nodeBuffer)
    BY <1>2, <1>5 DEF HomesTyped
  <1> HIDE DEF Extra
  <1>14. Moves([h \in Homes |-> h], Extra, {})
    BY <1>10, <1>11, <1>12, StayingMoves
  <1> QED
    BY <1>3, <1>5, <1>10, <1>11, <1>12, <1>13, <1>14 DEF Extra
-----------------------------------------------------------------------------
TreeInv == OccupiedInv /\ Linked /\ Kept

\* The program stops for good: the tree stays as it is, and an entry that is
\* still in the buffer is not one of those inserted before.
LEMMA DeadTree ==
    ASSUME TreeInv, ShapeInv', Dead', pc # "fill",
           UNCHANGED <<heap, m_root, m_size, inserted, r_subNode, t_overflowBuffer>>
    PROVE  Linked' /\ Kept'
  <1>1. /\ HomesTyped /\ HomesTyped' /\ Linked /\ Kept /\ m_size \in Nat
        /\ ~ Quiet' /\ ~ Splitting' /\ pc' # "insert" /\ ~ Stored'
    BY HomeFacts, HomeFactsNext, MaxInsertsAssumption
    DEF TreeInv, OccupiedInv, ShapeInv, TypeOK, Dead, Quiet, Splitting, Stored
  <1>2. Buffered' = {} /\ Roots' = {m_root}
    BY DEF Dead, Buffered, Splitting, Roots, Pending
  <1>3. Homes' = Places /\ \A h \in Places : held(h)' = held(h)
    <2>1. Homes' = Places
      BY <1>2 DEF Homes, Places, Nodes, Used
    <2>2. \A h : held(h)' = held(h)
      BY DEF held, at, sub
    <2> QED
      BY <2>1, <2>2
  <1>4. Places \subseteq Homes /\ Roots' \subseteq Roots
    BY <1>2 DEF Homes, Roots
  <1>5. ASSUME NEW h \in Homes \ Places
        PROVE  held(h).m_data \in {NoData, m_size + 1}
    <2>1. h[1] = 0 /\ h[2] \in Buffered
      BY DEF Homes
    <2>2. Splitting /\ h[2] = MaxChildren
      BY <2>1 DEF Buffered
    <2> QED
      BY <1>1, <2>1, <2>2 DEF held, Kept
  <1>6. Linked'
    BY <1>1, <1>3, <1>4 DEF Linked
  <1>7. \A k \in 1 .. m_size : \E h \in Homes' : held(h)'.m_data = k
    <2>1. \A k \in 1 .. m_size : k # NoData /\ k # m_size + 1
      BY <1>1 DEF NoData
    <2> QED
      BY <1>1, <1>3, <1>5, <2>1 DEF Kept
  <1> QED
    BY <1>1, <1>3, <1>4, <1>6, <1>7 DEF Kept

\* No node is added, none becomes a root or ceases to be one.
LEMMA StillLinked ==
    ASSUME ShapeInv, ShapeInv', Linked, ~ Dead, NEW origin, NEW Changed,
           Moves(origin, {}, Changed), Nodes' = Nodes, Roots' = Roots
    PROVE  Linked'
  BY LinkedMoves

\* Steps that change neither the nodes nor what waits in the buffer.
LEMMA StillTree ==
    ASSUME TreeInv, ShapeInv', ~ Dead, heap' = heap, Buffered' = Buffered,
           \A i \in Buffered : t_overflowBuffer'[i] = t_overflowBuffer[i],
           Roots' = Roots, UNCHANGED <<m_size, inserted, r_subNode>>,
           Stored' => Stored, pc' = "insert" \/ Quiet' => pc = "insert" \/ Quiet,
           Splitting' => Splitting
    PROVE  Linked' /\ Kept'
  <1>1. /\ ShapeInv /\ Linked /\ Kept /\ TypeOK /\ TypeOK'
    BY DEF TreeInv, OccupiedInv, ShapeInv
  <1>2. Moves([h \in Homes |-> h], {}, {})
    BY <1>1, SameHomes
  <1>3. Linked'
    BY <1>1, <1>2, StillLinked DEF Nodes
  <1>4. Splitting' => t_overflowBuffer'[MaxChildren].m_data \in {NoData, m_size + 1}
    BY <1>1 DEF Kept, Buffered
  <1> QED
    BY <1>1, <1>2, <1>3, <1>4, KeptMoves

\* A new insertion begins: nothing stored so far bears its number.
LEMMA InsertTree ==
    ASSUME TreeInv, ShapeInv', NEW a_box \in Boxes, Insert(a_box)
    PROVE  Linked' /\ Kept'
  <1>1. /\ pc = "idle" /\ pc' = "insert" /\ heap' = heap
        /\ UNCHANGED <<m_root, m_size, m_nodeBuffer, inserted, splited>>
    BY DEF Insert, indexVars
  <1>2. /\ ShapeInv /\ Linked /\ Kept /\ TypeOK /\ TypeOK' /\ ~ splited
    BY <1>1 DEF TreeInv, OccupiedInv, ShapeInv, Shape, Quiet
  <1>3. Buffered = {} /\ Buffered' = {} /\ Roots' = Roots /\ Nodes' = Nodes
    BY <1>1, <1>2 DEF Buffered, Splitting, Roots, Pending, Nodes
  <1>4. /\ Homes' = Homes /\ \A h \in Homes : held(h)' = held(h)
        /\ Moves([h \in Homes |-> h], {}, {})
    BY <1>1, <1>2, <1>3, SameHomes
  <1>5. Linked'
    BY <1>1, <1>2, <1>3, <1>4, StillLinked DEF Dead
  <1> QED
    BY <1>1, <1>2, <1>4, <1>5 DEF Kept, Stored, Splitting, Quiet

\* The new entry is stored in its leaf, or in the buffer of the leaf's split.
LEMMA AddToLeafMoves ==
    ASSUME ShapeInv, ShapeInv', AddToLeaf
    PROVE  \E x : /\ x \notin Homes /\ Homes' = Homes \cup {x} /\ held(x)' = r_subNode
                  /\ Lands(x, p_node)
                  /\ Moves([k \in Homes |-> k], {x}, {})
                  /\ Splitting' => t_overflowBuffer'[MaxChildren] = r_subNode
  <1>1. pc = "insert" /\ AddSubNode(heap, r_subNode, p_node)
    BY DEF AddToLeaf
  <1>2. p_node \in Nodes /\ r_subNode \in SubNode /\ heap \in Seq(Node)
    BY <1>1 DEF ShapeInv, Shape, Active, Path, TypeOK
  <1>3. \A n \in Nodes :
          /\ heap[n].m_csize = csize(n)
          /\ \A s \in Slots :
               /\ heap[n].m_subNodes[s].m_child = sub(n, s).m_child
               /\ heap[n].m_subNodes[s].m_data = sub(n, s).m_data
               /\ <<n, s>> \notin {} => heap[n].m_subNodes[s].m_box = sub(n, s).m_box
    BY DEF csize, sub
  <1>4. PICK h \in Seq(Node) : h = heap
    BY <1>2
  <1>5. Len(h) = Len(heap) /\ AddSubNode(h, r_subNode, p_node)
    BY <1>1, <1>4
  <1>6. \A n \in Nodes :
          /\ h[n].m_csize = csize(n)
          /\ \A s \in Slots :
               /\ h[n].m_subNodes[s].m_child = sub(n, s).m_child
               /\ h[n].m_subNodes[s].m_data = sub(n, s).m_data
               /\ <<n, s>> \notin {} => h[n].m_subNodes[s].m_box = sub(n, s).m_box
    BY <1>3, <1>4
  <1> QED
    BY <1>1, <1>2, <1>5, <1>6, AddSubNodeMoves, ZenonT(40)

\* So the tree has it, where no other entry is.
LEMMA AddToLeafTree ==
    ASSUME TreeInv, ShapeInv', AddToLeaf
    PROVE  Linked' /\ Kept'
  <1>1. /\ pc = "insert" /\ AddSubNode(heap, r_subNode, p_node)
        /\ UNCHANGED <<m_root, m_size, m_nodeBuffer, inserted, r_subNode, p_node>>
    BY DEF AddToLeaf
  <1>2. /\ ShapeInv /\ Linked /\ Kept /\ TypeOK /\ Path /\ NewEntry /\ ~ splited
        /\ p_node \in Nodes /\ r_subNode \in SubNode /\ heap \in Seq(Node)
        /\ m_size \in Nat
    BY <1>1, MaxInsertsAssumption
    DEF TreeInv, OccupiedInv, ShapeInv, Shape, Active, Path, TypeOK
  <1>3. /\ Len(heap') = Len(heap)
        /\ (pc' = "return" /\ splited' = FALSE) \/ pc' = "seed"
    BY <1>1, <1>2, AddSubNodeSizes DEF Nodes
  <1>4. Nodes' = Nodes /\ Roots' = Roots
    BY <1>1, <1>3 DEF Nodes, Roots, Pending
  <1>5. PICK x : /\ x \notin Homes /\ Homes' = Homes \cup {x} /\ held(x)' = r_subNode
                 /\ Moves([k \in Homes |-> k], {x}, {})
                 /\ Splitting' => t_overflowBuffer'[MaxChildren] = r_subNode
    BY <1>2, AddToLeafMoves
  <1>6. Linked'
    <2>1. r_subNode.m_child = nullptr /\ nullptr \notin Roots'
      BY <1>2, <1>4, HomeChildren DEF NewEntry, ChildrenTyped
    <2> QED
      BY <1>1, <1>2, <1>4, <1>5, <2>1, LinkedMoves DEF Dead
  <1>7. /\ r_subNode.m_data = m_size + 1 /\ m_size + 1 # NoData
        /\ \A h \in Homes : held(h).m_data # m_size + 1
    BY <1>1, <1>2 DEF NewEntry, NoData, Kept
  <1>8. \A h \in Homes : /\ held(h)'.m_data = held(h).m_data
                         /\ held(h)'.m_box = held(h).m_box
    BY <1>5 DEF Moves
  <1>9. ~ Quiet' /\ pc' # "insert"
    BY <1>3 DEF Quiet
  <1>10. \A k \in 1 .. m_size : \E h \in Homes' : held(h)'.m_data = k
    BY <1>2, <1>5, <1>8 DEF Kept
  <1>11. \A h, k \in Homes' : held(h)'.m_data = held(k)'.m_data
                                /\ held(h)'.m_data # NoData => h = k
    BY <1>2, <1>5, <1>7, <1>8 DEF Kept
  <1>12. \A h \in Homes' :
           /\ held(h)'.m_data <= m_size + 1
           /\ held(h)'.m_data = m_size + 1 => held(h)'.m_box = r_subNode.m_box
           /\ held(h)'.m_data \in 1 .. m_size =>
                held(h)'.m_box = inserted[held(h)'.m_data]
    BY <1>2, <1>5, <1>7, <1>8 DEF Kept
  <1> QED
    BY <1>1, <1>2, <1>5, <1>6, <1>7, <1>9, <1>10, <1>11, <1>12 DEF Kept

\* The sibling is allocated, nobody's child yet.
LEMMA AllocateSiblingTree ==
    ASSUME TreeInv, ShapeInv', AllocateSibling
    PROVE  Linked' /\ Kept'
  <1>1. /\ pc = "assigned" /\ pc' = "fill"
        /\ heap' = Append([heap EXCEPT ![p_node].m_csize = 0],
                          NewNode(heap[p_node].m_height))
        /\ UNCHANGED <<m_root, m_size, inserted, r_subNode>>
    BY DEF AllocateSibling
  <1>2. /\ ShapeInv /\ ShapeInv' /\ Linked /\ Kept /\ heap \in Seq(Node)
        /\ m_root \in Nodes
    BY DEF TreeInv, OccupiedInv, ShapeInv, TypeOK
  <1>3. PICK origin : Moves(origin, {}, {})
    BY <1>2, AllocateSiblingMoves
  <1>4. PICK new : /\ new = Len(heap) + 1 /\ Nodes' = Nodes \cup {new}
                   /\ new \notin Nodes /\ Roots = {m_root} /\ Roots' = {m_root, new}
    <2>1. Len(heap) \in Nat /\ Len(heap') = Len(heap) + 1
      BY <1>1, <1>2
    <2> QED
      BY <1>1, <2>1 DEF Nodes, Roots, Pending, t_node
  <1>5. Linked'
    BY <1>1, <1>2, <1>3, <1>4, LinkedMoves DEF Dead
  <1>6. Stored /\ ~ Quiet' /\ pc' # "insert" /\ ~ Splitting'
    BY <1>1 DEF Stored, Splitting, Quiet
  <1> QED
    BY <1>1, <1>2, <1>3, <1>5, <1>6, KeptMoves

LEMMA FillNextTree ==
    ASSUME TreeInv, ShapeInv', FillNext
    PROVE  Linked' /\ Kept'
  <1>1. /\ pc = "fill" /\ UNCHANGED <<m_root, m_size, inserted, r_subNode>>
    BY DEF FillNext
  <1>2. OccupiedInv /\ ShapeInv /\ Linked /\ Kept
    BY DEF TreeInv, OccupiedInv
  <1>3. /\ pc' = "fill" /\ UNCHANGED t_node /\ Nodes' = Nodes
        /\ \E origin : Moves(origin, {}, {})
    BY <1>2, FillNextMoves
  <1>4. PICK origin : Moves(origin, {}, {})
    BY <1>3
  <1>5. Roots' = Roots
    BY <1>1, <1>3 DEF Roots, Pending
  <1>6. Linked'
    BY <1>1, <1>2, <1>3, <1>4, <1>5, StillLinked DEF Dead
  <1>7. Stored /\ ~ Quiet' /\ pc' # "insert" /\ ~ Splitting'
    BY <1>1, <1>3 DEF Stored, Splitting, Quiet
  <1> QED
    BY <1>1, <1>2, <1>4, <1>6, <1>7, KeptMoves

\* Every entry was copied back, and the sibling waits to be linked.
LEMMA FillDoneTree ==
    ASSUME TreeInv, ShapeInv', FillDone
    PROVE  Linked' /\ Kept'
  <1>1. /\ pc = "fill" /\ pc' = "return" /\ next = Size /\ heap' = heap
        /\ m_nodeBuffer' = t_node /\ splited'
        /\ UNCHANGED <<m_root, m_size, inserted, r_subNode>>
    BY DEF FillDone
  <1>2. Buffered = {} /\ Buffered' = {}
    BY <1>1, SlotFacts DEF Buffered, Splitting
  <1>3. Roots' = Roots
    BY <1>1 DEF Roots, Pending
  <1>4. Stored /\ ~ Quiet' /\ pc' # "insert" /\ ~ Splitting' /\ ~ Dead
    BY <1>1 DEF Stored, Splitting, Quiet, Dead
  <1> QED
    BY <1>1, <1>2, <1>3, <1>4, StillTree

\* One box grows, around a child, so around no entry of a leaf.
LEMMA ReturnUnsplitTree ==
    ASSUME TreeInv, ShapeInv', ReturnUnsplit
    PROVE  Linked' /\ Kept'
  <1>1. /\ pc = "return" /\ pc' = pc /\ ~ splited /\ splited' = splited
        /\ UNCHANGED <<m_root, m_size, m_nodeBuffer, inserted, r_subNode>>
    BY DEF ReturnUnsplit
  <1>2. ShapeInv /\ Linked /\ Kept
    BY DEF TreeInv, OccupiedInv
  <1>3. PICK home : /\ Nodes' = Nodes /\ held(home).m_data = NoData
                    /\ Moves([h \in Homes |-> h], {}, {home})
    BY <1>2, ReturnUnsplitMoves
  <1>4. Roots' = Roots
    BY <1>1 DEF Roots, Pending
  <1>5. Linked'
    BY <1>1, <1>2, <1>3, <1>4, StillLinked DEF Dead
  <1>6. Stored /\ ~ Quiet' /\ pc' # "insert" /\ ~ Splitting'
    BY <1>1 DEF Stored, Splitting, Quiet
  <1> QED
    BY <1>1, <1>2, <1>3, <1>5, <1>6, KeptMoves

\* The sibling of the child becomes an entry of the caller, or of the buffer.
LEMMA ReturnSplitMoves ==
    ASSUME ShapeInv, ShapeInv', ReturnSplit
    PROVE  /\ caller.p_node \in Nodes /\ Len(heap') = Len(heap)
           /\ (pc' = "return" /\ splited' = FALSE) \/ pc' = "seed"
           /\ \E x, e, at_ :
                /\ x \notin Homes /\ Homes' = Homes \cup {x} /\ held(x)' = e
                /\ Lands(x, caller.p_node)
                /\ Moves([k \in Homes |-> k], {x}, {at_})
                /\ at_ = <<caller.p_node, caller.index>> /\ held(at_).m_data = NoData
                /\ Splitting' => t_overflowBuffer'[MaxChildren] = e
                /\ e.m_child = m_nodeBuffer /\ e.m_data = NoData
  <1> DEFINE h == WithBox(heap, caller.p_node, caller.index, NodeCover(heap, p_node))
             entry == [m_box |-> NodeCover(heap, m_nodeBuffer),
                       m_child |-> m_nodeBuffer, m_data |-> NoData]
             home == <<caller.p_node, caller.index>>
  <1>1. /\ pc = "return" /\ splited /\ frames # <<>>
        /\ AddSubNode(h, entry, caller.p_node)
        /\ UNCHANGED <<m_root, m_size, m_nodeBuffer, inserted, r_subNode>>
    BY DEF ReturnSplit
  <1>2. /\ ShapeInv /\ TypeOK /\ Path /\ Shape /\ Pending /\ Active
        /\ heap \in Seq(Node)
    BY <1>1 DEF ShapeInv, Shape, Active, Pending, TypeOK
  <1>3. /\ caller.p_node \in Nodes /\ caller.index \in Slots /\ held(home).m_data = NoData
    BY <1>1, <1>2, PathCaller, CallerHome
  <1>4. /\ NodeCover(heap, p_node) \in Box /\ entry \in SubNode
        /\ m_nodeBuffer \in Nodes /\ height(m_nodeBuffer) = height(p_node)
    BY <1>1, <1>2, SiblingEntry
  <1>5. /\ h \in Seq(Node) /\ Len(h) = Len(heap)
        /\ \A n \in Nodes :
             /\ h[n].m_csize = csize(n)
             /\ \A s \in Slots :
                  /\ h[n].m_subNodes[s].m_child = sub(n, s).m_child
                  /\ h[n].m_subNodes[s].m_data = sub(n, s).m_data
                  /\ <<n, s>> \notin {home} =>
                       h[n].m_subNodes[s].m_box = sub(n, s).m_box
    <2>1. PICK n \in 1 .. Len(heap), s \in Slots : n = caller.p_node /\ s = caller.index
      BY <1>3 DEF Nodes
    <2>2. PICK box \in Box : box = NodeCover(heap, p_node)
      BY <1>4
    <2>3. /\ h \in Seq(Node) /\ Len(h) = Len(heap)
          /\ \A k \in 1 .. Len(heap) : /\ h[k].m_csize = heap[k].m_csize
                                       /\ k # n => h[k] = heap[k]
          /\ \A r \in Slots :
               /\ r # s => h[n].m_subNodes[r] = heap[n].m_subNodes[r]
               /\ h[n].m_subNodes[r].m_child = heap[n].m_subNodes[r].m_child
               /\ h[n].m_subNodes[r].m_data = heap[n].m_subNodes[r].m_data
      <3>1. h = WithBox(heap, n, s, box)
        BY <2>1, <2>2
      <3>2. heap \in Seq(Node)
        BY <1>2
      <3>3. PICK g : g = WithBox(heap, n, s, box)
        OBVIOUS
      <3>4. /\ g \in Seq(Node) /\ Len(g) = Len(heap)
            /\ \A k \in 1 .. Len(heap) : /\ g[k].m_csize = heap[k].m_csize
                                         /\ k # n => g[k] = heap[k]
            /\ \A r \in Slots :
                 /\ r # s => g[n].m_subNodes[r] = heap[n].m_subNodes[r]
                 /\ g[n].m_subNodes[r].m_child = heap[n].m_subNodes[r].m_child
                 /\ g[n].m_subNodes[r].m_data = heap[n].m_subNodes[r].m_data
        BY <3>2, <3>3, WithBoxHeap
      <3> HIDE DEF h
      <3> QED
        BY <3>1, <3>3, <3>4
    <2>4. home = <<n, s>>
      BY <2>1
    <2> HIDE DEF h, home
    <2> QED
      BY <2>3, <2>4 DEF csize, sub, Nodes
  <1>6. PICK e \in SubNode : e = entry
    BY <1>4
  <1>7. e.m_child = m_nodeBuffer /\ e.m_data = NoData
    BY <1>6
  <1>8. PICK at_ : at_ = home
    OBVIOUS
  <1> HIDE DEF h, entry, home
  <1>9. PICK x : /\ x \notin Homes /\ Homes' = Homes \cup {x} /\ held(x)' = e
                 /\ Lands(x, caller.p_node)
                 /\ Moves([k \in Homes |-> k], {x}, {at_})
                 /\ Splitting' => t_overflowBuffer'[MaxChildren] = e
    <2>1. PICK g \in Seq(Node), n \in Nodes : g = h /\ n = caller.p_node
      BY <1>3, <1>5
    <2>2. AddSubNode(g, e, n) /\ pc \in {"insert", "return"} /\ Len(g) = Len(heap)
      BY <1>1, <1>5, <1>6, <2>1
    <2>3. \A k \in Nodes :
            /\ g[k].m_csize = csize(k)
            /\ \A s \in Slots :
                 /\ g[k].m_subNodes[s].m_child = sub(k, s).m_child
                 /\ g[k].m_subNodes[s].m_data = sub(k, s).m_data
                 /\ <<k, s>> \notin {at_} =>
                      g[k].m_subNodes[s].m_box = sub(k, s).m_box
      BY <1>5, <1>8, <2>1
    <2>4. \E x : /\ x \notin Homes /\ Homes' = Homes \cup {x} /\ held(x)' = e
                 /\ Lands(x, n)
                 /\ Moves([k \in Homes |-> k], {x}, {at_})
                 /\ Splitting' => t_overflowBuffer'[MaxChildren] = e
      BY <1>2, <2>2, <2>3, AddSubNodeMoves, ZenonT(40)
    <2> QED
      BY <2>1, <2>4
  <1>10. /\ Len(heap') = Len(heap)
         /\ (pc' = "return" /\ splited' = FALSE) \/ pc' = "seed"
    BY <1>1, <1>3, <1>4, <1>5, AddSubNodeSizes DEF Nodes
  <1>11. at_ = <<caller.p_node, caller.index>> /\ held(at_).m_data = NoData
    BY <1>3, <1>8 DEF home
  <1> QED
    BY <1>3, <1>7, <1>9, <1>10, <1>11

\* The entry of a sibling leads to a node that was a root until then.
LEMMA ReturnSplitTree ==
    ASSUME TreeInv, ShapeInv', ReturnSplit
    PROVE  Linked' /\ Kept'
  <1>1. /\ pc = "return" /\ splited /\ frames # <<>>
        /\ UNCHANGED <<m_root, m_size, m_nodeBuffer, inserted, r_subNode>>
    BY DEF ReturnSplit
  <1>2. /\ ShapeInv /\ TypeOK /\ Path /\ Shape /\ Pending /\ Active /\ Linked /\ Kept
        /\ heap \in Seq(Node)
    BY <1>1 DEF TreeInv, OccupiedInv, ShapeInv, Shape, Active, Pending, TypeOK
  <1>3. m_nodeBuffer \in Nodes /\ height(m_nodeBuffer) = height(p_node)
    BY <1>1, <1>2, SiblingEntry
  <1>4. PICK x, e, at_ :
          /\ x \notin Homes /\ Homes' = Homes \cup {x} /\ held(x)' = e
          /\ Moves([k \in Homes |-> k], {x}, {at_})
          /\ Splitting' => t_overflowBuffer'[MaxChildren] = e
          /\ held(at_).m_data = NoData
          /\ e.m_child = m_nodeBuffer /\ e.m_data = NoData
    BY <1>2, ReturnSplitMoves
  <1>5. /\ Len(heap') = Len(heap)
        /\ (pc' = "return" /\ splited' = FALSE) \/ pc' = "seed"
    BY <1>2, ReturnSplitMoves
  <1>6. m_nodeBuffer # m_root
    <2>1. /\ height(m_root) > height(p_node)
      <3>1. frames[1].p_node = m_root /\ 1 \in DOMAIN frames
        BY <1>1, <1>2, PathAbove, FramesFacts, FrameFields DEF TypeOK
      <3> QED
        BY <1>1, <1>2, <3>1, PathAbove
    <2> QED
      BY <1>2, <1>3, <2>1, FrameFields DEF Path
  <1>7. /\ Nodes' = Nodes /\ Roots = {m_root, m_nodeBuffer} /\ Roots' = {m_root}
    BY <1>1, <1>2, <1>5 DEF Nodes, Roots, Pending
  <1>8. Linked'
    BY <1>1, <1>2, <1>3, <1>4, <1>6, <1>7, LinkedMoves DEF Dead
  <1>9. Stored /\ ~ Quiet' /\ pc' # "insert"
    BY <1>1, <1>5 DEF Stored, Splitting, Quiet
  <1> QED
    BY <1>1, <1>2, <1>4, <1>8, <1>9, KeptMoves

\* The tree with the new entry is the one the next insertion starts from.
LEMMA FinishTree ==
    ASSUME TreeInv, ShapeInv', Finish
    PROVE  Linked' /\ Kept'
  <1>1. /\ pc = "return" /\ pc' = "idle" /\ frames = <<>> /\ splited' = FALSE
        /\ m_size' = m_size + 1 /\ m_nodeBuffer' = m_nodeBuffer
        /\ inserted' = Append(inserted, r_subNode.m_box)
    BY DEF Finish
  <1>2. /\ ShapeInv /\ ShapeInv' /\ TypeOK /\ TypeOK' /\ Linked /\ Kept
        /\ m_size \in Nat /\ inserted \in Seq(Box) /\ r_subNode.m_box \in Box
        /\ m_root \in Nodes
    BY NodeFields, MaxInsertsAssumption
    DEF TreeInv, OccupiedInv, ShapeInv, TypeOK
  <1>3. PICK Extra :
          /\ Homes' = Homes \cup Extra /\ Extra \cap Homes = {}
          /\ \A h \in Homes : held(h)' = held(h)
          /\ \A h \in Extra : held(h)'.m_data = NoData
          /\ Linked'
    <2>1. CASE splited
      <3>1. PICK new :
              /\ Nodes' = Nodes \cup {new} /\ new \notin Nodes /\ new = Len(heap) + 1
              /\ held(<<new, 0>>)' = childEntry(m_root)
              /\ held(<<new, 1>>)' = childEntry(m_nodeBuffer)
              /\ {<<new, 0>>, <<new, 1>>} \cap Homes = {}
              /\ Homes' = Homes \cup {<<new, 0>>, <<new, 1>>}
              /\ \A k \in Homes : held(k)' = held(k)
              /\ Moves([h \in Homes |-> h], {<<new, 0>>, <<new, 1>>}, {})
        BY <1>2, <2>1, FinishMoves
      <3>2. /\ Roots = {m_root, m_nodeBuffer} /\ Roots' = {new}
            /\ m_root # m_nodeBuffer /\ m_nodeBuffer \in Nodes
        <4>1. Roots = {m_root, m_nodeBuffer} /\ Roots' = {m_root'}
          BY <1>1, <2>1 DEF Roots, Pending
        <4>2. m_root' = new
          BY <2>1, <3>1 DEF Finish
        <4>3. m_nodeBuffer \in Nodes /\ m_nodeBuffer # p_node
          BY <1>1, <1>2, <2>1 DEF ShapeInv, Shape, Pending
        <4>4. p_node = m_root
          BY <1>1, <1>2, PathAbove DEF ShapeInv, Shape, Active
        <4> QED
          BY <4>1, <4>2, <4>3, <4>4
      <3>3. PICK h \in {<<new, 0>>}, k \in {<<new, 1>>} :
              /\ h = <<new, 0>> /\ k = <<new, 1>>
              /\ held(h)' = childEntry(m_root) /\ held(k)' = childEntry(m_nodeBuffer)
        BY <3>1
      <3>4. /\ held(h)'.m_child = m_root /\ held(k)'.m_child = m_nodeBuffer
            /\ held(h)'.m_data = NoData /\ held(k)'.m_data = NoData
        BY <3>3 DEF childEntry
      <3>5. Linked'
        <4>1. PICK origin, X : X = {h, k} /\ Moves(origin, X, {})
          BY <3>1, <3>3
        <4>2. \A e \in X : held(e)'.m_child \in (Roots \cup {nullptr}) \ Roots'
          BY <3>1, <3>2, <3>4, <4>1, <1>2
        <4>3. \A d, e \in X : held(d)'.m_child = held(e)'.m_child => d = e
          BY <3>2, <3>4, <4>1
        <4>4. \A n \in Nodes' \ Roots' : \/ n \in Nodes \ Roots
                                         \/ \E e \in X : held(e)'.m_child = n
          BY <3>1, <3>2, <3>4, <4>1
        <4>5. \A n \in Roots' : n \in Roots \/ n \notin Nodes
          BY <3>1, <3>2
        <4> HIDE DEF Moves, held
        <4> QED
          BY <1>1, <1>2, <4>1, <4>2, <4>3, <4>4, <4>5, LinkedMoves DEF Dead
      <3> QED
        BY <3>1, <3>3, <3>4, <3>5
    <2>2. CASE ~ splited
      <3>1. heap' = heap /\ m_root' = m_root
        BY <2>2 DEF Finish
      <3>2. Buffered = {} /\ Buffered' = {} /\ Roots' = Roots /\ Nodes' = Nodes
        BY <1>1, <2>2, <3>1 DEF Buffered, Splitting, Roots, Pending, Nodes
      <3>3. /\ Homes' = Homes /\ \A h \in Homes : held(h)' = held(h)
            /\ Moves([h \in Homes |-> h], {}, {})
        BY <1>2, <3>1, <3>2, SameHomes
      <3>4. Linked'
        BY <1>1, <1>2, <3>2, <3>3, StillLinked DEF Dead
      <3> QED
        BY <3>3, <3>4
    <2> QED
      BY <2>1, <2>2
  <1>4. /\ Len(inserted') = Len(inserted) + 1 /\ inserted'[m_size + 1] = r_subNode.m_box
        /\ \A k \in 1 .. m_size : inserted'[k] = inserted[k]
    BY <1>1, <1>2 DEF Kept
  <1>5. Stored /\ ~ Quiet /\ ~ Splitting' /\ ~ Stored' /\ pc # "insert"
    BY <1>1 DEF Stored, Splitting, Quiet
  <1>6. /\ \A h, k \in Homes' : held(h)'.m_data = held(k)'.m_data
                                  /\ held(h)'.m_data # NoData => h = k
    BY <1>2, <1>3 DEF Kept
  <1>7. \A k \in 1 .. m_size + 1 : \E h \in Homes' : held(h)'.m_data = k
    <2>1. \A k \in 1 .. m_size + 1 : k \in 1 .. m_size \/ k = m_size + 1
      BY <1>2
    <2> QED
      BY <1>2, <1>3, <1>5, <2>1 DEF Kept
  <1>8. ASSUME NEW h \in Homes'
        PROVE  /\ held(h)'.m_data <= m_size + 1
               /\ held(h)'.m_data \in 1 .. m_size + 1 =>
                    held(h)'.m_box = inserted'[held(h)'.m_data]
    <2>1. CASE h \in Extra
      BY <1>2, <1>3, <2>1 DEF NoData
    <2>2. CASE h \in Homes
      <3>1. held(h)' = held(h)
        BY <1>3, <2>2
      <3>2. /\ held(h).m_data <= m_size + 1
            /\ held(h).m_data = m_size + 1 => held(h).m_box = r_subNode.m_box
            /\ held(h).m_data \in 1 .. m_size =>
                 held(h).m_box = inserted[held(h).m_data]
        BY <1>2, <2>2 DEF Kept
      <3>3. held(h).m_data \in 1 .. m_size + 1 =>
              held(h).m_data \in 1 .. m_size \/ held(h).m_data = m_size + 1
        BY <1>2
      <3> QED
        BY <1>4, <3>1, <3>2, <3>3
    <2> QED
      BY <1>3, <2>1, <2>2
  <1>9. \A h \in Homes' : held(h)'.m_data <= m_size + 2 /\ held(h)'.m_data # m_size + 2
    <2>1. \A h \in Homes' : held(h)'.m_data \in Nat
      BY <1>2, HomeFactsNext, NodeFields DEF HomesTyped
    <2> QED
      BY <1>2, <1>8, <2>1
  <1>10. m_size' \in Nat /\ m_size' + 1 = m_size + 2
    BY <1>1, <1>2
  <1> HIDE DEF held, Homes
  <1>11. Kept'
    BY <1>1, <1>2, <1>4, <1>5, <1>6, <1>7, <1>8, <1>9, <1>10 DEF Kept
  <1> QED
    BY <1>3, <1>11

\* Every step keeps every node linked and every entry in its home.
LEMMA NextTree == TreeInv /\ [Next]_vars => TreeInv'
  <1> SUFFICES ASSUME TreeInv, [Next]_vars PROVE Linked' /\ Kept'
    BY NextOccupied DEF TreeInv
  <1>1. OccupiedInv /\ OccupiedInv' /\ ShapeInv /\ ShapeInv' /\ TypeOK
    BY NextOccupied DEF TreeInv, OccupiedInv, ShapeInv
  <1>2. ASSUME UNCHANGED vars PROVE Linked' /\ Kept'
    <2>1. /\ UNCHANGED <<pc, t_overflowBuffer, heap, m_root, m_size, m_nodeBuffer,
                         inserted, r_subNode, splited, next>>
      BY <1>2 DEF vars, splitVars, indexVars, callVars
    <2>2. CASE Dead
      BY <1>1, <2>1, <2>2, DeadTree DEF Dead
    <2>3. CASE ~ Dead
      <3>1. Buffered' = Buffered /\ Roots' = Roots /\ Stored' = Stored
        BY <2>1 DEF Buffered, Splitting, Roots, Pending, t_node, Stored
      <3> QED
        BY <1>1, <2>1, <2>3, <3>1, StillTree DEF Quiet, Splitting
    <2> QED
      BY <2>2, <2>3
  <1>3. ASSUME NEW a_box \in Boxes, Insert(a_box) PROVE Linked' /\ Kept'
    BY <1>1, <1>3, InsertTree
  <1>4. CASE Descend
    <2>1. /\ pc = "insert" /\ pc' = pc
          /\ UNCHANGED <<heap, m_root, m_size, m_nodeBuffer, inserted, r_subNode>>
      BY <1>4 DEF Descend, indexVars
    <2>2. Buffered' = Buffered /\ Buffered = {} /\ Roots' = Roots /\ Stored' = Stored
      BY <2>1 DEF Buffered, Splitting, Roots, Pending, Stored
    <2> QED
      BY <1>1, <2>1, <2>2, StillTree DEF Quiet, Splitting, Dead
  <1>5. CASE DescendNowhere
    BY <1>1, <1>5, DeadTree
    DEF DescendNowhere, Dead, splitVars, indexVars, callVars
  <1>6. CASE AddToLeaf
    BY <1>1, <1>6, AddToLeafTree
  <1>7. CASE SplitStep /\ UNCHANGED <<indexVars, callVars>>
    <2>1. /\ UNCHANGED <<heap, m_root, m_size, m_nodeBuffer, inserted, r_subNode,
                         t_overflowBuffer>>
          /\ pc \in {"seed", "deal", "rest", "check"}
          /\ pc' \in {"deal", "rest", "check", "assigned", "aborted"}
      BY <1>7, SplitStepFrame DEF indexVars, callVars
    <2>2. CASE pc' = "aborted"
      BY <1>1, <2>1, <2>2, DeadTree DEF Dead
    <2>3. CASE pc' # "aborted"
      <3>1. Buffered' = Buffered /\ Roots' = Roots /\ Splitting /\ Stored
        BY <2>1, <2>3 DEF Buffered, Splitting, Roots, Pending, Stored
      <3> QED
        BY <1>1, <2>1, <2>3, <3>1, StillTree DEF Quiet, Dead
    <2> QED
      BY <2>2, <2>3
  <1>8. CASE AllocateSibling
    BY <1>1, <1>8, AllocateSiblingTree
  <1>9. CASE FillNext
    BY <1>1, <1>9, FillNextTree
  <1>10. CASE FillDone
    BY <1>1, <1>10, FillDoneTree
  <1>11. CASE ReturnUnsplit
    BY <1>1, <1>11, ReturnUnsplitTree
  <1>12. CASE ReturnSplit
    BY <1>1, <1>12, ReturnSplitTree
  <1>13. CASE DanglingRead
    BY <1>1, <1>13, DeadTree DEF DanglingRead, Dead, splitVars, indexVars, callVars
  <1>14. CASE Finish
    BY <1>1, <1>14, FinishTree
  <1>15. CASE Stopped
    BY <1>2, <1>15 DEF Stopped
  <1> QED
    BY <1>2, <1>3, <1>4, <1>5, <1>6, <1>7, <1>8, <1>9, <1>10, <1>11, <1>12,
       <1>13, <1>14, <1>15 DEF Next, InsertStep

\* The tree starts as one empty leaf.
LEMMA InitTree == Init => TreeInv
  <1> SUFFICES ASSUME Init PROVE TreeInv
    OBVIOUS
  <1>1. /\ heap = <<NewNode(0)>> /\ Len(heap) = 1 /\ m_root = 1 /\ pc = "idle"
        /\ m_size = 0 /\ inserted = <<>>
    BY DEF Init
  <1>2. OccupiedInv
    <2>1. Nodes = {1} /\ isLeaf(m_root)
      BY <1>1 DEF Nodes, isLeaf, NewNode
    <2> QED
      BY <1>1, <2>1, InitShape DEF OccupiedInv, Occupied, Pending
  <1>3. Homes = {} /\ Nodes = {1} /\ Roots = {1}
    <2>1. Nodes = {1} /\ \A s : s \notin Used(1)
      BY <1>1 DEF Nodes, Used, NewNode, Slots
    <2> QED
      BY <1>1, <2>1 DEF Homes, Places, Buffered, Splitting, Roots, Pending
  <1>4. Kept
    BY <1>1, <1>3 DEF Kept, Stored, Splitting
  <1>5. Linked
    BY <1>3 DEF Linked
  <1> QED
    BY <1>2, <1>4, <1>5 DEF TreeInv

LEMMA TreeInvariant == Spec => []TreeInv
  BY InitTree, NextTree, PTL DEF Spec

\* What Linked says between two calls.
LEMMA TreeLinks == TreeInv => NodesLinkedOnce
  <1> SUFFICES ASSUME TreeInv, pc = "idle", NEW n \in Nodes
               PROVE  Cardinality({p \in Places : at(p).m_child = n})
                        = IF n = m_root THEN 0 ELSE 1
    BY DEF NodesLinkedOnce
  <1>1. Linked /\ ChildrenTyped /\ HomesTyped
    BY HomeChildren, HomeFacts DEF TreeInv, OccupiedInv, ShapeInv
  <1>2. Roots = {m_root} /\ Homes = Places /\ \A h \in Homes : held(h) = at(h)
    <2>1. Buffered = {}
      BY DEF Buffered, Splitting
    <2>2. \A h \in Places : h[1] # 0
      BY DEF Places, Nodes
    <2> QED
      BY <2>1, <2>2 DEF Roots, Pending, Homes, held
  <1> DEFINE C == {p \in Places : at(p).m_child = n}
  <1>3. CASE n = m_root
    <2>1. C = {}
      BY <1>1, <1>2, <1>3 DEF Linked
    <2> QED
      BY <1>3, <2>1, FS_EmptySet
  <1>4. CASE n # m_root
    <2>1. PICK p \in Places : at(p).m_child = n
      BY <1>1, <1>2, <1>4 DEF Linked, Dead
    <2>2. n # nullptr
      BY <1>1, <1>2 DEF ChildrenTyped, Nodes, nullptr
    <2>3. C = {p}
      BY <1>1, <1>2, <2>1, <2>2 DEF Linked
    <2> QED
      BY <1>4, <2>3, FS_Singleton
  <1> QED
    BY <1>3, <1>4

\* Between two calls every node but the root is the child of exactly one place,
\* and the root of none: no insertion loses a node or stores it twice.
THEOREM SpatialLinks == Spec => []NodesLinkedOnce
  BY TreeLinks, TreeInvariant, PTL

\* An entry with a home is in one leaf, or in the buffer that is copied back.
LEMMA OneCopy ==
    ASSUME TreeInv, NEW k, k # NoData, \E h \in Homes : held(h).m_data = k,
           k # m_size + 1 \/ ~ Splitting
    PROVE  /\ Cardinality(CopiesInLeaves(k)) + Cardinality(CopiesInBuffer(k)) = 1
           /\ pc # "fill" => Cardinality(CopiesInLeaves(k)) = 1
  <1>1. Kept /\ HomesTyped
    BY HomeFacts DEF TreeInv, OccupiedInv, ShapeInv
  <1>2. PICK home \in Homes : held(home).m_data = k
    OBVIOUS
  <1>3. \A h \in Homes : held(h).m_data = k => h = home
    BY <1>1, <1>2 DEF Kept
  <1>4. \A h \in Places : h \in Homes /\ held(h) = at(h)
    BY DEF Places, Nodes, Homes, held
  <1>5. CASE home \in Places
    <2>1. CopiesInLeaves(k) = {home}
      BY <1>2, <1>3, <1>4, <1>5 DEF CopiesInLeaves
    <2>2. CopiesInBuffer(k) = {}
      <3> SUFFICES ASSUME NEW i \in CopiesInBuffer(k) PROVE FALSE
        OBVIOUS
      <3>1. i \in Buffered /\ t_overflowBuffer[i].m_data = k
        BY DEF CopiesInBuffer, Buffered, Splitting
      <3>2. <<0, i>> \in Homes /\ held(<<0, i>>).m_data = k
        BY <1>1, <3>1 DEF HomesTyped
      <3>3. home[1] # 0
        BY <1>5 DEF Places, Nodes
      <3> QED
        BY <1>3, <3>2, <3>3
    <2>3. Cardinality(CopiesInLeaves(k)) = 1
      BY <2>1, FS_Singleton
    <2>4. Cardinality(CopiesInBuffer(k)) = 0
      BY <2>2, FS_EmptySet
    <2> QED
      BY <2>3, <2>4
  <1>6. CASE home \notin Places
    <2>1. PICK i \in Buffered : home = <<0, i>>
      BY <1>6 DEF Homes
    <2>2. t_overflowBuffer[i].m_data = k
      BY <1>1, <1>2, <2>1 DEF HomesTyped
    <2>3. ~ Splitting
      BY <1>1, <2>1, <2>2 DEF Kept, Buffered
    <2>4. pc = "fill" /\ i \in Overflow /\ i >= next
      BY <2>1, <2>3 DEF Buffered
    <2>5. CopiesInLeaves(k) = {}
      BY <1>3, <1>4, <1>6 DEF CopiesInLeaves
    <2>6. CopiesInBuffer(k) = {i}
      <3>1. i \in CopiesInBuffer(k)
        BY <2>2, <2>4 DEF CopiesInBuffer
      <3>2. ASSUME NEW j \in CopiesInBuffer(k) PROVE j = i
        <4>1. j \in Buffered /\ t_overflowBuffer[j].m_data = k
          BY <2>4 DEF CopiesInBuffer, Buffered, Splitting
        <4>2. <<0, j>> \in Homes /\ held(<<0, j>>).m_data = k
          BY <1>1, <4>1 DEF HomesTyped
        <4> QED
          BY <1>3, <2>1, <4>2
      <3> QED
        BY <3>1, <3>2
    <2> QED
      BY <2>4, <2>5, <2>6, FS_EmptySet, FS_Singleton
  <1> QED
    BY <1>5, <1>6

\* What Kept says of the entries in the leaves and in the buffer.
LEMMA TreeEntries == TreeInv => EntriesKept
  <1> SUFFICES ASSUME TreeInv PROVE EntriesKept
    OBVIOUS
  <1>1. Kept /\ m_size \in Nat /\ HomesTyped
    BY HomeFacts, MaxInsertsAssumption DEF TreeInv, OccupiedInv, ShapeInv, TypeOK
  <1>2. \A h \in Places : h \in Homes /\ held(h) = at(h)
    BY DEF Places, Nodes, Homes, held
  <1>3. ASSUME NEW k \in 1 .. m_size
        PROVE  /\ Cardinality(CopiesInLeaves(k)) + Cardinality(CopiesInBuffer(k)) = 1
               /\ \A p \in CopiesInLeaves(k) : at(p).m_box = inserted[k]
    <2>1. k # NoData /\ k # m_size + 1
      BY <1>1 DEF NoData
    <2>2. \A p \in CopiesInLeaves(k) : at(p).m_box = inserted[k]
      BY <1>1, <1>2 DEF CopiesInLeaves, Kept
    <2> QED
      BY <1>1, <2>1, <2>2, OneCopy DEF Kept
  <1>4. pc = "return" => Cardinality(CopiesInLeaves(m_size + 1)) = 1
    <2> SUFFICES ASSUME pc = "return"
                 PROVE  Cardinality(CopiesInLeaves(m_size + 1)) = 1
      OBVIOUS
    <2>1. ~ Splitting /\ Stored /\ m_size + 1 # NoData
      BY <1>1 DEF Splitting, Stored, NoData
    <2>2. \E h \in Homes : held(h).m_data = m_size + 1
      BY <1>1, <2>1 DEF Kept
    <2> QED
      BY <2>1, <2>2, OneCopy
  <1>5. pc = "idle" => CopiesInLeaves(m_size + 1) = {}
    BY <1>1, <1>2 DEF CopiesInLeaves, Kept, Quiet
  <1> QED
    BY <1>3, <1>4, <1>5 DEF EntriesKept

\* At every step of every insertion each entry inserted before is stored once
\* and unaltered, and the new one is stored once when the insertion returns.
THEOREM SpatialEntries == Spec => []EntriesKept
  BY TreeEntries, TreeInvariant, PTL
-----------------------------------------------------------------------------
\* The boxes of the entries of node n in the heap h, and those in the buffer.
Boxed(h, n) == {h[n].m_subNodes[s].m_box : s \in {s \in Slots : s < h[n].m_csize}}
BufferBoxes == {boxOf(i) : i \in Overflow}

\* The entry that leads to the innermost activation may lag behind it.
Growing == pc # "insert" /\ frames # <<>>

\* Around which boxes that entry's box will be, once the new one is added.
Parts == IF Pending THEN Boxed(heap, p_node) \cup Boxed(heap, m_nodeBuffer)
         ELSE IF pc = "return" THEN Boxed(heap, p_node) ELSE BufferBoxes

\* Every other box is the smallest around the entries of the child.
Exact ==
    \A h \in Homes :
        held(h).m_child # nullptr /\ ~ (Growing /\ held(h).m_child = p_node) =>
            IsCover(held(h).m_box, Boxed(heap, held(h).m_child))

Lags ==
    Active /\ Growing =>
        IsCover(UnionBox(sub(caller.p_node, caller.index).m_box, r_subNode.m_box),
                Parts)

\* Each half has the boxes dealt to it so far.
Dealt(g) == {boxOf(i) : i \in Filled(g)}
Refilled ==
    pc = "fill" => Boxed(heap, p_node) = Dealt(0) /\ Boxed(heap, t_node) = Dealt(1)

\* A program that died in an activation died below the caller's entry.
DeadBelow ==
    Dead /\ frames # <<>> =>
        /\ <<caller.p_node, caller.index>> \in Homes
        /\ held(<<caller.p_node, caller.index>>).m_child = p_node

Covered == Exact /\ Lags /\ Refilled /\ DeadBelow

\* The boxes of a node are boxes, and NodeCover is the smallest around them.
LEMMA BoxedFacts ==
    ASSUME TypeOK, NEW n \in Nodes
    PROVE  /\ Boxed(heap, n) \in SUBSET Box
           /\ NodeCover(heap, n) \in Box
           /\ csize(n) >= 1 => IsCover(NodeCover(heap, n), Boxed(heap, n))
  <1> DEFINE boxes == {heap[n].m_subNodes[s].m_box : s \in 0 .. heap[n].m_csize - 1}
  <1>1. heap \in Seq(Node) /\ n \in 1 .. Len(heap) /\ heap[n].m_csize \in 0 .. MaxChildren
    BY FrameFields DEF Nodes, csize
  <1>2. {s \in Slots : s < heap[n].m_csize} = 0 .. heap[n].m_csize - 1
    BY <1>1, SlotFacts
  <1>3. Boxed(heap, n) = boxes
    BY <1>2 DEF Boxed
  <1>4. /\ NodeCover(heap, n) \in Box /\ boxes \in SUBSET Box
        /\ heap[n].m_csize >= 1 => IsCover(NodeCover(heap, n), boxes)
    BY <1>1, NodeCoverIsCover
  <1> QED
    BY <1>3, <1>4 DEF csize

\* A node takes one more box, and the others keep theirs.
LEMMA PlacedBoxes ==
    ASSUME NEW h \in Seq(Node), NEW n \in 1 .. Len(h), NEW entry \in SubNode,
           h[n].m_csize < MaxChildren
    PROVE  LET g == Placed(h, entry, n)
           IN /\ Boxed(g, n) = Boxed(h, n) \cup {entry.m_box}
              /\ \A k \in 1 .. Len(h) : k # n => Boxed(g, k) = Boxed(h, k)
  <1> DEFINE g == Placed(h, entry, n)
             last == h[n].m_csize
  <1>1. /\ \A k \in 1 .. Len(h) : k # n => g[k] = h[k]
        /\ g[n].m_csize = last + 1 /\ last \in Slots
        /\ g[n].m_subNodes[last] = entry
        /\ \A s \in Slots : s # last => g[n].m_subNodes[s] = h[n].m_subNodes[s]
    BY PlacedHeap
  <1> HIDE DEF g
  <1>2. \A s \in Slots : s < last + 1 <=> s < last \/ s = last
    BY <1>1, SlotFacts
  <1>3. Boxed(g, n) = Boxed(h, n) \cup {entry.m_box}
    <2>1. \A s \in Slots : s < last => s # last
      BY <1>1, SlotFacts
    <2>2. {s \in Slots : s < g[n].m_csize} = {s \in Slots : s < last} \cup {last}
      BY <1>1, <1>2
    <2> QED
      BY <1>1, <2>1, <2>2 DEF Boxed
  <1>4. \A k \in 1 .. Len(h) : k # n => Boxed(g, k) = Boxed(h, k)
    BY <1>1 DEF Boxed
  <1> QED
    BY <1>3, <1>4 DEF g

\* The box of one entry is replaced: the others stay beside it.
OtherBoxes(h, n, s) ==
    {h[n].m_subNodes[r].m_box : r \in {r \in Slots : r < h[n].m_csize /\ r # s}}

LEMMA WithBoxBoxes ==
    ASSUME NEW h \in Seq(Node), NEW n \in 1 .. Len(h), NEW s \in Slots,
           NEW b \in Box, s < h[n].m_csize
    PROVE  LET g == WithBox(h, n, s, b)
           IN /\ Boxed(h, n) = OtherBoxes(h, n, s) \cup {h[n].m_subNodes[s].m_box}
              /\ Boxed(g, n) = OtherBoxes(h, n, s) \cup {b}
              /\ \A k \in 1 .. Len(h) : k # n => Boxed(g, k) = Boxed(h, k)
  <1>0. PICK g : g = WithBox(h, n, s, b)
    OBVIOUS
  <1>1. /\ \A k \in 1 .. Len(h) : /\ g[k].m_csize = h[k].m_csize
                                  /\ k # n => g[k] = h[k]
        /\ \A r \in Slots : r # s => g[n].m_subNodes[r] = h[n].m_subNodes[r]
        /\ g[n].m_subNodes[s].m_box = b
    BY <1>0, WithBoxHeap
  <1>2. Boxed(h, n) = OtherBoxes(h, n, s) \cup {h[n].m_subNodes[s].m_box}
    BY DEF Boxed, OtherBoxes
  <1>3. Boxed(g, n) = OtherBoxes(h, n, s) \cup {b}
    BY <1>1 DEF Boxed, OtherBoxes
  <1>4. \A k \in 1 .. Len(h) : k # n => Boxed(g, k) = Boxed(h, k)
    BY <1>1 DEF Boxed
  <1> QED
    BY <1>0, <1>2, <1>3, <1>4

CoveredInv == TreeInv /\ Covered

\* Steps that leave every box as it is, new ones being exact, and every node's
\* boxes, except at the roots and below the innermost caller.
LEMMA ExactStill ==
    ASSUME ShapeInv, ShapeInv', Linked', Exact, NEW origin, NEW Extra,
           Moves(origin, Extra, {}),
           \A k \in Extra : \A n : n = held(k)'.m_child /\ n # nullptr =>
               IsCover(held(k)'.m_box, Boxed(heap', n)),
           Growing => Growing' /\ p_node' = p_node,
           \A n \in Nodes : \/ Boxed(heap', n) = Boxed(heap, n)
                            \/ n \in Roots'
                            \/ Growing' /\ n = p_node'
    PROVE  Exact'
  <1> SUFFICES ASSUME NEW h \in Homes', held(h)'.m_child # nullptr,
                      ~ (Growing' /\ held(h)'.m_child = p_node')
               PROVE  IsCover(held(h)'.m_box, Boxed(heap', held(h)'.m_child))
    BY DEF Exact
  <1>1. PICK n : n = held(h)'.m_child
    OBVIOUS
  <1>2. CASE h \in Extra
    BY <1>1, <1>2
  <1>3. CASE h \notin Extra
    <2>1. PICK k \in Homes : k = origin[h]
      BY <1>3 DEF Moves
    <2>2. held(k).m_child = n /\ held(h)'.m_box = held(k).m_box
      BY <1>1, <1>3, <2>1 DEF Moves
    <2>3. n \in Nodes /\ n # nullptr
      BY <1>1, <2>2, HomeChildren DEF ChildrenTyped
    <2>4. n \notin Roots'
      BY <1>1 DEF Linked
    <2>5. IsCover(held(k).m_box, Boxed(heap, n))
      BY <1>1, <2>2, <2>3 DEF Exact
    <2>6. Boxed(heap', n) = Boxed(heap, n)
      BY <1>1, <2>3, <2>4
    <2> QED
      BY <1>1, <2>2, <2>5, <2>6
  <1> QED
    BY <1>2, <1>3

\* Steps that leave the caller's entry and what is around it alone.
LEMMA LagsStill ==
    ASSUME Lags, Active' /\ Growing' => Active /\ Growing,
           UNCHANGED <<frames, r_subNode>>,
           frames # <<>> => heap'[caller.p_node] = heap[caller.p_node],
           Active' /\ Growing' => Parts' = Parts
    PROVE  Lags'
  <1> SUFFICES ASSUME Active', Growing' PROVE Lags'
    BY DEF Lags
  <1>1. caller' = caller /\ frames # <<>>
    BY DEF Growing, caller
  <1>2. sub(caller.p_node, caller.index)' = sub(caller.p_node, caller.index)
    BY <1>1 DEF sub
  <1> QED
    BY <1>1, <1>2 DEF Lags

\* The program stops for good.
LEMMA DeadCovered ==
    ASSUME CoveredInv, ShapeInv', Dead', pc # "fill",
           UNCHANGED <<heap, p_node, frames, t_overflowBuffer>>
    PROVE  Covered'
  <1>1. ShapeInv /\ TypeOK /\ Covered /\ pc' # "insert" /\ pc' # "fill" /\ ~ Active'
    BY DEF CoveredInv, TreeInv, OccupiedInv, ShapeInv, Dead, Active, Splitting
  <1>2. Homes' = Places /\ Places \subseteq Homes /\ \A h : held(h)' = held(h)
    <2>1. Buffered' = {}
      BY DEF Dead, Buffered, Splitting
    <2>2. Homes' = Places /\ Places \subseteq Homes
      BY <2>1 DEF Homes, Places, Nodes, Used
    <2>3. \A h : held(h)' = held(h)
      BY DEF held, at, sub
    <2> QED
      BY <2>2, <2>3
  <1>3. Exact'
    <2> SUFFICES ASSUME NEW h \in Homes', held(h)'.m_child # nullptr,
                        ~ (Growing' /\ held(h)'.m_child = p_node')
                 PROVE  IsCover(held(h)'.m_box, Boxed(heap', held(h)'.m_child))
      BY DEF Exact
    <2>1. h \in Homes /\ held(h)' = held(h) /\ (Growing => Growing')
      BY <1>1, <1>2 DEF Growing
    <2> QED
      BY <1>1, <2>1 DEF Covered, Exact
  <1>4. DeadBelow'
    <2> SUFFICES ASSUME frames # <<>>
                 PROVE  /\ <<caller.p_node, caller.index>> \in Places
                        /\ held(<<caller.p_node, caller.index>>).m_child = p_node
      <3>1. caller' = caller
        BY DEF caller
      <3> QED
        BY <1>2, <3>1 DEF DeadBelow
    <2>1. CASE Active
      <3>1. Path
        BY <1>1, <2>1 DEF ShapeInv, Shape
      <3>2. <<caller.p_node, caller.index>> \in Places
        BY <1>1, <3>1, PathCaller DEF Places
      <3> QED
        BY <1>1, <2>1, <3>2, CallerHome
    <2>2. CASE Dead
      <3>1. Homes = Places
        BY <2>2 DEF Homes, Dead, Buffered, Splitting
      <3> QED
        BY <1>1, <2>2, <3>1 DEF Covered, DeadBelow
    <2>3. ~ Quiet
      BY <1>1 DEF ShapeInv, Shape
    <2> QED
      BY <1>1, <2>1, <2>2, <2>3 DEF TypeOK, Active, Splitting, Dead, Quiet
  <1> QED
    BY <1>1, <1>3, <1>4 DEF Covered, Lags, Refilled

\* Steps that change neither the nodes nor the buffer, in a living program.
LEMMA StillCovered ==
    ASSUME CoveredInv, TreeInv', heap' = heap, Buffered' = Buffered,
           \A i \in Buffered : t_overflowBuffer'[i] = t_overflowBuffer[i],
           Growing => Growing' /\ p_node' = p_node, Lags', Refilled',
           DeadBelow'
    PROVE  Covered'
  <1>1. /\ ShapeInv /\ ShapeInv' /\ Linked' /\ Exact /\ TypeOK /\ TypeOK'
    BY DEF CoveredInv, TreeInv, OccupiedInv, ShapeInv, Covered
  <1>2. Moves([h \in Homes |-> h], {}, {})
    BY <1>1, SameHomes
  <1>3. Exact'
    BY <1>1, <1>2, ExactStill
  <1> QED
    BY <1>3 DEF Covered

\* The boxes around the node that takes an entry, or is split by it.
LEMMA AddSubNodeBoxes ==
    ASSUME NEW h \in Seq(Node), NEW n \in 1 .. Len(h), NEW entry \in SubNode,
           AddSubNode(h, entry, n)
    PROVE  /\ \A k \in 1 .. Len(h) : k # n => Boxed(heap', k) = Boxed(h, k)
           /\ \/ /\ pc' = "return" /\ splited' = FALSE
                 /\ Boxed(heap', n) = Boxed(h, n) \cup {entry.m_box}
              \/ /\ pc' = "seed"
                 /\ BufferBoxes' = Boxed(h, n) \cup {entry.m_box}
  <1>1. CASE h[n].m_csize < MaxChildren
    <2>1. heap' = Placed(h, entry, n) /\ pc' = "return" /\ splited' = FALSE
      BY <1>1 DEF AddSubNode
    <2> QED
      BY <1>1, <2>1, PlacedBoxes
  <1>2. CASE ~ (h[n].m_csize < MaxChildren)
    <2>1. /\ heap' = h /\ pc' = "seed"
          /\ t_overflowBuffer' = [i \in Overflow |->
               IF i < MaxChildren THEN h[n].m_subNodes[i] ELSE entry]
      BY <1>2 DEF AddSubNode, StartSplit
    <2>2. h[n] \in Node
      OBVIOUS
    <2>3. h[n].m_csize = MaxChildren
      BY <1>2, <2>2, NodeFields, SlotFacts
    <2>4. {s \in Slots : s < h[n].m_csize} = Slots
      BY <2>3, SlotFacts
    <2>5. /\ \A i \in Slots : t_overflowBuffer'[i] = h[n].m_subNodes[i]
          /\ t_overflowBuffer'[MaxChildren] = entry
          /\ Overflow = Slots \cup {MaxChildren}
      BY <2>1, SlotFacts
    <2>6. BufferBoxes' = {t_overflowBuffer'[i].m_box : i \in Overflow}
      BY DEF BufferBoxes, boxOf
    <2>7. Boxed(h, n) = {h[n].m_subNodes[s].m_box : s \in Slots}
      BY <2>4 DEF Boxed
    <2>8. BufferBoxes' = Boxed(h, n) \cup {entry.m_box}
      BY <2>5, <2>6, <2>7
    <2> QED
      BY <2>1, <2>8
  <1> QED
    BY <1>1, <1>2

\* The leaf takes the new entry, and the boxes above it lag behind.
LEMMA AddToLeafCovered ==
    ASSUME CoveredInv, TreeInv', AddToLeaf
    PROVE  Covered'
  <1>1. /\ pc = "insert" /\ AddSubNode(heap, r_subNode, p_node)
        /\ UNCHANGED <<m_root, r_subNode, p_node, frames>>
    BY DEF AddToLeaf
  <1>2. /\ ShapeInv /\ ShapeInv' /\ Linked' /\ Exact /\ TypeOK /\ Path /\ NewEntry
        /\ p_node \in Nodes /\ r_subNode \in SubNode /\ heap \in Seq(Node) /\ Active
        /\ Occupied
    BY <1>1
    DEF CoveredInv, TreeInv, OccupiedInv, ShapeInv, Shape, Active, Path, TypeOK, Covered
  <1>3. PICK e \in SubNode, n \in 1 .. Len(heap) : e = r_subNode /\ n = p_node
    BY <1>2 DEF Nodes
  <1>4. /\ \A k \in 1 .. Len(heap) : k # n => Boxed(heap', k) = Boxed(heap, k)
        /\ \/ /\ pc' = "return" /\ splited' = FALSE
              /\ Boxed(heap', n) = Boxed(heap, n) \cup {e.m_box}
           \/ /\ pc' = "seed"
              /\ BufferBoxes' = Boxed(heap, n) \cup {e.m_box}
    BY <1>1, <1>2, <1>3, AddSubNodeBoxes
  <1>5. pc' \in {"return", "seed"} /\ ~ Growing
    BY <1>1, <1>4 DEF Growing
  <1>6. PICK x : /\ held(x)' = e /\ Moves([k \in Homes |-> k], {x}, {})
    <2>1. \A k \in Nodes :
            /\ heap[k].m_csize = csize(k)
            /\ \A s \in Slots :
                 /\ heap[k].m_subNodes[s].m_child = sub(k, s).m_child
                 /\ heap[k].m_subNodes[s].m_data = sub(k, s).m_data
                 /\ <<k, s>> \notin {} => heap[k].m_subNodes[s].m_box = sub(k, s).m_box
      BY DEF csize, sub
    <2> QED
      BY <1>1, <1>2, <1>3, <2>1, AddSubNodeMoves
  <1>7. Exact'
    <2>1. e.m_child = nullptr
      BY <1>2, <1>3 DEF NewEntry
    <2>2. n \in Roots' \/ (Growing' /\ n = p_node')
      BY <1>1, <1>2, <1>3, <1>5, PathAbove DEF Roots, Growing
    <2>3. \A k \in Nodes : \/ Boxed(heap', k) = Boxed(heap, k)
                           \/ k \in Roots' \/ (Growing' /\ k = p_node')
      BY <1>4, <2>2 DEF Nodes
    <2> QED
      BY <1>2, <1>5, <1>6, <2>1, <2>3, ExactStill
  <1>8. Lags'
    <2> SUFFICES ASSUME frames # <<>>
                 PROVE  IsCover(UnionBox(sub(caller.p_node, caller.index)'.m_box,
                                         e.m_box), Parts')
      <3>1. caller' = caller /\ (frames' # <<>> <=> frames # <<>>)
        BY <1>1 DEF caller
      <3> QED
        BY <1>1, <1>3, <3>1 DEF Lags, Growing
    <2>1. /\ caller.p_node \in Nodes /\ caller.index \in Slots /\ caller.p_node # p_node
          /\ <<caller.p_node, caller.index>> \in Homes
          /\ held(<<caller.p_node, caller.index>>) = sub(caller.p_node, caller.index)
          /\ held(<<caller.p_node, caller.index>>).m_child = p_node
      BY <1>2, PathCaller, CallerHome
    <2>2. PICK b : b = sub(caller.p_node, caller.index).m_box
      OBVIOUS
    <2>3. IsCover(b, Boxed(heap, n))
      <3>1. p_node # nullptr
        BY <1>2 DEF Nodes, nullptr
      <3> QED
        BY <1>2, <1>3, <1>5, <2>1, <2>2, <3>1 DEF Exact
    <2>4. sub(caller.p_node, caller.index)'.m_box = b
      <3>1. caller' = caller
        BY <1>1 DEF caller
      <3>2. PICK c \in Nodes, s \in Slots : c = caller.p_node /\ s = caller.index
        BY <2>1
      <3>3. heap'[c] = heap[c]
        <4>1. CASE heap[n].m_csize < MaxChildren
          BY <1>1, <1>2, <1>3, <2>1, <3>2, <4>1, PlacedHeap DEF AddSubNode, Nodes
        <4>2. CASE ~ (heap[n].m_csize < MaxChildren)
          BY <1>1, <1>3, <4>2 DEF AddSubNode
        <4> QED
          BY <4>1, <4>2
      <3> QED
        BY <2>2, <3>1, <3>2, <3>3 DEF sub
    <2>5. Parts' = Boxed(heap, n) \cup {e.m_box}
      <3>1. CASE pc' = "return"
        BY <1>1, <1>3, <1>4, <3>1 DEF Parts, Pending
      <3>2. CASE pc' = "seed"
        BY <1>4, <3>2 DEF Parts, Pending
      <3> QED
        BY <1>5, <3>1, <3>2
    <2>6. e.m_box \in Box /\ Boxed(heap, n) \in SUBSET Box
      BY <1>2, <1>3, NodeFields, BoxedFacts
    <2>7. IsCover(UnionBox(b, e.m_box), Boxed(heap, n) \cup {e.m_box})
      BY <2>3, <2>6, CoverOfOne, CoverOfUnion
    <2> QED
      BY <2>4, <2>5, <2>7
  <1> QED
    BY <1>5, <1>7, <1>8 DEF Covered, Refilled, DeadBelow, Dead

\* The node is emptied: what it held is dealt out again from the buffer.
LEMMA AllocateSiblingCovered ==
    ASSUME CoveredInv, TreeInv', AllocateSibling
    PROVE  Covered'
  <1>1. /\ pc = "assigned" /\ pc' = "fill" /\ next' = 0
        /\ heap' = Append([heap EXCEPT ![p_node].m_csize = 0],
                          NewNode(height(p_node)))
        /\ UNCHANGED <<t_overflowBuffer, m_root, r_subNode, p_node, frames>>
    BY DEF AllocateSibling, splitVars, height
  <1>2. /\ ShapeInv /\ ShapeInv' /\ Linked' /\ Covered /\ Exact /\ TypeOK /\ Path
        /\ p_node \in Nodes /\ heap \in Seq(Node) /\ height(p_node) \in Nat
    BY <1>1, FrameFields
    DEF CoveredInv, TreeInv, OccupiedInv, ShapeInv, Shape, Active, Splitting, Path,
        TypeOK, Covered
  <1>3. PICK n \in 1 .. Len(heap) : n = p_node
    BY <1>2 DEF Nodes
  <1>4. /\ Len(heap') = Len(heap) + 1 /\ Len(heap) \in Nat
        /\ \A k \in 1 .. Len(heap) : k # n => heap'[k] = heap[k]
        /\ heap'[n].m_csize = 0 /\ heap'[Len(heap) + 1] = NewNode(height(p_node))
    BY <1>1, <1>2, <1>3, SplitHeap
  <1>5. \A k \in Nodes : k # n => Boxed(heap', k) = Boxed(heap, k)
    BY <1>4 DEF Boxed, Nodes
  <1>6. PICK origin : Moves(origin, {}, {})
    BY <1>2, AllocateSiblingMoves
  <1>7. Growing' = Growing /\ (Growing' <=> frames # <<>>) /\ Growing \in BOOLEAN
    BY <1>1 DEF Growing
  <1>8. Exact'
    <2>1. n \in Roots' \/ (Growing' /\ n = p_node')
      BY <1>1, <1>2, <1>3, <1>7, PathAbove DEF Roots
    <2>2. \A k \in Nodes : \/ Boxed(heap', k) = Boxed(heap, k)
                           \/ k \in Roots' \/ (Growing' /\ k = p_node')
      BY <1>5, <2>1
    <2>3. Growing => Growing' /\ p_node' = p_node
      BY <1>1 DEF Growing
    <2> QED
      BY <1>2, <1>6, <2>2, <2>3, ExactStill
  <1>9. Lags'
    <2>1. frames # <<>> => heap'[caller.p_node] = heap[caller.p_node]
      BY <1>2, <1>3, <1>4, PathCaller DEF Nodes
    <2>2. Parts' = Parts
      BY <1>1 DEF Parts, Pending, BufferBoxes, boxOf
    <2>3. Active
      BY <1>1 DEF Active, Splitting
    <2> QED
      BY <1>1, <1>2, <1>7, <2>1, <2>2, <2>3, LagsStill DEF Covered
  <1>10. Refilled'
    <2>1. \A k : heap'[k].m_csize = 0 => Boxed(heap', k) = {}
      BY SlotFacts DEF Boxed
    <2>2. t_node' = Len(heap) + 1 /\ heap'[t_node'].m_csize = 0 /\ heap'[p_node'].m_csize = 0
      BY <1>1, <1>3, <1>4 DEF t_node, NewNode
    <2>3. \A g \in {0, 1} : Dealt(g)' = {}
      BY <1>1, SlotFacts DEF Dealt, Filled, Members
    <2> QED
      BY <2>1, <2>2, <2>3 DEF Refilled
  <1> QED
    BY <1>1, <1>8, <1>9, <1>10 DEF Covered, DeadBelow, Dead

\* One more entry is copied back, with its box.
LEMMA FillNextCovered ==
    ASSUME CoveredInv, TreeInv', FillNext
    PROVE  Covered'
  <1>1. /\ pc = "fill" /\ next < Size /\ OccupiedInv
        /\ UNCHANGED <<t_overflowBuffer, m_groupAssign, m_root, m_nodeBuffer, splited,
                       r_subNode, p_node, frames>>
    BY DEF FillNext, splitVars, CoveredInv, TreeInv
  <1>2. /\ pc' = "fill" /\ next' = next + 1
        /\ heap' = Placed(heap, t_overflowBuffer[next], target(next))
        /\ heap[target(next)].m_csize < MaxChildren
    BY <1>1, FillFits DEF FillNext
  <1>3. /\ ShapeInv /\ ShapeInv' /\ Linked' /\ Covered /\ Exact /\ TypeOK /\ Path
        /\ p_node \in Nodes /\ heap \in Seq(Node) /\ next \in Overflow
        /\ t_overflowBuffer[next] \in SubNode /\ Unassigned = {} /\ t_node # p_node
        /\ height(t_node) = height(p_node) /\ t_node \in Nodes
    <2>1. /\ ShapeInv /\ ShapeInv' /\ Linked' /\ Covered /\ Exact /\ TypeOK /\ Path
          /\ p_node \in Nodes /\ heap \in Seq(Node) /\ Unassigned = {} /\ t_node # p_node
          /\ height(t_node) = height(p_node)
      BY <1>1
      DEF CoveredInv, TreeInv, OccupiedInv, ShapeInv, Shape, Active, Path, TypeOK,
          Covered, SplitCore, Buffer
    <2>2. next \in Overflow /\ t_overflowBuffer[next] \in SubNode
      BY <1>1, <2>1, SlotFacts DEF TypeOK, LocalsOK
    <2>3. t_node \in Nodes
      BY <2>1, FrameFields DEF t_node, Nodes
    <2> QED
      BY <2>1, <2>2, <2>3
  <1>4. PICK g \in {0, 1} : g = m_groupAssign[next]
    BY <1>3 DEF TypeOK, LocalsOK, Unassigned
  <1>5. PICK n \in 1 .. Len(heap), e \in SubNode, other \in Nodes :
          /\ n = target(next) /\ e = t_overflowBuffer[next]
          /\ other # n /\ {n, other} = {p_node, t_node}
          /\ n = (IF g = 0 THEN p_node ELSE t_node)
    BY <1>3, <1>4 DEF target, Nodes
  <1>6. /\ Boxed(heap', n) = Boxed(heap, n) \cup {e.m_box}
        /\ \A k \in 1 .. Len(heap) : /\ k # n => Boxed(heap', k) = Boxed(heap, k)
                                     /\ k # n => heap'[k] = heap[k]
    BY <1>2, <1>3, <1>5, PlacedBoxes, PlacedHeap
  <1>7. Growing' = Growing /\ (Growing' <=> frames # <<>>) /\ Growing \in BOOLEAN
    BY <1>1, <1>2 DEF Growing
  <1>8. /\ Nodes' = Nodes /\ t_node' = t_node /\ \E origin : Moves(origin, {}, {})
    BY <1>1, <1>3, FillNextMoves DEF FillNext
  <1>9. Exact'
    <2>1. PICK origin : Moves(origin, {}, {})
      BY <1>8
    <2>2. t_node \in Roots'
      BY <1>2, <1>8 DEF Roots
    <2>3. p_node \in Roots' \/ (Growing' /\ p_node = p_node')
      BY <1>1, <1>3, <1>7, PathAbove DEF Roots
    <2>4. \A k \in Nodes : \/ Boxed(heap', k) = Boxed(heap, k)
                           \/ k \in Roots' \/ (Growing' /\ k = p_node')
      BY <1>5, <1>6, <2>2, <2>3 DEF Nodes
    <2> QED
      BY <1>1, <1>3, <1>7, <2>1, <2>4, ExactStill
  <1>10. Lags'
    <2>1. ASSUME frames # <<>> PROVE heap'[caller.p_node] = heap[caller.p_node]
      <3>1. /\ caller.p_node \in Nodes /\ height(caller.p_node) = height(p_node) + 1
            /\ height(p_node) \in Nat
        BY <1>3, <2>1, PathCaller, FrameFields
      <3>2. caller.p_node # p_node /\ caller.p_node # t_node
        BY <1>3, <3>1
      <3> QED
        BY <1>5, <1>6, <3>1, <3>2 DEF Nodes
    <2>2. Parts' = Parts
      BY <1>1, <1>2 DEF Parts, Pending, BufferBoxes, boxOf
    <2>3. Active
      BY <1>1 DEF Active
    <2> QED
      BY <1>1, <1>3, <1>7, <2>1, <2>2, <2>3, LagsStill DEF Covered
  <1>11. Refilled'
    <2>1. \A d \in {0, 1} :
            Filled(d)' = IF d = g THEN Filled(d) \cup {next} ELSE Filled(d)
      <3>1. next \in Nat /\ \A i \in Overflow : i \in Nat /\ (i < next + 1 <=> i < next \/ i = next)
        BY <1>3, SlotFacts
      <3>2. \A d \in {0, 1} : \A i : i \in Filled(d)' <=> i \in Members(d) /\ i < next + 1
        BY <1>1, <1>2 DEF Filled, Members
      <3>3. \A d \in {0, 1} : /\ next \in Members(d) <=> d = g
                              /\ Members(d) \subseteq Overflow
        BY <1>3, <1>4 DEF Members
      <3>4. \A d \in {0, 1} : \A i : i \in Filled(d) <=> i \in Members(d) /\ i < next
        BY DEF Filled
      <3> HIDE DEF Filled
      <3> QED
        BY <3>1, <3>2, <3>3, <3>4
    <2>2. \A i : boxOf(i)' = boxOf(i)
      BY <1>1 DEF boxOf
    <2>3. e.m_box = boxOf(next)
      BY <1>5 DEF boxOf
    <2>4. \A d \in {0, 1} :
            Dealt(d)' = IF d = g THEN Dealt(d) \cup {e.m_box} ELSE Dealt(d)
      BY <2>1, <2>2, <2>3 DEF Dealt
    <2>5. Boxed(heap, p_node) = Dealt(0) /\ Boxed(heap, t_node) = Dealt(1)
      BY <1>1, <1>3 DEF Covered, Refilled
    <2>6. CASE g = 0
      <3>1. n = p_node /\ other = t_node
        BY <1>5, <2>6
      <3>2. Dealt(0)' = Dealt(0) \cup {e.m_box} /\ Dealt(1)' = Dealt(1)
        BY <2>4, <2>6
      <3>3. Boxed(heap', n) = Dealt(0)' /\ Boxed(heap', other) = Dealt(1)'
        BY <1>5, <1>6, <2>5, <3>1, <3>2 DEF Nodes
      <3> QED
        BY <1>1, <1>8, <3>1, <3>3 DEF Refilled
    <2>7. CASE g = 1
      <3>1. n = t_node /\ other = p_node
        BY <1>5, <2>7
      <3>2. Boxed(heap', n) = Dealt(1)' /\ Boxed(heap', other) = Dealt(0)'
        BY <1>5, <1>6, <2>4, <2>5, <2>7, <3>1 DEF Nodes
      <3> QED
        BY <1>1, <1>8, <3>1, <3>2 DEF Refilled
    <2> QED
      BY <2>6, <2>7
  <1> QED
    BY <1>2, <1>9, <1>10, <1>11 DEF Covered, DeadBelow, Dead

\* Both halves are filled, and hold together what the buffer holds.
LEMMA FillDoneCovered ==
    ASSUME CoveredInv, TreeInv', FillDone
    PROVE  Covered'
  <1>1. /\ pc = "fill" /\ next = Size /\ pc' = "return" /\ splited' /\ heap' = heap
        /\ m_nodeBuffer' = t_node /\ UNCHANGED <<p_node, frames, r_subNode>>
    BY DEF FillDone
  <1>2. /\ ShapeInv /\ Covered /\ TypeOK /\ Unassigned = {}
    BY <1>1 DEF CoveredInv, TreeInv, OccupiedInv, ShapeInv, SplitCore
  <1>3. Buffered = {} /\ Buffered' = {}
    BY <1>1, SlotFacts DEF Buffered, Splitting
  <1>4. Dealt(0) \cup Dealt(1) = BufferBoxes
    <2>1. \A i \in Overflow : i \in Nat /\ i < Size
      BY SlotFacts
    <2>2. \A i \in Overflow : m_groupAssign[i] \in {0, 1}
      BY <1>2 DEF TypeOK, LocalsOK, Unassigned
    <2>3. Filled(0) \cup Filled(1) = Overflow
      BY <1>1, <2>1, <2>2 DEF Filled, Members
    <2> QED
      BY <2>3 DEF Dealt, BufferBoxes
  <1>5. Parts' = Boxed(heap, p_node) \cup Boxed(heap, t_node) /\ Parts = BufferBoxes
    BY <1>1 DEF Parts, Pending
  <1>6. Parts' = Parts
    BY <1>1, <1>2, <1>4, <1>5 DEF Covered, Refilled
  <1>7. Lags'
    <2>1. Active /\ (Growing' => Growing)
      BY <1>1 DEF Active, Growing
    <2> QED
      BY <1>1, <1>2, <1>6, <2>1, LagsStill DEF Covered
  <1>8. Growing => Growing' /\ p_node' = p_node
    BY <1>1 DEF Growing
  <1>9. Refilled' /\ DeadBelow'
    BY <1>1 DEF Refilled, DeadBelow, Dead
  <1> QED
    BY <1>1, <1>3, <1>7, <1>8, <1>9, StillCovered

\* When the box e of an entry makes way for x, the boxes that do not stand for
\* the new entry's r alone make up for it, and so does the node around them.
LEMMA CoverFollows ==
    ASSUME NEW others, NEW e \in Box, NEW r \in Box, NEW c, NEW x \in Box, NEW y \in Box,
           others \cup {e} \in SUBSET Box, IsCover(c, others \cup {e}),
           UnionBox(e, r) = UnionBox(x, y)
    PROVE  IsCover(UnionBox(c, r), others \cup {x, y})
  <1>1. others \in SUBSET Box
    OBVIOUS
  <1>2. IsCover(UnionBox(c, r), others \cup {UnionBox(x, y)})
    BY <1>1, CoverGrows
  <1> QED
    BY <1>1, <1>2, CoverOfParts

\* The innermost activation is reached from its caller's entry, or is the root's.
CallerLinked ==
    /\ Active /\ frames = <<>> => p_node = m_root
    /\ Active /\ frames # <<>> =>
         LET home == <<caller.p_node, caller.index>>
         IN /\ home \in Homes /\ held(home) = sub(caller.p_node, caller.index)
            /\ held(home).m_child = p_node

LEMMA CallerIsLinked == ShapeInv => CallerLinked
  <1> SUFFICES ASSUME ShapeInv, Active PROVE CallerLinked
    BY DEF CallerLinked
  <1>1. frames = <<>> => p_node = m_root
    BY PathAbove DEF ShapeInv, Shape
  <1> QED
    BY <1>1, CallerHome DEF CallerLinked

LEMMA CallerIsLinkedNext == ShapeInv' => CallerLinked'
  BY CallerIsLinked, PTL

\* The box of the entry just updated is exact, and the one above it lags.
LEMMA ReturnExact ==
    ASSUME CoveredInv, TreeInv', pc = "return", frames # <<>>,
           p_node' = caller.p_node, pc' \in {"return", "seed"},
           NEW home, home = <<caller.p_node, caller.index>>, NEW Extra,
           Moves([h \in Homes |-> h], Extra, {home}), Homes' = Homes \cup Extra,
           Extra \cap Homes = {},
           \A k \in Extra : \A n : n = held(k)'.m_child =>
               IsCover(held(k)'.m_box, Boxed(heap', n)),
           \A n \in Nodes : n # caller.p_node => Boxed(heap', n) = Boxed(heap, n),
           IsCover(held(home)'.m_box, Boxed(heap, p_node))
    PROVE  Exact'
  <1>1. /\ ShapeInv /\ ShapeInv' /\ Linked /\ Linked' /\ Exact /\ TypeOK /\ Path
        /\ Active /\ Active'
    BY DEF CoveredInv, TreeInv, OccupiedInv, ShapeInv, Shape, Active, Splitting, Covered
  <1>2. /\ caller.p_node # p_node /\ p_node \in Nodes /\ caller.p_node \in Nodes
        /\ home \in Homes /\ held(home).m_child = p_node /\ nullptr \notin Nodes
    BY <1>1, PathCaller, CallerHome DEF Path, Nodes, nullptr
  <1> SUFFICES ASSUME NEW k \in Homes', held(k)'.m_child # nullptr,
                      ~ (Growing' /\ held(k)'.m_child = p_node')
               PROVE  IsCover(held(k)'.m_box, Boxed(heap', held(k)'.m_child))
    BY DEF Exact
  <1>3. PICK n : n = held(k)'.m_child
    OBVIOUS
  <1>4. CASE k \in Extra
    BY <1>3, <1>4
  <1>5. CASE k = home
    <2>0. held(home)'.m_child = held(home).m_child
      <3>1. home \in Homes' \ Extra /\ [h \in Homes |-> h][home] = home
        BY <1>2
      <3> QED
        BY <3>1 DEF Moves
    <2>1. n = p_node
      BY <1>2, <1>3, <1>5, <2>0
    <2> QED
      BY <1>2, <1>3, <1>5, <2>1
  <1>6. CASE k \in Homes /\ k # home
    <2>1. held(k)'.m_child = held(k).m_child /\ held(k)'.m_box = held(k).m_box
      BY <1>6 DEF Moves
    <2>2. n \in Nodes /\ n # nullptr /\ n # p_node
      BY <1>1, <1>2, <1>3, <1>6, <2>1, HomeChildren DEF ChildrenTyped, Linked
    <2>3. IsCover(held(k).m_box, Boxed(heap, n))
      BY <1>1, <1>3, <1>6, <2>1, <2>2 DEF Exact
    <2>4. n # caller.p_node
      <3> SUFFICES ASSUME n = p_node' PROVE FALSE
        OBVIOUS
      <3>1. ~ Growing'
        BY <1>3
      <3>2. frames' = <<>>
        BY <3>1 DEF Growing
      <3>3. p_node' = m_root'
        BY <1>1, <3>2, CallerIsLinkedNext DEF CallerLinked
      <3> QED
        BY <1>1, <1>3, <3>3 DEF Linked, Roots
    <2> QED
      BY <1>3, <2>1, <2>2, <2>3, <2>4
  <1> QED
    BY <1>4, <1>5, <1>6

LEMMA ReturnLags ==
    ASSUME CoveredInv, TreeInv', pc = "return", frames # <<>>,
           p_node' = caller.p_node, pc' \in {"return", "seed"}, r_subNode' = r_subNode,
           NEW home, home = <<caller.p_node, caller.index>>, NEW Extra,
           Moves([h \in Homes |-> h], Extra, {home}), Homes' = Homes \cup Extra,
           Extra \cap Homes = {},
           \A k \in Extra : held(k)'.m_child # p_node',
           \A c : IsCover(c, Boxed(heap, caller.p_node)) =>
                      IsCover(UnionBox(c, r_subNode.m_box), Parts')
    PROVE  Lags'
  <1>1. /\ ShapeInv /\ ShapeInv' /\ Exact /\ TypeOK /\ Path /\ Active /\ Active'
    BY DEF CoveredInv, TreeInv, OccupiedInv, ShapeInv, Shape, Active, Splitting, Covered
  <1>2. /\ caller.p_node # p_node /\ caller.p_node \in Nodes /\ nullptr \notin Nodes
        /\ held(home).m_child = p_node
    BY <1>1, PathCaller, CallerHome DEF Nodes, nullptr
  <1> SUFFICES ASSUME frames' # <<>>
               PROVE  IsCover(UnionBox(sub(caller.p_node, caller.index)'.m_box,
                                       r_subNode.m_box), Parts')
    BY DEF Lags, Growing
  <1>3. PICK above \in Homes' : /\ held(above)' = sub(caller.p_node, caller.index)'
                                /\ held(above)'.m_child = p_node'
    BY <1>1, CallerIsLinkedNext DEF CallerLinked
  <1>4. above \in Homes /\ above \notin Extra
    BY <1>3
  <1>5. held(above)'.m_child = held(above).m_child
    BY <1>4 DEF Moves
  <1>6. above # home
    BY <1>2, <1>3, <1>5
  <1>7. held(above)'.m_box = held(above).m_box
    BY <1>4, <1>6 DEF Moves
  <1>8. IsCover(held(above).m_box, Boxed(heap, caller.p_node))
    BY <1>1, <1>2, <1>3, <1>4, <1>5 DEF Exact
  <1> QED
    BY <1>3, <1>7, <1>8

\* What a return above no split does to the homes, and to the caller's boxes.
LEMMA ReturnUnsplitEffect ==
    ASSUME ShapeInv, ShapeInv', ReturnUnsplit
    PROVE  LET b == UnionBox(sub(caller.p_node, caller.index).m_box, r_subNode.m_box)
           IN \E home, others :
                /\ home = <<caller.p_node, caller.index>> /\ Homes' = Homes
                /\ Moves([h \in Homes |-> h], {}, {home})
                /\ held(home)'.m_box = b
                /\ \A k \in Nodes : k # caller.p_node => Boxed(heap', k) = Boxed(heap, k)
                /\ Boxed(heap, caller.p_node)
                     = others \cup {sub(caller.p_node, caller.index).m_box}
                /\ Parts' = others \cup {b}
  <1> DEFINE b == UnionBox(sub(caller.p_node, caller.index).m_box, r_subNode.m_box)
  <1>1. /\ pc = "return" /\ pc' = "return" /\ frames # <<>> /\ ~ splited /\ ~ splited'
        /\ heap' = WithBox(heap, caller.p_node, caller.index, b)
        /\ p_node' = caller.p_node
    BY DEF ReturnUnsplit
  <1>2. /\ TypeOK /\ Path /\ Active /\ heap \in Seq(Node) /\ r_subNode \in SubNode
    BY <1>1 DEF ShapeInv, Shape, Active, TypeOK
  <1>3. /\ caller.p_node \in Nodes /\ caller.index \in Slots /\ caller.p_node # p_node
        /\ caller.index \in Used(caller.p_node)
        /\ held(<<caller.p_node, caller.index>>) = sub(caller.p_node, caller.index)
    BY <1>1, <1>2, PathCaller, CallerHome
  <1>4. PICK n \in 1 .. Len(heap), s \in Slots, e \in Box, r \in Box, x \in Box :
          /\ n = caller.p_node /\ s = caller.index /\ s < heap[n].m_csize
          /\ e = heap[n].m_subNodes[s].m_box /\ r = r_subNode.m_box
          /\ x = UnionBox(e, r) /\ x = b
    <2>1. sub(caller.p_node, caller.index) \in SubNode
      BY <1>2, <1>3, FrameFields
    <2>2. sub(caller.p_node, caller.index).m_box \in Box /\ r_subNode.m_box \in Box
      BY <1>2, <2>1, NodeFields
    <2> QED
      BY <1>3, <2>2, UnionBoxType DEF Nodes, Used, sub
  <1>5. heap' = WithBox(heap, n, s, x)
    BY <1>1, <1>4
  <1> HIDE DEF b
  <1>6. PICK others : /\ Boxed(heap, n) = others \cup {e}
                      /\ Boxed(heap', n) = others \cup {x}
    <2>1. heap \in Seq(Node) /\ s < heap[n].m_csize /\ e = heap[n].m_subNodes[s].m_box
      BY <1>2, <1>4
    <2>2. /\ Boxed(heap, n) = OtherBoxes(heap, n, s) \cup {heap[n].m_subNodes[s].m_box}
          /\ Boxed(WithBox(heap, n, s, x), n) = OtherBoxes(heap, n, s) \cup {x}
      BY <2>1, WithBoxBoxes
    <2> QED
      BY <1>5, <2>1, <2>2
  <1>7. /\ \A k \in 1 .. Len(heap) : k # n => Boxed(heap', k) = Boxed(heap, k)
        /\ heap'[n].m_subNodes[s].m_box = x
    <2>1. heap \in Seq(Node) /\ s < heap[n].m_csize
      BY <1>2, <1>4
    <2>2. \A k \in 1 .. Len(heap) : k # n => Boxed(heap', k) = Boxed(heap, k)
      BY <1>5, <2>1, WithBoxBoxes
    <2>3. heap'[n].m_subNodes[s].m_box = x
      BY <1>5, <2>1, WithBoxHeap
    <2> QED
      BY <2>2, <2>3
  <1>8. PICK home : /\ home = <<n, s>> /\ Homes' = Homes
                    /\ Moves([h \in Homes |-> h], {}, {home})
    BY <1>2, <1>4, ReturnUnsplitMoves
  <1>9. held(home)'.m_box = x
    <2>1. home = <<n, s>> /\ n \in Nodes' /\ TypeOK'
      BY <1>2, <1>4, <1>5, <1>8, WithBoxHeap DEF Nodes, ShapeInv
    <2>2. held(home)' = sub(n, s)'
      BY <2>1, HomeFactsNext DEF HomesTyped
    <2> QED
      BY <1>7, <2>2 DEF sub
  <1>10. Parts' = others \cup {x}
    BY <1>1, <1>4, <1>6 DEF Parts, Pending
  <1>11. Boxed(heap, caller.p_node) = others \cup {sub(caller.p_node, caller.index).m_box}
    BY <1>4, <1>6 DEF sub
  <1>12. \A k \in Nodes : k # caller.p_node => Boxed(heap', k) = Boxed(heap, k)
    BY <1>4, <1>7 DEF Nodes
  <1>13. home = <<caller.p_node, caller.index>>
    BY <1>4, <1>8
  <1>14. x = UnionBox(sub(caller.p_node, caller.index).m_box, r_subNode.m_box)
    BY <1>4 DEF b
  <1> QED
    BY <1>8, <1>9, <1>10, <1>11, <1>12, <1>13, <1>14

\* The caller's entry grows by the new box, as everything below it did.
LEMMA ReturnUnsplitCovered ==
    ASSUME CoveredInv, TreeInv', ReturnUnsplit
    PROVE  Covered'
  <1>1. /\ pc = "return" /\ pc' = "return" /\ frames # <<>> /\ ~ splited
        /\ p_node' = caller.p_node /\ r_subNode' = r_subNode
    BY DEF ReturnUnsplit
  <1>2. /\ ShapeInv /\ ShapeInv' /\ Covered /\ TypeOK /\ Path /\ Active /\ Growing
        /\ r_subNode \in SubNode
    BY <1>1
    DEF CoveredInv, TreeInv, OccupiedInv, ShapeInv, Shape, Active, TypeOK, Growing
  <1>3. caller.p_node \in Nodes /\ sub(caller.p_node, caller.index) \in SubNode
    BY <1>1, <1>2, PathCaller, FrameFields
  <1>4. PICK e \in Box, r \in Box, x \in Box :
          /\ e = sub(caller.p_node, caller.index).m_box /\ r = r_subNode.m_box
          /\ x = UnionBox(e, r)
    BY <1>2, <1>3, NodeFields, UnionBoxType
  <1>5. PICK home, others :
          /\ home = <<caller.p_node, caller.index>> /\ Homes' = Homes
          /\ Moves([h \in Homes |-> h], {}, {home})
          /\ held(home)'.m_box = x
          /\ \A k \in Nodes : k # caller.p_node => Boxed(heap', k) = Boxed(heap, k)
          /\ Boxed(heap, caller.p_node) = others \cup {e}
          /\ Parts' = others \cup {x}
    BY <1>2, <1>4, ReturnUnsplitEffect
  <1>6. IsCover(x, Boxed(heap, p_node))
    <2>1. Parts = Boxed(heap, p_node)
      BY <1>1 DEF Parts, Pending
    <2> QED
      BY <1>2, <1>4, <2>1 DEF Covered, Lags
  <1>7. Exact'
    BY <1>1, <1>5, <1>6, ReturnExact
  <1>8. Lags'
    <2>1. Boxed(heap, caller.p_node) \in SUBSET Box
      BY <1>2, <1>3, BoxedFacts
    <2>2. ASSUME NEW c, IsCover(c, Boxed(heap, caller.p_node))
          PROVE  IsCover(UnionBox(c, r_subNode.m_box), Parts')
      <3>1. others \in SUBSET Box /\ IsCover(c, others \cup {e})
        BY <1>5, <2>1, <2>2
      <3> QED
        BY <1>4, <1>5, <3>1, CoverGrows
    <2>3. PICK Extra : Extra = {}
      OBVIOUS
    <2>4. /\ Moves([h \in Homes |-> h], Extra, {home}) /\ Homes' = Homes \cup Extra
          /\ Extra \cap Homes = {} /\ \A k \in Extra : held(k)'.m_child # p_node'
      BY <1>5, <2>3
    <2> QED
      BY <1>1, <1>5, <2>2, <2>4, ReturnLags
  <1> QED
    BY <1>1, <1>7, <1>8 DEF Covered, Refilled, DeadBelow, Dead

\* WithBoxHeap, of the heap that results.
LEMMA WithOneBox ==
    ASSUME heap \in Seq(Node), NEW n \in 1 .. Len(heap), NEW s \in Slots, NEW b \in Box,
           NEW h, h = WithBox(heap, n, s, b)
    PROVE  /\ \A k \in 1 .. Len(heap) : /\ h[k].m_csize = heap[k].m_csize
                                        /\ k # n => h[k] = heap[k]
           /\ \A t \in Slots :
                /\ t # s => h[n].m_subNodes[t] = heap[n].m_subNodes[t]
                /\ h[n].m_subNodes[t].m_child = heap[n].m_subNodes[t].m_child
                /\ h[n].m_subNodes[t].m_data = heap[n].m_subNodes[t].m_data
           /\ h[n].m_subNodes[s].m_box = b
  BY WithBoxHeap

\* What a return above a split does to the homes, and to the caller's boxes.
LEMMA ReturnSplitEffect ==
    ASSUME ShapeInv, ShapeInv', ReturnSplit
    PROVE  \E home, new, others :
             /\ home = <<caller.p_node, caller.index>>
             /\ new \notin Homes /\ Homes' = Homes \cup {new}
             /\ Moves([k \in Homes |-> k], {new}, {home})
             /\ held(home)'.m_box = NodeCover(heap, p_node)
             /\ held(new)'.m_child = m_nodeBuffer
             /\ held(new)'.m_box = NodeCover(heap, m_nodeBuffer)
             /\ \A k \in Nodes : k # caller.p_node => Boxed(heap', k) = Boxed(heap, k)
             /\ Boxed(heap, caller.p_node)
                  = others \cup {sub(caller.p_node, caller.index).m_box}
             /\ pc' \in {"return", "seed"}
             /\ Parts' = others \cup {NodeCover(heap, p_node),
                                      NodeCover(heap, m_nodeBuffer)}
  <1> DEFINE entry == [m_box |-> NodeCover(heap, m_nodeBuffer),
                       m_child |-> m_nodeBuffer, m_data |-> NoData]
  <1>1. /\ pc = "return" /\ splited /\ frames # <<>> /\ p_node' = caller.p_node
        /\ AddSubNode(WithBox(heap, caller.p_node, caller.index,
                              NodeCover(heap, p_node)), entry, caller.p_node)
    BY DEF ReturnSplit
  <1>2. /\ Shape /\ TypeOK /\ TypeOK' /\ Path /\ Pending /\ Active
        /\ HomesTyped' /\ heap \in Seq(Node)
    BY <1>1, HomeFactsNext DEF ShapeInv, Shape, Active, Pending, TypeOK
  <1>3. /\ caller.p_node \in Nodes /\ caller.index \in Slots /\ p_node \in Nodes
        /\ caller.index \in Used(caller.p_node)
        /\ sub(caller.p_node, caller.index) \in SubNode
    BY <1>1, <1>2, PathCaller, FrameFields DEF Path
  <1>4. /\ entry \in SubNode /\ m_nodeBuffer \in Nodes
        /\ m_nodeBuffer # caller.p_node /\ p_node # caller.p_node
    <2>1. /\ entry \in SubNode /\ m_nodeBuffer \in Nodes
          /\ height(m_nodeBuffer) = height(p_node)
          /\ height(caller.p_node) = height(p_node) + 1 /\ height(p_node) \in Nat
      BY <1>1, <1>2, SiblingEntry
    <2> QED
      BY <2>1
  <1>5. PICK n \in 1 .. Len(heap), s \in Slots, e \in Box, x \in Box, y \in Box,
             ent \in SubNode :
          /\ n = caller.p_node /\ s = caller.index /\ s < heap[n].m_csize
          /\ e = heap[n].m_subNodes[s].m_box
          /\ x = NodeCover(heap, p_node) /\ y = NodeCover(heap, m_nodeBuffer)
          /\ ent = entry
    <2>1. sub(caller.p_node, caller.index).m_box \in Box
      BY <1>2, <1>3, NodeFields
    <2>2. NodeCover(heap, p_node) \in Box /\ NodeCover(heap, m_nodeBuffer) \in Box
      BY <1>2, <1>3, <1>4, BoxedFacts
    <2> QED
      BY <1>3, <1>4, <2>1, <2>2 DEF Nodes, Used, sub
  <1>6. ent.m_child = m_nodeBuffer /\ ent.m_box = y
    BY <1>5
  <1> HIDE DEF entry
  <1>7. PICK h \in Seq(Node) :
          /\ h = WithBox(heap, n, s, x) /\ Len(h) = Len(heap) /\ AddSubNode(h, ent, n)
    <2>1. WithBox(heap, n, s, x) \in Seq(Node) /\ Len(WithBox(heap, n, s, x)) = Len(heap)
      BY <1>2, WithBoxHeap
    <2> QED
      BY <1>1, <1>5, <2>1
  <1>8. /\ \A k \in 1 .. Len(heap) : /\ h[k].m_csize = heap[k].m_csize
                                     /\ k # n => h[k] = heap[k]
        /\ \A t \in Slots :
             /\ t # s => h[n].m_subNodes[t] = heap[n].m_subNodes[t]
             /\ h[n].m_subNodes[t].m_child = heap[n].m_subNodes[t].m_child
             /\ h[n].m_subNodes[t].m_data = heap[n].m_subNodes[t].m_data
        /\ h[n].m_subNodes[s].m_box = x
    BY <1>2, <1>7, WithOneBox
  <1>9. PICK others :
          /\ Boxed(heap, n) = others \cup {e} /\ Boxed(h, n) = others \cup {x}
    <2>1. heap \in Seq(Node) /\ s < heap[n].m_csize /\ e = heap[n].m_subNodes[s].m_box
      BY <1>2, <1>5
    <2>2. /\ Boxed(heap, n) = OtherBoxes(heap, n, s) \cup {heap[n].m_subNodes[s].m_box}
          /\ Boxed(h, n) = OtherBoxes(heap, n, s) \cup {x}
      BY <1>7, <2>1, WithBoxBoxes
    <2> QED
      BY <2>1, <2>2
  <1>10. /\ \A k \in 1 .. Len(heap) : k # n => Boxed(heap', k) = Boxed(heap, k)
         /\ \/ /\ pc' = "return" /\ splited' = FALSE
               /\ Boxed(heap', n) = others \cup {x, y}
            \/ /\ pc' = "seed"
               /\ BufferBoxes' = others \cup {x, y}
    <2>1. \A k \in 1 .. Len(heap) : k # n => Boxed(h, k) = Boxed(heap, k)
      BY <1>8 DEF Boxed
    <2>2. /\ \A k \in 1 .. Len(h) : k # n => Boxed(heap', k) = Boxed(h, k)
          /\ \/ /\ pc' = "return" /\ splited' = FALSE
                /\ Boxed(heap', n) = Boxed(h, n) \cup {ent.m_box}
             \/ /\ pc' = "seed"
                /\ BufferBoxes' = Boxed(h, n) \cup {ent.m_box}
      BY <1>7, AddSubNodeBoxes
    <2> QED
      BY <1>6, <1>7, <1>9, <2>1, <2>2
  <1>11. pc' \in {"return", "seed"} /\ Parts' = others \cup {x, y}
    BY <1>1, <1>5, <1>10 DEF Parts, Pending
  <1>12. PICK home : home = <<n, s>> /\ home = <<caller.p_node, caller.index>>
    BY <1>5
  <1>13. PICK new : /\ new \notin Homes /\ Homes' = Homes \cup {new} /\ held(new)' = ent
                    /\ Moves([k \in Homes |-> k], {new}, {home})
    <2>1. \A k \in Nodes :
            /\ h[k].m_csize = csize(k)
            /\ \A t \in Slots :
                 /\ h[k].m_subNodes[t].m_child = sub(k, t).m_child
                 /\ h[k].m_subNodes[t].m_data = sub(k, t).m_data
                 /\ <<k, t>> \notin {home} => h[k].m_subNodes[t].m_box = sub(k, t).m_box
      BY <1>8, <1>12 DEF csize, sub, Nodes
    <2>2. n \in Nodes /\ pc \in {"insert", "return"} /\ ShapeInv /\ ShapeInv'
      BY <1>1, <1>2 DEF Nodes
    <2>3. Len(h) = Len(heap) /\ AddSubNode(h, ent, n)
      BY <1>7
    <2>4. \E new : /\ new \notin Homes /\ Homes' = Homes \cup {new} /\ held(new)' = ent
                   /\ Lands(new, n)
                   /\ Moves([k \in Homes |-> k], {new}, {home})
                   /\ Splitting' => t_overflowBuffer'[MaxChildren] = ent
      BY <2>1, <2>2, <2>3, AddSubNodeMoves, ZenonT(40)
    <2> QED
      BY <2>4
  <1>14. held(home)'.m_box = x
    <2>1. Len(heap') = Len(heap) /\ heap'[n].m_subNodes[s].m_box = x
      <3>1. CASE h[n].m_csize < MaxChildren
        <4>1. heap' = Placed(h, ent, n)
          BY <1>7, <3>1 DEF AddSubNode
        <4>2. heap[n].m_csize # s /\ h[n].m_csize # s
          <5>1. heap[n].m_csize \in Nat /\ s \in Nat
            BY <1>2, FrameFields, SlotFacts DEF Nodes, csize
          <5> QED
            BY <1>5, <1>8, <5>1
        <4>3. Len(heap') = Len(h) /\ heap'[n].m_subNodes[s] = h[n].m_subNodes[s]
          BY <1>7, <3>1, <4>1, <4>2, PlacedHeap
        <4> QED
          BY <1>7, <1>8, <4>3
      <3>2. CASE ~ (h[n].m_csize < MaxChildren)
        BY <1>7, <1>8, <3>2 DEF AddSubNode
      <3> QED
        BY <3>1, <3>2
    <2>2. n \in Nodes'
      BY <2>1 DEF Nodes
    <2>3. held(home)' = sub(n, s)'
      BY <1>2, <1>12, <2>2 DEF HomesTyped
    <2> QED
      BY <2>1, <2>3 DEF sub
  <1>15. Boxed(heap, caller.p_node) = others \cup {sub(caller.p_node, caller.index).m_box}
    BY <1>5, <1>9 DEF sub
  <1>16. \A k \in Nodes : k # caller.p_node => Boxed(heap', k) = Boxed(heap, k)
    BY <1>5, <1>10 DEF Nodes
  <1>17. held(new)'.m_child = m_nodeBuffer /\ held(new)'.m_box = y
    BY <1>6, <1>13
  <1> QED
    BY <1>5, <1>11, <1>12, <1>13, <1>14, <1>15, <1>16, <1>17

\* The caller's entry and its new sibling stand for the two halves of a child.
LEMMA ReturnSplitCovered ==
    ASSUME CoveredInv, TreeInv', ReturnSplit
    PROVE  Covered'
  <1>1. /\ pc = "return" /\ splited /\ frames # <<>> /\ p_node' = caller.p_node
        /\ r_subNode' = r_subNode
    BY DEF ReturnSplit
  <1>2. /\ ShapeInv /\ ShapeInv' /\ Shape /\ Occupied /\ Covered /\ TypeOK
        /\ Path /\ Pending /\ Active /\ Growing /\ r_subNode \in SubNode
    BY <1>1
    DEF CoveredInv, TreeInv, OccupiedInv, ShapeInv, Shape, Active, Pending, TypeOK,
        Growing
  <1>3. /\ caller.p_node \in Nodes /\ p_node \in Nodes /\ m_nodeBuffer \in Nodes
        /\ m_nodeBuffer # caller.p_node
        /\ sub(caller.p_node, caller.index) \in SubNode
    <2>1. /\ m_nodeBuffer \in Nodes /\ height(m_nodeBuffer) = height(p_node)
          /\ height(caller.p_node) = height(p_node) + 1 /\ height(p_node) \in Nat
      BY <1>1, <1>2, SiblingEntry
    <2> QED
      BY <1>1, <1>2, <2>1, PathCaller, FrameFields DEF Path
  <1>4. PICK home, new, others :
          /\ home = <<caller.p_node, caller.index>>
          /\ new \notin Homes /\ Homes' = Homes \cup {new}
          /\ Moves([k \in Homes |-> k], {new}, {home})
          /\ held(home)'.m_box = NodeCover(heap, p_node)
          /\ held(new)'.m_child = m_nodeBuffer
          /\ held(new)'.m_box = NodeCover(heap, m_nodeBuffer)
          /\ \A k \in Nodes : k # caller.p_node => Boxed(heap', k) = Boxed(heap, k)
          /\ Boxed(heap, caller.p_node)
               = others \cup {sub(caller.p_node, caller.index).m_box}
          /\ pc' \in {"return", "seed"}
          /\ Parts' = others \cup {NodeCover(heap, p_node),
                                   NodeCover(heap, m_nodeBuffer)}
    BY <1>2, ReturnSplitEffect
  <1>5. PICK e \in Box, r \in Box, x \in Box, y \in Box :
          /\ e = sub(caller.p_node, caller.index).m_box /\ r = r_subNode.m_box
          /\ x = NodeCover(heap, p_node) /\ y = NodeCover(heap, m_nodeBuffer)
    <2>1. sub(caller.p_node, caller.index).m_box \in Box /\ r_subNode.m_box \in Box
      BY <1>2, <1>3, NodeFields
    <2>2. NodeCover(heap, p_node) \in Box /\ NodeCover(heap, m_nodeBuffer) \in Box
      BY <1>2, <1>3, BoxedFacts
    <2> QED
      BY <2>1, <2>2
  <1>6. PICK Extra : Extra = {new}
    OBVIOUS
  <1>7. /\ Moves([k \in Homes |-> k], Extra, {home}) /\ Homes' = Homes \cup Extra
        /\ Extra \cap Homes = {}
    BY <1>4, <1>6
  <1>8. /\ IsCover(x, Boxed(heap, p_node)) /\ IsCover(y, Boxed(heap, m_nodeBuffer))
         /\ Boxed(heap, p_node) \in SUBSET Box /\ Boxed(heap, m_nodeBuffer) \in SUBSET Box
    <2>1. csize(p_node) >= 1 /\ csize(m_nodeBuffer) >= 1
      BY <1>2, <1>3, SlotFacts, FrameFields DEF Occupied
    <2> QED
      BY <1>2, <1>3, <1>5, <2>1, BoxedFacts
  <1>9. UnionBox(e, r) = UnionBox(x, y)
    <2>1. IsCover(UnionBox(e, r), Boxed(heap, p_node) \cup Boxed(heap, m_nodeBuffer))
      BY <1>2, <1>5 DEF Covered, Lags, Parts
    <2>2. IsCover(UnionBox(x, y), Boxed(heap, p_node) \cup Boxed(heap, m_nodeBuffer))
      BY <1>8, CoverOfUnion
    <2>3. Boxed(heap, p_node) \cup Boxed(heap, m_nodeBuffer) \in SUBSET Box
      BY <1>8
    <2> QED
      BY <2>1, <2>2, <2>3, CoverUnique
  <1>10. Exact'
    <2>1. ASSUME NEW k \in Extra, NEW m, m = held(k)'.m_child
          PROVE  IsCover(held(k)'.m_box, Boxed(heap', m))
      <3>1. m = m_nodeBuffer /\ held(k)'.m_box = y
        BY <1>4, <1>5, <1>6, <2>1
      <3>2. Boxed(heap', m) = Boxed(heap, m)
        BY <1>3, <1>4, <3>1
      <3> QED
        BY <1>8, <3>1, <3>2
    <2>2. IsCover(held(home)'.m_box, Boxed(heap, p_node))
      BY <1>4, <1>5, <1>8
    <2> QED
      BY <1>1, <1>4, <1>7, <2>1, <2>2, ReturnExact
  <1>11. Lags'
    <2>1. \A k \in Extra : held(k)'.m_child # p_node'
      BY <1>1, <1>3, <1>4, <1>6
    <2>2. Boxed(heap, caller.p_node) \in SUBSET Box
      BY <1>2, <1>3, BoxedFacts
    <2>3. ASSUME NEW c, IsCover(c, Boxed(heap, caller.p_node))
          PROVE  IsCover(UnionBox(c, r_subNode.m_box), Parts')
      <3>1. others \cup {e} \in SUBSET Box /\ IsCover(c, others \cup {e})
        BY <1>4, <1>5, <2>2, <2>3
      <3>2. Parts' = others \cup {x, y}
        BY <1>4, <1>5
      <3> QED
        BY <1>5, <1>9, <3>1, <3>2, CoverFollows
    <2> QED
      BY <1>1, <1>4, <1>7, <2>1, <2>3, ReturnLags
  <1> QED
    BY <1>4, <1>10, <1>11 DEF Covered, Refilled, DeadBelow, Dead

\* The boxes beside the two halves of the old root are the smallest around them.
LEMMA FinishCovered ==
    ASSUME CoveredInv, TreeInv', Finish
    PROVE  Covered'
  <1>1. /\ pc = "return" /\ pc' = "idle" /\ frames = <<>> /\ frames' = <<>>
    BY DEF Finish
  <1>2. /\ ShapeInv /\ ShapeInv' /\ Shape /\ Occupied /\ Exact /\ TypeOK /\ Linked'
        /\ heap \in Seq(Node) /\ m_root \in Nodes /\ p_node = m_root
    BY <1>1, PathAbove
    DEF CoveredInv, TreeInv, OccupiedInv, ShapeInv, Shape, Active, Covered, TypeOK
  <1>3. ~ Growing /\ ~ Growing' /\ Lags' /\ Refilled' /\ DeadBelow'
    BY <1>1 DEF Growing, Lags, Refilled, DeadBelow
  <1>4. CASE splited
    <2>1. PICK new :
            /\ held(<<new, 0>>)' = childEntry(m_root)
            /\ held(<<new, 1>>)' = childEntry(m_nodeBuffer)
            /\ Moves([h \in Homes |-> h], {<<new, 0>>, <<new, 1>>}, {})
      BY <1>2, <1>4, FinishMoves
    <2>2. Pending /\ m_nodeBuffer \in Nodes
      BY <1>1, <1>2, <1>4 DEF Pending, Shape
    <2>3. csize(m_root) >= 1 /\ csize(m_nodeBuffer) >= 1
      BY <1>2, <2>2, SlotFacts, FrameFields DEF Occupied
    <2>4. \A k \in Nodes : Boxed(heap', k) = Boxed(heap, k)
      <3>1. heap' = GrownHeap
        BY <1>4 DEF Finish
      <3>2. \A k \in Nodes : heap'[k] = heap[k]
        BY <1>2, <2>2, <3>1, GrownHeapFacts
      <3> QED
        BY <3>2 DEF Boxed
    <2>5. \A n \in {m_root, m_nodeBuffer} :
            /\ childEntry(n).m_child = n
            /\ IsCover(childEntry(n).m_box, Boxed(heap', n))
      BY <1>2, <2>2, <2>3, <2>4, BoxedFacts DEF childEntry
    <2>6. PICK h, k : h = <<new, 0>> /\ k = <<new, 1>>
      OBVIOUS
    <2>7. PICK Extra : Extra = {h, k}
      OBVIOUS
    <2>8. /\ Moves([x \in Homes |-> x], Extra, {})
          /\ held(h)' = childEntry(m_root) /\ held(k)' = childEntry(m_nodeBuffer)
      BY <2>1, <2>6, <2>7
    <2>9. \A x \in Extra : \A n : n = held(x)'.m_child /\ n # nullptr =>
            IsCover(held(x)'.m_box, Boxed(heap', n))
      BY <2>5, <2>7, <2>8
    <2>10. Exact'
      BY <1>2, <1>3, <2>4, <2>8, <2>9, ExactStill
    <2> QED
      BY <1>3, <2>10 DEF Covered
  <1>5. CASE ~ splited
    <2>1. heap' = heap
      BY <1>5 DEF Finish
    <2>2. Buffered = {} /\ Buffered' = {}
      BY <1>1 DEF Buffered, Splitting
    <2> QED
      BY <1>3, <2>1, <2>2, StillCovered
  <1> QED
    BY <1>4, <1>5

\* Every step keeps the boxes around what they stand for.
LEMMA NextCovered == CoveredInv /\ [Next]_vars => CoveredInv'
  <1> SUFFICES ASSUME CoveredInv, [Next]_vars PROVE Covered'
    BY NextTree DEF CoveredInv
  <1>1. TreeInv' /\ ShapeInv /\ ShapeInv' /\ TypeOK /\ Shape /\ Covered
    BY NextTree DEF CoveredInv, TreeInv, OccupiedInv, ShapeInv
  <1>2. ASSUME UNCHANGED vars PROVE Covered'
    <2>1. UNCHANGED <<pc, t_overflowBuffer, m_groupAssign, heap, m_root, m_nodeBuffer,
                      r_subNode, p_node, frames, splited, next>>
      BY <1>2 DEF vars, splitVars, indexVars, callVars
    <2>2. CASE Dead
      BY <1>1, <2>1, <2>2, DeadCovered DEF Dead
    <2>3. CASE ~ Dead
      <3>1. /\ Buffered' = Buffered /\ Growing' = Growing /\ caller' = caller
            /\ BufferBoxes' = BufferBoxes
        BY <2>1 DEF Buffered, Splitting, Growing, caller, BufferBoxes, boxOf
      <3>2. Lags' /\ Refilled'
        BY <1>1, <2>1, <3>1
        DEF Covered, Lags, Refilled, Active, Splitting, sub, Parts, Pending, Boxed,
            Dealt, boxOf, Filled, Members, t_node
      <3>3. DeadBelow'
        BY <2>1, <2>3 DEF DeadBelow, Dead
      <3> QED
        BY <1>1, <2>1, <3>1, <3>2, <3>3, StillCovered DEF Growing
    <2> QED
      BY <2>2, <2>3
  <1>3. ASSUME NEW a_box \in Boxes, Insert(a_box) PROVE Covered'
    <2>1. /\ pc = "idle" /\ pc' = "insert" /\ heap' = heap /\ frames' = frames
      BY <1>3 DEF Insert, indexVars
    <2>2. ~ Growing
      BY <1>1, <2>1 DEF Growing, Shape, Quiet
    <2>3. Lags' /\ Refilled' /\ DeadBelow' /\ Buffered = {} /\ Buffered' = {}
      BY <2>1 DEF Lags, Refilled, DeadBelow, Dead, Growing, Buffered, Splitting
    <2> QED
      BY <1>1, <2>1, <2>2, <2>3, StillCovered
  <1>4. CASE Descend
    <2>1. pc = "insert" /\ pc' = "insert" /\ heap' = heap
      BY <1>4 DEF Descend, indexVars
    <2>2. /\ Lags' /\ Refilled' /\ DeadBelow' /\ Buffered = {} /\ Buffered' = {}
          /\ ~ Growing
      BY <2>1 DEF Lags, Refilled, DeadBelow, Dead, Growing, Buffered, Splitting
    <2> QED
      BY <1>1, <2>1, <2>2, StillCovered
  <1>5. CASE DescendNowhere
    BY <1>1, <1>5, DeadCovered
    DEF DescendNowhere, Dead, splitVars, indexVars, callVars
  <1>6. CASE AddToLeaf
    BY <1>1, <1>6, AddToLeafCovered
  <1>7. CASE SplitStep /\ UNCHANGED <<indexVars, callVars>>
    <2>1. /\ UNCHANGED <<heap, r_subNode, p_node, frames, t_overflowBuffer>>
          /\ pc \in {"seed", "deal", "rest", "check"}
          /\ pc' \in {"deal", "rest", "check", "assigned", "aborted"}
      BY <1>7, SplitStepFrame DEF indexVars, callVars
    <2>2. CASE pc' = "aborted"
      BY <1>1, <2>1, <2>2, DeadCovered DEF Dead
    <2>3. CASE pc' # "aborted"
      <3>1. Buffered' = Buffered /\ Active
        BY <2>1, <2>3 DEF Buffered, Splitting, Active
      <3>2. (Growing' <=> Growing) /\ Refilled' /\ DeadBelow'
        BY <2>1, <2>3 DEF Growing, Refilled, DeadBelow, Dead
      <3>3. Parts' = Parts
        BY <2>1 DEF Parts, Pending, BufferBoxes, boxOf
      <3>4. Lags'
        BY <1>1, <2>1, <3>1, <3>2, <3>3, LagsStill DEF Covered
      <3> QED
        BY <1>1, <2>1, <3>1, <3>2, <3>4, StillCovered
    <2> QED
      BY <2>2, <2>3
  <1>8. CASE AllocateSibling
    BY <1>1, <1>8, AllocateSiblingCovered
  <1>9. CASE FillNext
    BY <1>1, <1>9, FillNextCovered
  <1>10. CASE FillDone
    BY <1>1, <1>10, FillDoneCovered
  <1>11. CASE ReturnUnsplit
    BY <1>1, <1>11, ReturnUnsplitCovered
  <1>12. CASE ReturnSplit
    BY <1>1, <1>12, ReturnSplitCovered
  <1>13. CASE DanglingRead
    BY <1>1, <1>13, DeadCovered DEF DanglingRead, Dead, splitVars, indexVars, callVars
  <1>14. CASE Finish
    BY <1>1, <1>14, FinishCovered
  <1>15. CASE Stopped
    BY <1>2, <1>15 DEF Stopped
  <1> QED
    BY <1>2, <1>3, <1>4, <1>5, <1>6, <1>7, <1>8, <1>9, <1>10, <1>11, <1>12,
       <1>13, <1>14, <1>15 DEF Next, InsertStep

\* The empty tree has no box that could be wrong.
LEMMA InitCovered == Init => CoveredInv
  <1> SUFFICES ASSUME Init PROVE CoveredInv
    OBVIOUS
  <1>1. /\ heap = <<NewNode(0)>> /\ Len(heap) = 1 /\ pc = "idle"
    BY DEF Init
  <1>2. Homes = {}
    <2>1. Nodes = {1} /\ \A s : s \notin Used(1)
      BY <1>1 DEF Nodes, Used, NewNode, Slots
    <2> QED
      BY <1>1, <2>1 DEF Homes, Places, Buffered, Splitting
  <1>3. Covered
    BY <1>1, <1>2
    DEF Covered, Exact, Lags, Active, Splitting, Refilled, DeadBelow, Dead
  <1> QED
    BY <1>3, InitTree DEF CoveredInv

LEMMA CoveredInvariant == Spec => []CoveredInv
  BY InitCovered, NextCovered, PTL DEF Spec

\* Only the entries on the way to the innermost activation may lag behind.
LEMMA CoveredBoxes == CoveredInv => BoxesExact
  <1> SUFFICES ASSUME CoveredInv, NEW p \in Places, ~ isLeaf(p[1]), ~ onPath(p)
               PROVE  at(p).m_box = NodeCover(heap, at(p).m_child)
    BY DEF BoxesExact
  <1>1. /\ ShapeInv /\ TypeOK /\ Shape /\ Linked /\ Exact /\ DeadBelow /\ HomesTyped
    BY HomeFacts DEF CoveredInv, TreeInv, OccupiedInv, ShapeInv, Covered
  <1>2. p \in Homes /\ held(p) = at(p)
    BY DEF Places, Nodes, Homes, held
  <1>3. PICK n : n = at(p).m_child
    OBVIOUS
  <1>4. n \in Nodes
    <2>1. PICK k, s : p = <<k, s>> /\ k \in Nodes /\ s \in Slots /\ s < csize(k)
      BY DEF Places, Used, csize
    <2>2. height(k) # 0 /\ at(p) = sub(k, s)
      BY <2>1 DEF isLeaf, height, at
    <2>3. Fits(heap, sub(k, s), height(k))
      BY <1>1, <2>1 DEF Shape, Levels, sub, height, csize, Nodes
    <2> QED
      BY <1>3, <2>2, <2>3 DEF Fits, Nodes
  <1>5. n # nullptr
    BY <1>4 DEF Nodes, nullptr
  <1>6. ~ (Growing /\ n = p_node)
    <2> SUFFICES ASSUME Growing, n = p_node PROVE FALSE
      OBVIOUS
    <2>1. frames # <<>> /\ (Active \/ Dead)
      BY <1>1 DEF Growing, Shape, Quiet, TypeOK, Active, Splitting, Dead
    <2>2. PICK h : /\ h = <<caller.p_node, caller.index>> /\ h \in Homes
                   /\ held(h).m_child = p_node
      BY <1>1, <2>1, CallerHome DEF DeadBelow
    <2>3. p = h
      BY <1>1, <1>2, <1>3, <1>5, <2>2 DEF Linked
    <2>4. Len(frames) \in DOMAIN frames /\ caller = frames[Len(frames)]
      <3>1. caller = frames[Len(frames)] /\ Len(frames) >= 1
        BY <1>1, <2>1, FramesFacts DEF TypeOK
      <3> QED
        BY <1>1, <3>1, FrameFields
    <2>5. onPath(p)
      BY <2>2, <2>3, <2>4 DEF onPath
    <2> QED
      BY <2>5
  <1>7. IsCover(at(p).m_box, Boxed(heap, n))
    BY <1>1, <1>2, <1>3, <1>5, <1>6 DEF Exact
  <1>8. csize(n) >= 1
    <2>1. PICK b : b \in Boxed(heap, n)
      BY <1>7, DimensionsAssumption DEF IsCover, Axes
    <2>2. PICK s \in Slots : s < csize(n)
      BY <2>1 DEF Boxed, csize
    <2>3. csize(n) \in Nat /\ s \in Nat
      BY <1>1, <1>4, FrameFields, SlotFacts
    <2> QED
      BY <2>2, <2>3
  <1>9. IsCover(NodeCover(heap, n), Boxed(heap, n)) /\ Boxed(heap, n) \in SUBSET Box
    BY <1>1, <1>4, <1>8, BoxedFacts
  <1> QED
    BY <1>3, <1>7, <1>9, CoverUnique

\* The box beside a child is the smallest around the child's own entries, except
\* on the way from the root to the activation in progress: what SelectBestSubNode
\* and the searches rely on, after however many splits and updates of boxes.
THEOREM SpatialBoxes == Spec => []BoxesExact
  BY CoveredBoxes, CoveredInvariant, PTL
-----------------------------------------------------------------------------
\* Every box the tree stores was grown from the boxes Insert was called with.
Given == ToSet(inserted) \cup (IF Active \/ Dead THEN {r_subNode.m_box} ELSE {})

\* Each bound of b is bounded by one of a box of S.
Inside(b, S) ==
    \A i \in Axes : /\ \E x \in S : x[i].first <= b[i].first
                    /\ \E x \in S : b[i].second <= x[i].second

Bounded ==
    /\ \A h \in Homes : Inside(held(h).m_box, Given)
    /\ pc = "wildIndex" => area(Cover(Given)) \notin Finite

BoundedInv == OccupiedInv /\ Bounded

LEMMA InsideSelf ==
    ASSUME NEW S \in SUBSET Box, NEW b \in S
    PROVE  Inside(b, S)
  <1>1. b \in Box
    OBVIOUS
  <1>2. \A i \in Axes : b[i].first <= b[i].first /\ b[i].second <= b[i].second
    BY <1>1, BoxEdges
  <1> QED
    BY <1>2 DEF Inside

LEMMA InsideUnion ==
    ASSUME NEW S, NEW a \in Box, NEW b \in Box, Inside(a, S), Inside(b, S)
    PROVE  Inside(UnionBox(a, b), S)
  <1> SUFFICES ASSUME NEW i \in Axes
               PROVE  /\ \E x \in S : x[i].first <= UnionBox(a, b)[i].first
                      /\ \E x \in S : UnionBox(a, b)[i].second <= x[i].second
    BY DEF Inside
  <1>1. /\ UnionBox(a, b)[i].first \in {a[i].first, b[i].first}
        /\ UnionBox(a, b)[i].second \in {a[i].second, b[i].second}
    BY UnionBoxEdges
  <1> QED
    BY <1>1 DEF Inside

LEMMA InsideCover ==
    ASSUME NEW S, NEW T, NEW c, IsCover(c, T), \A x \in T : Inside(x, S)
    PROVE  Inside(c, S)
  BY DEF IsCover, Inside

LEMMA InsideEnclosed ==
    ASSUME NEW S \in SUBSET Box, NEW b \in Box, NEW c, IsCover(c, S), Inside(b, S)
    PROVE  encloses(c, b)
  <1> SUFFICES ASSUME NEW i \in Axes
               PROVE  c[i].first <= b[i].first /\ b[i].second <= c[i].second
    BY DEF encloses
  <1>1. PICK x \in S, y \in S : x[i].first <= b[i].first /\ b[i].second <= y[i].second
    BY DEF Inside
  <1>2. /\ c[i].first <= x[i].first /\ y[i].second <= c[i].second
        /\ c \in Box /\ x \in Box /\ y \in Box
    BY DEF IsCover, encloses
  <1> QED
    BY <1>1, <1>2, BoxEdges

LEMMA InsideMore ==
    ASSUME NEW S, NEW T, S \subseteq T, NEW b, Inside(b, S)
    PROVE  Inside(b, T)
  BY DEF Inside

\* The boxes given are finitely many.
LEMMA GivenFacts ==
    ASSUME TypeOK
    PROVE  /\ Given \in SUBSET Box /\ IsFiniteSet(Given)
           /\ Active \/ Dead => r_subNode.m_box \in Given
  <1>1. inserted \in Seq(Box) /\ r_subNode.m_box \in Box
    BY NodeFields DEF TypeOK
  <1>2. ToSet(inserted) \in SUBSET Box
    BY <1>1 DEF ToSet
  <1>3. IsFiniteSet(ToSet(inserted))
    <2>1. Len(inserted) \in Nat /\ DOMAIN inserted = 1 .. Len(inserted)
      BY <1>1
    <2>2. IsFiniteSet(DOMAIN inserted)
      BY <2>1, FS_Interval
    <2>3. inserted \in Surjection(DOMAIN inserted, ToSet(inserted))
      BY <1>1 DEF Surjection, ToSet
    <2> QED
      BY <2>2, <2>3, FS_Surjection
  <1>4. IsFiniteSet(ToSet(inserted) \cup {r_subNode.m_box})
    BY <1>3, FS_AddElement
  <1> QED
    BY <1>1, <1>2, <1>3, <1>4 DEF Given

\* The entry of every box around which a node's cover is drawn is a home's.
LEMMA NodeCoverInside ==
    ASSUME TypeOK, Bounded, NEW n \in Nodes, csize(n) >= 1
    PROVE  Inside(NodeCover(heap, n), Given)
  <1>1. IsCover(NodeCover(heap, n), Boxed(heap, n))
    BY BoxedFacts
  <1>2. ASSUME NEW x \in Boxed(heap, n)
        PROVE  Inside(x, Given)
    <2>1. PICK s \in Slots : s < csize(n) /\ x = sub(n, s).m_box
      BY DEF Boxed, csize, sub
    <2>2. <<n, s>> \in Homes /\ held(<<n, s>>) = sub(n, s)
      BY <2>1, HomeFacts DEF HomesTyped
    <2> QED
      BY <2>1, <2>2 DEF Bounded
  <1> QED
    BY <1>1, <1>2, InsideCover

\* Steps that keep what is given, when the boxes they change stay inside.
LEMMA BoundedMoves ==
    ASSUME Bounded, NEW origin, NEW Extra, NEW Changed,
           Moves(origin, Extra, Changed), Given \subseteq Given',
           \A k \in Extra : Inside(held(k)'.m_box, Given'),
           \A k \in Homes' \ Extra : origin[k] \in Changed =>
               Inside(held(k)'.m_box, Given'),
           pc' # "wildIndex"
    PROVE  Bounded'
  <1>1. ASSUME NEW k \in Homes', k \notin Extra, origin[k] \notin Changed
        PROVE  Inside(held(k)'.m_box, Given')
    <2>1. PICK h \in Homes : h = origin[k] /\ held(k)'.m_box = held(h).m_box
      BY <1>1 DEF Moves
    <2>2. Inside(held(h).m_box, Given)
      BY DEF Bounded
    <2> QED
      BY <2>1, <2>2, InsideMore
  <1> QED
    BY <1>1 DEF Bounded

\* Steps that leave the nodes and the buffer alone.
LEMMA BoundedStill ==
    ASSUME Bounded, TypeOK, TypeOK', heap' = heap, Buffered' = Buffered,
           \A i \in Buffered : t_overflowBuffer'[i] = t_overflowBuffer[i],
           Given \subseteq Given', pc' # "wildIndex"
    PROVE  Bounded'
  <1>1. Moves([h \in Homes |-> h], {}, {})
    BY SameHomes
  <1> QED
    BY <1>1, BoundedMoves

\* An insertion that goes on has the box it was given, and so has a dead one.
LEMMA GivenStays ==
    ASSUME Active \/ Dead, Active' \/ Dead', UNCHANGED <<inserted, r_subNode>>
    PROVE  Given' = Given
  BY DEF Given

\* What a finite area gains on another is finite.
LEMMA MinusFinite ==
    ASSUME NEW x \in Finite, NEW y \in Finite, y <= x
    PROVE  minus[x][y] \in Finite
  BY MaxAreaAssumption DEF minus, Double, Finite, Infinity, NaN

LEMMA UnionEncloses ==
    ASSUME NEW a \in Box, NEW b \in Box
    PROVE  encloses(UnionBox(a, b), b)
  <1> SUFFICES ASSUME NEW i \in Axes
               PROVE  /\ UnionBox(a, b)[i].first <= b[i].first
                      /\ b[i].second <= UnionBox(a, b)[i].second
    BY DEF encloses
  <1> QED
    BY UnionBoxEdges, BoxEdges

\* The descent fails only below boxes that the given ones reach around: no box
\* of the node could be united with the new one in a finite area.
LEMMA DescendNowhereBounded ==
    ASSUME BoundedInv, DescendNowhere
    PROVE  Bounded'
  <1>1. /\ pc = "insert" /\ pc' = "wildIndex" /\ ~ isLeaf(p_node)
        /\ Candidates(p_node) = {}
        /\ UNCHANGED <<heap, inserted, r_subNode, t_overflowBuffer>>
    BY DEF DescendNowhere, splitVars, indexVars, callVars
  <1>2. /\ ShapeInv /\ TypeOK /\ Path /\ Occupied /\ Bounded /\ Active /\ Dead'
        /\ p_node \in Nodes /\ HomesTyped
    BY <1>1, HomeFacts
    DEF BoundedInv, OccupiedInv, ShapeInv, Shape, Active, Path, Dead
  <1>3. Given' = Given
    BY <1>1, <1>2, GivenStays
  <1>4. Homes' = Homes /\ \A h : held(h)' = held(h)
    <2>1. Buffered = {} /\ Buffered' = {}
      BY <1>1 DEF Buffered, Splitting
    <2> QED
      BY <1>1, <2>1 DEF Homes, Places, Nodes, Used, held, at, sub
  <1>5. csize(p_node) >= 1
    <2>1. csize(p_node) >= MinChildren \/ csize(p_node) >= 2
      BY <1>1, <1>2 DEF Occupied, Dead, Pending
    <2> QED
      BY <1>2, <2>1, SlotFacts, FrameFields
  <1>6. PICK r \in Box, b \in Box, u \in Box :
          /\ r = r_subNode.m_box /\ b = sub(p_node, 0).m_box /\ u = UnionBox(r, b)
    <2>1. r_subNode \in SubNode /\ sub(p_node, 0) \in SubNode
      BY <1>2, SlotFacts, FrameFields DEF TypeOK
    <2> QED
      BY <2>1, NodeFields, UnionBoxType
  <1>7. area(u) \notin Finite
    <2>1. 0 \in Used(p_node)
      BY <1>2, <1>5, SlotFacts, FrameFields DEF Used, csize
    <2>2. ~ Improves(p_node, 0)
      BY <1>1, <2>1 DEF Candidates
    <2>3. minus[area(u)][area(b)] \notin Finite
      BY <1>6, <2>2 DEF Improves, increase
    <2>4. encloses(u, b)
      BY <1>6, UnionEncloses
    <2>5. area(u) \in Finite => area(b) \in Finite /\ area(b) <= area(u)
      BY <2>4, AreaMonotone
    <2> QED
      BY <2>3, <2>5, MinusFinite
  <1>8. Inside(u, Given)
    <2>1. Inside(r, Given)
      BY <1>2, <1>6, GivenFacts, InsideSelf
    <2>2. Inside(b, Given)
      <3>1. 0 < csize(p_node)
        BY <1>2, <1>5, FrameFields
      <3>2. <<p_node, 0>> \in Homes /\ held(<<p_node, 0>>) = sub(p_node, 0)
        BY <1>2, <3>1, SlotFacts DEF HomesTyped
      <3> QED
        BY <1>2, <1>6, <3>2 DEF Bounded
    <2> QED
      BY <1>6, <2>1, <2>2, InsideUnion
  <1>9. area(Cover(Given)) \notin Finite
    <2>1. PICK S \in SUBSET Box : S = Given /\ IsFiniteSet(S) /\ S # {}
      BY <1>2, GivenFacts
    <2>2. PICK c \in Box : c = Cover(S) /\ IsCover(c, S)
      BY <2>1, CoverIsCover DEF IsCover
    <2>3. encloses(c, u)
      BY <1>8, <2>1, <2>2, InsideEnclosed
    <2>4. area(c) \in Finite => area(u) \in Finite
      BY <2>3, AreaMonotone
    <2> QED
      BY <1>7, <2>1, <2>2, <2>4
  <1> QED
    BY <1>2, <1>3, <1>4, <1>9 DEF Bounded

\* The leaf, or the buffer, takes the box that was given.
LEMMA AddToLeafBounded ==
    ASSUME BoundedInv, ShapeInv', AddToLeaf
    PROVE  Bounded'
  <1>1. /\ pc = "insert" /\ AddSubNode(heap, r_subNode, p_node)
        /\ UNCHANGED <<inserted, r_subNode>>
    BY DEF AddToLeaf
  <1>2. /\ ShapeInv /\ TypeOK /\ Bounded /\ Active /\ heap \in Seq(Node)
        /\ p_node \in Nodes /\ r_subNode \in SubNode
    BY <1>1 DEF BoundedInv, OccupiedInv, ShapeInv, Shape, Active, Path, TypeOK
  <1>3. PICK e \in SubNode, n \in 1 .. Len(heap) : e = r_subNode /\ n = p_node
    BY <1>2 DEF Nodes
  <1>4. pc' \in {"return", "seed"}
    BY <1>1, <1>2, <1>3, AddSubNodeSizes
  <1>5. Given' = Given
    BY <1>1, <1>2, <1>4, GivenStays DEF Active, Splitting
  <1>6. PICK x : held(x)' = e /\ Moves([k \in Homes |-> k], {x}, {})
    <2>1. \A k \in Nodes :
            /\ heap[k].m_csize = csize(k)
            /\ \A s \in Slots :
                 /\ heap[k].m_subNodes[s].m_child = sub(k, s).m_child
                 /\ heap[k].m_subNodes[s].m_data = sub(k, s).m_data
                 /\ <<k, s>> \notin {} => heap[k].m_subNodes[s].m_box = sub(k, s).m_box
      BY DEF csize, sub
    <2> QED
      BY <1>1, <1>2, <1>3, <2>1, AddSubNodeMoves
  <1>7. Inside(held(x)'.m_box, Given)
    BY <1>2, <1>3, <1>6, GivenFacts, InsideSelf
  <1> QED
    BY <1>2, <1>4, <1>5, <1>6, <1>7, BoundedMoves

\* The caller's box is united with the new one.
LEMMA ReturnUnsplitBounded ==
    ASSUME BoundedInv, ShapeInv', ReturnUnsplit
    PROVE  Bounded'
  <1>1. /\ pc = "return" /\ pc' = "return" /\ frames # <<>>
        /\ UNCHANGED <<inserted, r_subNode>>
    BY DEF ReturnUnsplit
  <1>2. ShapeInv /\ TypeOK /\ Path /\ Bounded /\ Active /\ Active'
    BY <1>1 DEF BoundedInv, OccupiedInv, ShapeInv, Shape, Active
  <1>3. Given' = Given
    BY <1>1, <1>2, GivenStays
  <1>4. PICK e \in Box, r \in Box :
          /\ e = sub(caller.p_node, caller.index).m_box /\ r = r_subNode.m_box
    <2>1. sub(caller.p_node, caller.index) \in SubNode /\ r_subNode \in SubNode
      BY <1>1, <1>2, PathCaller, FrameFields DEF TypeOK
    <2> QED
      BY <2>1, NodeFields
  <1>5. PICK home : /\ home = <<caller.p_node, caller.index>>
                    /\ Moves([h \in Homes |-> h], {}, {home})
                    /\ held(home)'.m_box = UnionBox(e, r)
    BY <1>2, <1>4, ReturnUnsplitEffect
  <1>6. Inside(held(home)'.m_box, Given)
    <2>1. Inside(r, Given)
      BY <1>2, <1>4, GivenFacts, InsideSelf
    <2>2. Inside(e, Given)
      BY <1>1, <1>2, <1>4, CallerHome DEF Bounded
    <2> QED
      BY <1>5, <2>1, <2>2, InsideUnion
  <1>7. ASSUME NEW k \in Homes' \ {}, [h \in Homes |-> h][k] \in {home}
        PROVE  Inside(held(k)'.m_box, Given')
    <2>1. k = home
      <3>1. [h \in Homes |-> h] \in [Homes' \ {} -> Homes]
        BY <1>5 DEF Moves
      <3>2. k \in Homes
        BY <3>1
      <3> QED
        BY <1>7, <3>2
    <2> QED
      BY <1>3, <1>6, <2>1
  <1> QED
    BY <1>1, <1>2, <1>3, <1>5, <1>7, BoundedMoves, SMTT(30)

\* The two halves of a child get the smallest boxes around what they hold.
LEMMA ReturnSplitBounded ==
    ASSUME BoundedInv, ShapeInv', ReturnSplit
    PROVE  Bounded'
  <1>1. /\ pc = "return" /\ splited /\ frames # <<>> /\ UNCHANGED <<inserted, r_subNode>>
    BY DEF ReturnSplit
  <1>2. /\ ShapeInv /\ TypeOK /\ Shape /\ Path /\ Occupied /\ Bounded /\ Active /\ Pending
        /\ p_node \in Nodes /\ m_nodeBuffer \in Nodes
    BY <1>1
    DEF BoundedInv, OccupiedInv, ShapeInv, Shape, Active, Pending, Path
  <1>3. PICK home, new :
          /\ home = <<caller.p_node, caller.index>>
          /\ new \notin Homes /\ Homes' = Homes \cup {new}
          /\ Moves([k \in Homes |-> k], {new}, {home})
          /\ held(home)'.m_box = NodeCover(heap, p_node)
          /\ held(new)'.m_box = NodeCover(heap, m_nodeBuffer)
          /\ pc' \in {"return", "seed"}
    BY <1>2, ReturnSplitEffect
  <1>4. Given' = Given
    BY <1>1, <1>2, <1>3, GivenStays DEF Active, Splitting
  <1>5. Inside(held(home)'.m_box, Given) /\ Inside(held(new)'.m_box, Given)
    <2>1. csize(p_node) >= 1 /\ csize(m_nodeBuffer) >= 1
      BY <1>2, SlotFacts, FrameFields DEF Occupied
    <2> QED
      BY <1>2, <1>3, <2>1, NodeCoverInside
  <1>6. ASSUME NEW k \in Homes' \ {new}, [h \in Homes |-> h][k] \in {home}
        PROVE  Inside(held(k)'.m_box, Given')
    <2>1. k = home
      BY <1>3, <1>6
    <2> QED
      BY <1>4, <1>5, <2>1
  <1> QED
    BY <1>2, <1>3, <1>4, <1>5, <1>6, BoundedMoves

\* The insertion ends: its box is one of those inserted from now on.
LEMMA FinishBounded ==
    ASSUME BoundedInv, ShapeInv', Finish
    PROVE  Bounded'
  <1>1. /\ pc = "return" /\ pc' = "idle" /\ frames = <<>>
        /\ inserted' = Append(inserted, r_subNode.m_box)
    BY DEF Finish
  <1>2. /\ ShapeInv /\ TypeOK /\ TypeOK' /\ Shape /\ Occupied /\ Bounded /\ Active
        /\ m_root \in Nodes /\ p_node = m_root /\ inserted \in Seq(Box)
    BY <1>1, PathAbove
    DEF BoundedInv, OccupiedInv, ShapeInv, Shape, Active, TypeOK
  <1>3. Given \subseteq Given'
    <2>1. Given = ToSet(inserted) \cup {r_subNode.m_box}
      BY <1>2 DEF Given
    <2>2. r_subNode.m_box \in Box
      BY <1>2, NodeFields DEF TypeOK
    <2>3. ToSet(inserted') = ToSet(inserted) \cup {r_subNode.m_box}
      <3>1. PICK b \in Box : b = r_subNode.m_box
        BY <2>2
      <3>2. /\ Len(inserted') = Len(inserted) + 1 /\ Len(inserted) \in Nat
            /\ DOMAIN inserted' = 1 .. Len(inserted) + 1
            /\ DOMAIN inserted = 1 .. Len(inserted)
            /\ inserted'[Len(inserted) + 1] = b
            /\ \A i \in 1 .. Len(inserted) : inserted'[i] = inserted[i]
        BY <1>1, <1>2, <3>1
      <3>3. \A i \in 1 .. Len(inserted) + 1 : i \in 1 .. Len(inserted) \/ i = Len(inserted) + 1
        BY <3>2
      <3> QED
        BY <3>1, <3>2, <3>3 DEF ToSet
    <2> QED
      BY <2>1, <2>3 DEF Given
  <1>4. CASE splited
    <2>1. PICK new :
            /\ held(<<new, 0>>)' = childEntry(m_root)
            /\ held(<<new, 1>>)' = childEntry(m_nodeBuffer)
            /\ Moves([h \in Homes |-> h], {<<new, 0>>, <<new, 1>>}, {})
      BY <1>2, <1>4, FinishMoves DEF BoundedInv, OccupiedInv
    <2>2. Pending /\ m_nodeBuffer \in Nodes
      BY <1>1, <1>2, <1>4 DEF Pending, Shape
    <2>3. csize(m_root) >= 1 /\ csize(m_nodeBuffer) >= 1
      BY <1>2, <2>2, SlotFacts, FrameFields DEF Occupied
    <2>4. \A n \in {m_root, m_nodeBuffer} : Inside(childEntry(n).m_box, Given)
      BY <1>2, <2>2, <2>3, NodeCoverInside DEF childEntry
    <2>5. \A n \in {m_root, m_nodeBuffer} : Inside(childEntry(n).m_box, Given')
      BY <1>3, <2>4, InsideMore
    <2>6. PICK h, k : h = <<new, 0>> /\ k = <<new, 1>>
      OBVIOUS
    <2>7. PICK Extra : Extra = {h, k}
      OBVIOUS
    <2>8. /\ Moves([x \in Homes |-> x], Extra, {})
          /\ \A x \in Extra : Inside(held(x)'.m_box, Given')
      BY <2>1, <2>5, <2>6, <2>7
    <2> QED
      BY <1>1, <1>2, <1>3, <2>8, BoundedMoves
  <1>5. CASE ~ splited
    <2>1. heap' = heap
      BY <1>5 DEF Finish
    <2>2. Buffered = {} /\ Buffered' = {}
      BY <1>1 DEF Buffered, Splitting
    <2> QED
      BY <1>1, <1>2, <1>3, <2>1, <2>2, BoundedStill
  <1> QED
    BY <1>4, <1>5

\* Every step keeps the boxes inside the ones that were given.
LEMMA NextBounded == BoundedInv /\ [Next]_vars => BoundedInv'
  <1> SUFFICES ASSUME BoundedInv, [Next]_vars PROVE Bounded'
    BY NextOccupied DEF BoundedInv
  <1>1. /\ ShapeInv' /\ ShapeInv /\ TypeOK /\ TypeOK' /\ Bounded /\ OccupiedInv
    BY NextOccupied DEF BoundedInv, OccupiedInv, ShapeInv
  <1>2. ASSUME UNCHANGED vars PROVE Bounded'
    <2>1. UNCHANGED <<pc, t_overflowBuffer, heap, inserted, r_subNode, next>>
      BY <1>2 DEF vars, splitVars, indexVars, callVars
    <2>2. Buffered' = Buffered /\ Given' = Given
      BY <2>1 DEF Buffered, Splitting, Given, Active, Dead
    <2>3. \A h \in Homes : held(h)' = held(h)
      BY <2>1 DEF held, at, sub
    <2>4. Homes' = Homes
      BY <2>1, <2>2 DEF Homes, Places, Nodes, Used
    <2> QED
      BY <1>1, <2>1, <2>2, <2>3, <2>4 DEF Bounded
  <1>3. ASSUME NEW a_box \in Boxes, Insert(a_box) PROVE Bounded'
    <2>1. pc = "idle" /\ pc' = "insert" /\ heap' = heap /\ inserted' = inserted
      BY <1>3 DEF Insert, indexVars
    <2>2. Buffered = {} /\ Buffered' = {} /\ Given \subseteq Given'
      BY <2>1 DEF Buffered, Splitting, Given, Active, Dead
    <2> QED
      BY <1>1, <2>1, <2>2, BoundedStill
  <1>4. CASE Descend
    <2>1. pc = "insert" /\ pc' = "insert" /\ UNCHANGED <<heap, inserted, r_subNode>>
      BY <1>4 DEF Descend, indexVars
    <2>2. Buffered = {} /\ Buffered' = {} /\ Given' = Given
      BY <2>1, GivenStays DEF Buffered, Splitting, Active
    <2> QED
      BY <1>1, <2>1, <2>2, BoundedStill
  <1>5. CASE DescendNowhere
    BY <1>5, DescendNowhereBounded
  <1>6. CASE AddToLeaf
    BY <1>1, <1>6, AddToLeafBounded
  <1>7. CASE SplitStep /\ UNCHANGED <<indexVars, callVars>>
    <2>1. /\ UNCHANGED <<heap, inserted, r_subNode, t_overflowBuffer>>
          /\ pc \in {"seed", "deal", "rest", "check"}
          /\ pc' \in {"deal", "rest", "check", "assigned", "aborted"}
      BY <1>7, SplitStepFrame DEF indexVars, callVars
    <2>2. Given' = Given
      BY <2>1, GivenStays DEF Active, Splitting, Dead
    <2>3. Homes' \subseteq Homes /\ \A h : held(h)' = held(h)
      <3>1. Buffered' \subseteq Buffered
        BY <2>1 DEF Buffered, Splitting
      <3>2. Places' = Places
        BY <2>1 DEF Places, Nodes, Used
      <3> QED
        BY <2>1, <3>1, <3>2 DEF Homes, held, at, sub
    <2> QED
      BY <1>1, <2>1, <2>2, <2>3 DEF Bounded
  <1>8. CASE AllocateSibling
    <2>1. pc = "assigned" /\ pc' = "fill" /\ UNCHANGED <<inserted, r_subNode>>
      BY <1>8 DEF AllocateSibling
    <2>2. Given' = Given
      BY <2>1, GivenStays DEF Active, Splitting
    <2>3. PICK origin : Moves(origin, {}, {})
      BY <1>1, <1>8, AllocateSiblingMoves
    <2> QED
      BY <1>1, <2>1, <2>2, <2>3, BoundedMoves
  <1>9. CASE FillNext
    <2>1. pc = "fill" /\ pc' = "fill" /\ UNCHANGED <<inserted, r_subNode>>
      BY <1>1, <1>9, FillNextMoves DEF FillNext
    <2>2. Given' = Given
      BY <2>1, GivenStays DEF Active
    <2>3. PICK origin : Moves(origin, {}, {})
      BY <1>1, <1>9, FillNextMoves
    <2> QED
      BY <1>1, <2>1, <2>2, <2>3, BoundedMoves
  <1>10. CASE FillDone
    <2>1. /\ pc = "fill" /\ pc' = "return" /\ next = Size
          /\ UNCHANGED <<heap, inserted, r_subNode>>
      BY <1>10 DEF FillDone
    <2>2. Buffered = {} /\ Buffered' = {} /\ Given' = Given
      BY <2>1, SlotFacts, GivenStays DEF Buffered, Splitting, Active
    <2> QED
      BY <1>1, <2>1, <2>2, BoundedStill
  <1>11. CASE ReturnUnsplit
    BY <1>1, <1>11, ReturnUnsplitBounded
  <1>12. CASE ReturnSplit
    BY <1>1, <1>12, ReturnSplitBounded
  <1>13. CASE DanglingRead
    <2>1. /\ pc = "return" /\ pc' = "undefined"
          /\ UNCHANGED <<heap, inserted, r_subNode>>
      BY <1>13 DEF DanglingRead, indexVars, callVars
    <2>2. Buffered = {} /\ Buffered' = {} /\ Given' = Given
      BY <2>1, GivenStays DEF Buffered, Splitting, Active, Dead
    <2> QED
      BY <1>1, <2>1, <2>2, BoundedStill
  <1>14. CASE Finish
    BY <1>1, <1>14, FinishBounded
  <1>15. CASE Stopped
    BY <1>2, <1>15 DEF Stopped
  <1> QED
    BY <1>2, <1>3, <1>4, <1>5, <1>6, <1>7, <1>8, <1>9, <1>10, <1>11, <1>12,
       <1>13, <1>14, <1>15 DEF Next, InsertStep

LEMMA InitBounded == Init => BoundedInv
  <1> SUFFICES ASSUME Init PROVE BoundedInv
    OBVIOUS
  <1>1. heap = <<NewNode(0)>> /\ Len(heap) = 1 /\ pc = "idle"
    BY DEF Init
  <1>2. Homes = {}
    <2>1. Nodes = {1} /\ \A s : s \notin Used(1)
      BY <1>1 DEF Nodes, Used, NewNode, Slots
    <2> QED
      BY <1>1, <2>1 DEF Homes, Places, Buffered, Splitting
  <1>3. OccupiedInv
    BY InitTree DEF TreeInv
  <1> QED
    BY <1>1, <1>2, <1>3 DEF BoundedInv, Bounded

LEMMA BoundedInvariant == Spec => []BoundedInv
  BY InitBounded, NextBounded, PTL DEF Spec

\* SelectBestSubNode uses its initial index of -1 only when the box around all
\* that was inserted, the new entry included, has no finite area: an infinite
\* one, or none when an overflow meets an axis along which the box is flat.
THEOREM SpatialIndexInBounds == Spec => []IndexInBounds
  <1>1. BoundedInv => IndexInBounds
    BY DEF BoundedInv, Bounded, IndexInBounds, Given, Dead
  <1> QED
    BY <1>1, BoundedInvariant, PTL
=============================================================================
