---------------------------- MODULE SpatialIndex ----------------------------
(***************************************************************************)
(* SpatialIndex::Insert and everything it calls: the R-tree in the heap,   *)
(* the descent of RecursivelyInsertSubNode to a leaf, the splits on the    *)
(* way back and the growth of the root.  The recursion is unfolded: frames *)
(* holds the activations that wait for a child, innermost last, and one    *)
(* action is one activation's work between two calls.                      *)
(***************************************************************************)
EXTENDS NodeSplit, SequencesExt

CONSTANTS Boxes,        \* the boxes Insert is called with
          MaxInserts    \* bound: Insert is called at most this often

ASSUME BoxesAssumption == Boxes \subseteq Box
ASSUME MaxInsertsAssumption == MaxInserts \in Nat

VARIABLES
    heap,           \* the nodes allocated so far; a pointer is an index
    m_root, m_size,
    m_nodeBuffer,   \* the node found behind the pointer of that name
    r_subNode,      \* the entry being inserted
    p_node,         \* the argument of the innermost activation
    frames,         \* the activations that called RecursivelyInsertSubNode
    splited,        \* the value the last activation returned
    next,           \* index of the loop that fills the two halves
    inserted        \* history: the boxes of the Insert calls that returned

indexVars == <<heap, m_root, m_size, m_nodeBuffer, inserted>>
callVars == <<r_subNode, p_node, frames, splited, next>>
vars == <<pc, splitVars, indexVars, callVars>>

Slots == 0 .. MaxChildren - 1

Node == [m_csize : 0 .. MaxChildren, m_height : Nat,
         m_subNodes : [Slots -> SubNode]]

NewNode(height) == [m_csize |-> 0, m_height |-> height,
                    m_subNodes |-> [s \in Slots |-> NoEntry]]

Nodes == 1 .. Len(heap)
isLeaf(n) == heap[n].m_height = 0

\* The slots below m_csize; what lies above is left from before a split.
Used(n) == {s \in Slots : s < heap[n].m_csize}
sub(n, s) == heap[n].m_subNodes[s]

\* NodeCover: the first slot's box, united with those of the other used ones.
NodeCover(h, n) ==
    Cover({h[n].m_subNodes[0].m_box} \cup
          {h[n].m_subNodes[s].m_box : s \in 0 .. h[n].m_csize - 1})

WithBox(h, n, s, b) == [h EXCEPT ![n].m_subNodes[s].m_box = b]

\* The branch of AddSubNode taken when the node has room.
Placed(h, entry, n) ==
    [h EXCEPT ![n].m_subNodes[h[n].m_csize] = entry,
              ![n].m_csize = h[n].m_csize + 1]

\* Mutant: a full node takes one more.
AddSubNode_OffByOne(h, entry, n) ==
    IF h[n].m_csize <= MaxChildren
      THEN /\ heap' = Placed(h, entry, n)
           /\ splited' = FALSE
           /\ pc' = "return"
           /\ UNCHANGED splitVars
      ELSE UNCHANGED <<pc, splitVars, heap, splited>>

\* AddSubNode on heap h: store the entry and return, or start to split.
AddSubNode(h, entry, n) ==
    IF h[n].m_csize < MaxChildren
      THEN /\ heap' = Placed(h, entry, n)
           /\ splited' = FALSE
           /\ pc' = "return"
           /\ UNCHANGED splitVars
      ELSE /\ heap' = h
           /\ StartSplit([i \in Overflow |->
                IF i < MaxChildren THEN h[n].m_subNodes[i] ELSE entry])
           /\ UNCHANGED splited
-----------------------------------------------------------------------------
Init ==
    /\ pc = "idle"
    /\ NoLocals
    /\ heap = <<NewNode(0)>>
    /\ m_root = 1
    /\ m_size = 0
    /\ m_nodeBuffer = nullptr
    /\ r_subNode = NoEntry
    /\ p_node = nullptr
    /\ frames = <<>>
    /\ splited = FALSE
    /\ next = 0
    /\ inserted = <<>>

\* Insert is called; InsertSubNode passes the root on.
Insert(a_box) ==
    /\ pc = "idle"
    /\ m_size < MaxInserts
    /\ r_subNode' = [m_box |-> a_box, m_child |-> nullptr,
                     m_data |-> m_size + 1]
    /\ p_node' = m_root
    /\ pc' = "insert"
    /\ UNCHANGED <<splitVars, indexVars, frames, splited, next>>

\* SelectBestSubNode: least increase in area, then least area, then first.
increase(n, s) ==
    minus[area(UnionBox(r_subNode.m_box, sub(n, s).m_box))][
          area(sub(n, s).m_box)]

\* Mutant: only a child that need not grow is better than none.
Improves_NoGrowth(n, s) == encloses(sub(n, s).m_box, r_subNode.m_box)

\* An increase that is infinite, or no number, is not below the initial one.
Improves(n, s) == increase(n, s) \in Finite

Candidates(n) == {s \in Used(n) : Improves(n, s)}

IsBestSubNode(n, index) ==
    \A s \in Candidates(n) \ {index} :
        \/ increase(n, index) < increase(n, s)
        \/ /\ increase(n, index) = increase(n, s)
           /\ \/ area(sub(n, index).m_box) < area(sub(n, s).m_box)
              \/ area(sub(n, index).m_box) = area(sub(n, s).m_box)
                 /\ index < s

\* RecursivelyInsertSubNode on an inner node calls itself on the best child.
Descend ==
    /\ pc = "insert"
    /\ ~ isLeaf(p_node)
    /\ \E index \in Candidates(p_node) :
         /\ IsBestSubNode(p_node, index)
         /\ frames' = Append(frames, [p_node |-> p_node, index |-> index])
         /\ p_node' = sub(p_node, index).m_child
    /\ UNCHANGED <<pc, splitVars, indexVars, r_subNode, splited, next>>

\* No child improves on the initial best: the index stays -1, and is used.
DescendNowhere ==
    /\ pc = "insert"
    /\ ~ isLeaf(p_node)
    /\ Candidates(p_node) = {}
    /\ pc' = "wildIndex"
    /\ UNCHANGED <<splitVars, indexVars, callVars>>

AddToLeaf ==
    /\ pc = "insert"
    /\ isLeaf(p_node)
    /\ AddSubNode(heap, r_subNode, p_node)
    /\ UNCHANGED <<m_root, m_size, m_nodeBuffer, inserted,
                   r_subNode, p_node, frames, next>>

\* Mutant: the sibling is always made a leaf.
AllocateSibling_Leaf ==
    /\ pc = "assigned"
    /\ heap' = Append([heap EXCEPT ![p_node].m_csize = 0], NewNode(0))
    /\ next' = 0
    /\ pc' = "fill"
    /\ UNCHANGED <<splitVars, m_root, m_size, m_nodeBuffer, inserted,
                   r_subNode, p_node, frames, splited>>

\* SplitNode once the groups are settled: the node is emptied, and its new
\* sibling allocated.
AllocateSibling ==
    /\ pc = "assigned"
    /\ heap' = Append([heap EXCEPT ![p_node].m_csize = 0],
                      NewNode(heap[p_node].m_height))
    /\ next' = 0
    /\ pc' = "fill"
    /\ UNCHANGED <<splitVars, m_root, m_size, m_nodeBuffer, inserted,
                   r_subNode, p_node, frames, splited>>

t_node == Len(heap)
target(i) == IF m_groupAssign[i] = 0 THEN p_node ELSE t_node

\* One iteration of the loop that fills the two nodes.
FillNext ==
    /\ pc = "fill"
    /\ next < Size
    /\ IF heap[target(next)].m_csize < MaxChildren
         THEN /\ heap' = Placed(heap, t_overflowBuffer[next], target(next))
              /\ next' = next + 1
              /\ UNCHANGED pc
         ELSE pc' = "aborted" /\ UNCHANGED <<heap, next>>
    /\ UNCHANGED <<splitVars, m_root, m_size, m_nodeBuffer, inserted,
                   r_subNode, p_node, frames, splited>>

\* Mutant: the loop may end before the last entry is stored.
FillDone_Early ==
    /\ pc = "fill"
    /\ next >= MaxChildren
    /\ m_nodeBuffer' = t_node
    /\ splited' = TRUE
    /\ pc' = "return"
    /\ next' = 0
    /\ DropLocals
    /\ UNCHANGED <<heap, m_root, m_size, inserted, r_subNode, p_node, frames>>

\* SplitNode and the AddSubNode that called it return.  m_nodeBuffer is set
\* to the address of the local t_node; what is behind it is modelled instead.
FillDone ==
    /\ pc = "fill"
    /\ next = Size
    /\ m_nodeBuffer' = t_node
    /\ splited' = TRUE
    /\ pc' = "return"
    /\ next' = 0
    /\ DropLocals
    /\ UNCHANGED <<heap, m_root, m_size, inserted, r_subNode, p_node, frames>>

caller == Last(frames)

\* Mutant: the activation never returns to its own caller.
ReturnUnsplit_Again ==
    /\ pc = "return"
    /\ ~ splited
    /\ frames # <<>>
    /\ heap' = WithBox(heap, caller.p_node, caller.index,
                       UnionBox(sub(caller.p_node, caller.index).m_box,
                                r_subNode.m_box))
    /\ UNCHANGED <<pc, splitVars, m_root, m_size, m_nodeBuffer, inserted,
                   r_subNode, splited, next, p_node, frames>>

\* The child was not split: its box grows by the new entry's.
ReturnUnsplit ==
    /\ pc = "return"
    /\ ~ splited
    /\ frames # <<>>
    /\ heap' = WithBox(heap, caller.p_node, caller.index,
                       UnionBox(sub(caller.p_node, caller.index).m_box,
                                r_subNode.m_box))
    /\ p_node' = caller.p_node
    /\ frames' = Front(frames)
    /\ UNCHANGED <<pc, splitVars, m_root, m_size, m_nodeBuffer, inserted,
                   r_subNode, splited, next>>

\* Mutant: the box of the child that was split is left as it was.
ReturnSplit_KeepsBox ==
    /\ pc = "return"
    /\ splited
    /\ frames # <<>>
    /\ AddSubNode(heap,
                  [m_box |-> NodeCover(heap, m_nodeBuffer),
                   m_child |-> m_nodeBuffer, m_data |-> NoData],
                  caller.p_node)
    /\ p_node' = caller.p_node
    /\ frames' = Front(frames)
    /\ UNCHANGED <<m_root, m_size, m_nodeBuffer, inserted, r_subNode, next>>

\* The child was split: its box shrinks to what is left in it, and the
\* sibling found through m_nodeBuffer becomes an entry of this node.
ReturnSplit ==
    /\ pc = "return"
    /\ splited
    /\ frames # <<>>
    /\ AddSubNode(WithBox(heap, caller.p_node, caller.index,
                          NodeCover(heap, p_node)),
                  [m_box |-> NodeCover(heap, m_nodeBuffer),
                   m_child |-> m_nodeBuffer, m_data |-> NoData],
                  caller.p_node)
    /\ p_node' = caller.p_node
    /\ frames' = Front(frames)
    /\ UNCHANGED <<m_root, m_size, m_nodeBuffer, inserted, r_subNode, next>>

\* The pointer in m_nodeBuffer outlives the local it points to.  Every build
\* measured still finds the node there; one that does not has no behaviour.
DanglingRead ==
    /\ pc = "return"
    /\ splited
    /\ pc' = "undefined"
    /\ UNCHANGED <<splitVars, indexVars, callVars>>

\* Mutant: both entries of a new root lead to the old one.
childEntry_Root(n) ==
    [m_box |-> NodeCover(heap, n), m_child |-> m_root, m_data |-> NoData]

childEntry(n) ==
    [m_box |-> NodeCover(heap, n), m_child |-> n, m_data |-> NoData]

\* Mutant: only the sibling is put under the new root.
GrownHeap_OneChild ==
    Placed(Append(heap, NewNode(heap[m_root].m_height + 1)),
           childEntry(m_nodeBuffer), Len(heap) + 1)

\* InsertSubNode puts a new root above the two halves of the old one.
GrownHeap ==
    LET grown == Append(heap, NewNode(heap[m_root].m_height + 1))
        withOld == Placed(grown, childEntry(m_root), Len(grown))
    IN Placed(withOld, childEntry(m_nodeBuffer), Len(grown))

\* InsertSubNode returns to Insert, and Insert to its caller.
Finish ==
    /\ pc = "return"
    /\ frames = <<>>
    /\ IF splited THEN heap' = GrownHeap /\ m_root' = Len(heap) + 1
                  ELSE UNCHANGED <<heap, m_root>>
    /\ m_size' = m_size + 1
    /\ inserted' = Append(inserted, r_subNode.m_box)
    /\ pc' = "idle"
    /\ r_subNode' = NoEntry
    /\ p_node' = nullptr
    /\ splited' = FALSE
    /\ UNCHANGED <<splitVars, m_nodeBuffer, frames, next>>

\* An assertion failed, or the program is undefined from here.
Dead == pc \in {"aborted", "undefined", "wildIndex"}

\* The program is dead, or no further Insert is made.
Stopped ==
    /\ \/ Dead
       \/ pc = "idle" /\ m_size = MaxInserts
    /\ UNCHANGED vars

InsertStep ==
    \/ Descend \/ DescendNowhere \/ AddToLeaf
    \/ SplitStep /\ UNCHANGED <<indexVars, callVars>>
    \/ AllocateSibling \/ FillNext \/ FillDone
    \/ ReturnUnsplit \/ ReturnSplit \/ DanglingRead \/ Finish

Next == (\E a_box \in Boxes : Insert(a_box)) \/ InsertStep \/ Stopped

Spec == Init /\ [][Next]_vars

\* Insert runs in its caller's thread: once called it keeps running.
FairSpec == Spec /\ WF_vars(InsertStep)
-----------------------------------------------------------------------------
\* Every variable keeps the type of the C++ variable it models.
TypeOK ==
    /\ pc \in {"idle", "insert", "seed", "deal", "rest", "check", "assigned",
               "fill", "return", "aborted", "undefined", "wildIndex",
               "destroy", "destroyed", "useAfterFree"}  \* SpatialDestroy
    /\ LocalsOK
    /\ heap \in Seq(Node)
    /\ m_root \in Nodes
    /\ m_size \in 0 .. MaxInserts
    /\ m_nodeBuffer \in Nodes \cup {nullptr}
    /\ r_subNode \in SubNode
    /\ p_node \in Nodes \cup {nullptr}
    /\ frames \in Seq([p_node : Nodes, index : Slots])
    /\ splited \in BOOLEAN
    /\ next \in 0 .. Size
    /\ inserted \in Seq(Box)

\* The places of heap at which a SubNode is stored.
Places == {p \in Nodes \X Slots : p[2] \in Used(p[1])}
at(p) == sub(p[1], p[2])
onPath(p) == \E i \in DOMAIN frames :
                frames[i].p_node = p[1] /\ frames[i].index = p[2]

\* All leaves are equally deep: a child is one level below its parent, and
\* only leaves store entries, at every moment of an insertion.
HeightsStep ==
    \A p \in Places :
        IF isLeaf(p[1])
          THEN at(p).m_child = nullptr /\ at(p).m_data # NoData
          ELSE /\ at(p).m_child \in Nodes
               /\ heap[at(p).m_child].m_height = heap[p[1]].m_height - 1

\* What every Insert leaves behind: no node but the root has fewer than
\* MinChildren entries, and an inner root has two or more.
Occupancy ==
    pc = "idle" => \A n \in Nodes :
        /\ n # m_root => heap[n].m_csize >= MinChildren
        /\ n = m_root /\ ~ isLeaf(n) => heap[n].m_csize >= 2

\* No node is lost and none is shared: between two calls every node but the
\* root is the child of exactly one place, and the root of none.
NodesLinkedOnce ==
    pc = "idle" => \A n \in Nodes :
        Cardinality({p \in Places : at(p).m_child = n})
          = IF n = m_root THEN 0 ELSE 1

\* The box stored with a child is the smallest one around the child's own
\* entries, except on the way from the root to the activation in progress.
BoxesExact ==
    \A p \in Places :
        ~ isLeaf(p[1]) /\ ~ onPath(p) =>
            at(p).m_box = NodeCover(heap, at(p).m_child)

\* The copies of the entry of the k-th Insert: in the leaves, and in the
\* buffer of a leaf's split that is being copied back.
CopiesInLeaves(k) == {p \in Places : at(p).m_data = k}
CopiesInBuffer(k) ==
    {i \in Overflow : pc = "fill" /\ i >= next /\ t_overflowBuffer[i].m_data = k}

\* No insertion, at any of its steps, loses, duplicates or alters an entry
\* stored before, and the new entry is stored once when it returns.
EntriesKept ==
    /\ \A k \in 1 .. m_size :
         /\ Cardinality(CopiesInLeaves(k)) + Cardinality(CopiesInBuffer(k)) = 1
         /\ \A p \in CopiesInLeaves(k) : at(p).m_box = inserted[k]
    /\ pc = "return" => Cardinality(CopiesInLeaves(m_size + 1)) = 1
    /\ pc = "idle" => CopiesInLeaves(m_size + 1) = {}

\* The descent finds a child unless areas overflow: the index -1 is used only
\* when the box around everything inserted, the new entry included, has an
\* area that is infinite, or no number because the box is flat as well.
IndexInBounds ==
    pc = "wildIndex" =>
        area(Cover(ToSet(inserted) \cup {r_subNode.m_box})) \notin Finite

\* An Insert that neither fails an assertion nor trips over the dangling
\* pointer returns: the descent ends in a leaf and the splits end at the root.
InsertReturns ==
    pc = "insert" ~> pc = "idle" \/ Dead
=============================================================================
