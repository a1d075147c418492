--------------------------- MODULE SpatialDestroy ---------------------------
(***************************************************************************)
(* The destructor of SpatialIndex on the tree that Insert builds: the      *)
(* activations of RecursivelyDeleteNode visit all MaxChildren slots of a   *)
(* node, used or not, and then free the node.                              *)
(***************************************************************************)
EXTENDS SpatialIndex

VARIABLES
    deleting,   \* activations of RecursivelyDeleteNode, innermost last
    freed       \* the nodes deleted so far

allVars == <<vars, deleting, freed>>

DestroyInit == Init /\ deleting = <<>> /\ freed = {}

treeVars == <<splitVars, indexVars, callVars>>

\* Mutant: the first slot is skipped.
Destroy_FromOne ==
    /\ pc = "idle"
    /\ pc' = "destroy"
    /\ deleting' = <<[p_node |-> m_root, slot |-> 1]>>
    /\ UNCHANGED <<treeVars, freed>>

\* ~SpatialIndex()
Destroy ==
    /\ pc = "idle"
    /\ pc' = "destroy"
    /\ deleting' = <<[p_node |-> m_root, slot |-> 0]>>
    /\ UNCHANGED <<treeVars, freed>>

top == Last(deleting)

\* Mutant: the loop stays at an empty slot.
DeleteChild_Stuck ==
    /\ pc = "destroy"
    /\ deleting # <<>>
    /\ top.slot < MaxChildren
    /\ LET child == sub(top.p_node, top.slot).m_child
           resumed == Append(Front(deleting), [top EXCEPT !.slot = @ + 1])
       IN IF child = nullptr
            THEN UNCHANGED <<pc, deleting>>
            ELSE /\ deleting' = Append(resumed, [p_node |-> child, slot |-> 0])
                 /\ pc' = IF child \in freed THEN "useAfterFree" ELSE pc
    /\ UNCHANGED <<treeVars, freed>>

\* The loop's call for the child of the next slot, a null pointer or a node.
\* Memory that is freed must not be read: the program is undefined from there.
DeleteChild ==
    /\ pc = "destroy"
    /\ deleting # <<>>
    /\ top.slot < MaxChildren
    /\ LET child == sub(top.p_node, top.slot).m_child
           resumed == Append(Front(deleting), [top EXCEPT !.slot = @ + 1])
       IN IF child = nullptr
            THEN deleting' = resumed /\ UNCHANGED pc
            ELSE /\ deleting' = Append(resumed, [p_node |-> child, slot |-> 0])
                 /\ pc' = IF child \in freed THEN "useAfterFree" ELSE pc
    /\ UNCHANGED <<treeVars, freed>>

DeleteNode ==
    /\ pc = "destroy"
    /\ deleting # <<>>
    /\ top.slot = MaxChildren
    /\ freed' = freed \cup {top.p_node}
    /\ deleting' = Front(deleting)
    /\ UNCHANGED <<pc, treeVars>>

Destroyed ==
    /\ pc = "destroy"
    /\ deleting = <<>>
    /\ pc' = "destroyed"
    /\ UNCHANGED <<treeVars, deleting, freed>>

DestroyStep == DeleteChild \/ DeleteNode \/ Destroyed

Over == pc \in {"destroyed", "useAfterFree"} /\ UNCHANGED allVars

DestroyNext == \/ Next /\ UNCHANGED <<deleting, freed>>
               \/ Destroy \/ DestroyStep \/ Over

DestroySpec == DestroyInit /\ [][DestroyNext]_allVars

\* The destructor, like Insert, runs in its caller's thread until it is done.
FairDestroySpec ==
    /\ DestroySpec
    /\ WF_allVars(DestroyStep)
    /\ WF_allVars(InsertStep /\ UNCHANGED <<deleting, freed>>)
-----------------------------------------------------------------------------
\* Slots above m_csize that still point to a node: SplitNode resets m_csize
\* but not the slots, so they hold children that now belong elsewhere.
StaleChildren ==
    {p \in Nodes \X Slots : p[2] \notin Used(p[1]) /\ at(p).m_child # nullptr}

\* The destructor frees every node unless a stale slot is left, and with a
\* stale slot it never gets through: it frees some node before its last visit.
FreedUnlessStale ==
    /\ pc = "destroyed" => freed = Nodes /\ StaleChildren = {}
    /\ pc = "useAfterFree" => StaleChildren # {}

\* A slot is stale only in an inner node: while the tree has one level below
\* its root, the destructor is safe.
LowTreesFreed ==
    pc = "useAfterFree" => heap[m_root].m_height >= 2

\* "This function deletes the given node and all its children recursively"
\* (spatialIndex.hpp:222): it reaches no node a second time.
DeletesEachNodeOnce == pc # "useAfterFree"

\* The destructor ends, one way or the other.
DestroyEnds == pc = "destroy" ~> pc \in {"destroyed", "useAfterFree"}
=============================================================================
