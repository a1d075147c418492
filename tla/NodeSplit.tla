----------------------------- MODULE NodeSplit -----------------------------
(***************************************************************************)
(* SplitNode and AssignGroup of SpatialIndex (spatialIndex.cpp): the       *)
(* MaxChildren entries of a full node and the one that did not fit are     *)
(* dealt out to two groups.  One action per step of the function: the      *)
(* choice of the seeds, one iteration of each of its loops, and its block  *)
(* of assertions.  A failed assertion ends the program: pc = "aborted".    *)
(*                                                                         *)
(* SplitCalls closes the module with a caller that splits one node after   *)
(* another; SpatialIndex extends it with the tree around it.               *)
(***************************************************************************)
EXTENDS BoundingBox

CONSTANTS MaxChildren, MinChildren

\* The static_assert of the class, and the five places of t_overflowBuffer:
\* with more children SplitNode writes past the end of the array.
ASSUME ChildrenAssumption ==
    /\ MaxChildren \in Nat /\ MinChildren \in Nat \ {0}
    /\ MinChildren < MaxChildren
    /\ MaxChildren + 1 <= 5

VARIABLES
    pc,                 \* where the sequential program is
    t_overflowBuffer,   \* the MaxChildren + 1 entries being dealt out
    m_groupAssign,      \* the group of each, -1 when it has none yet
    m_groups,           \* the box and the count of group 0 and group 1
    group               \* the group that takes what the main loop leaves

splitVars == <<t_overflowBuffer, m_groupAssign, m_groups, group>>

\* A SubNode: a data entry in a leaf, a child node elsewhere.  Nodes are
\* numbered from 1 and the payload is the number of the Insert call.
nullptr == 0
NoData == 0
SubNode == [m_box : Box, m_child : Nat, m_data : Nat]
NoEntry == [m_box |-> Origin, m_child |-> nullptr, m_data |-> NoData]

Overflow == 0 .. MaxChildren
Size == MaxChildren + 1

EmptyGroup == [m_box |-> Origin, m_count |-> 0]

count(g) == m_groups[g].m_count
Unassigned == {i \in Overflow : m_groupAssign[i] = -1}
Members(g) == {i \in Overflow : m_groupAssign[i] = g}
boxOf(i) == t_overflowBuffer[i].m_box

\* The types of the locals of SplitNode: part of the callers' TypeOK.
LocalsOK ==
    /\ t_overflowBuffer \in [Overflow -> SubNode]
    /\ m_groupAssign \in [Overflow -> {-1, 0, 1}]
    /\ m_groups \in [{0, 1} -> [m_box : Box, m_count : 0 .. Size]]
    /\ group \in {-1, 0, 1}

\* Mutants of Joined: the box shrinks, the count sticks, the first entry is
\* united with the default box.
Joined_Shrinks(g, index) ==
    [m_box |-> IF count(g) = 0 THEN boxOf(index)
               ELSE intersection(m_groups[g].m_box, boxOf(index)),
     m_count |-> count(g) + 1]
Joined_CountSticks(g, index) ==
    [m_box |-> IF count(g) = 0 THEN boxOf(index)
               ELSE UnionBox(m_groups[g].m_box, boxOf(index)),
     m_count |-> 1]
Joined_FromDefault(g, index) ==
    [m_box |-> UnionBox(m_groups[g].m_box, boxOf(index)),
     m_count |-> count(g) + 1]

\* Group g once index has joined it.
Joined(g, index) ==
    [m_box |-> IF count(g) = 0 THEN boxOf(index)
               ELSE UnionBox(m_groups[g].m_box, boxOf(index)),
     m_count |-> count(g) + 1]

AssignGroup(index, g) ==
    /\ m_groupAssign' = [m_groupAssign EXCEPT ![index] = g]
    /\ m_groups' = [m_groups EXCEPT ![g] = Joined(g, index)]

\* The lower bounds along dim are not all equal.
Spread(dim) == \E i, j \in Overflow :
                   minBound(boxOf(i), dim) < minBound(boxOf(j), dim)

\* Mutants: the last of equal bounds; the least bound for the greatest.
IsMinIndex_Last(i, dim) ==
    \A j \in Overflow :
        /\ minBound(boxOf(i), dim) <= minBound(boxOf(j), dim)
        /\ j > i => minBound(boxOf(i), dim) < minBound(boxOf(j), dim)
IsMaxIndex_Least(i, dim) ==
    \A j \in Overflow :
        /\ maxBound(boxOf(i), dim) <= maxBound(boxOf(j), dim)
        /\ j < i => maxBound(boxOf(i), dim) < maxBound(boxOf(j), dim)

\* minIndex and maxIndex: the first entry with the least min(dim) and the
\* first with the greatest max(dim).
IsMinIndex(i, dim) ==
    \A j \in Overflow :
        /\ minBound(boxOf(i), dim) <= minBound(boxOf(j), dim)
        /\ j < i => minBound(boxOf(i), dim) < minBound(boxOf(j), dim)

IsMaxIndex(i, dim) ==
    \A j \in Overflow :
        /\ maxBound(boxOf(i), dim) >= maxBound(boxOf(j), dim)
        /\ j < i => maxBound(boxOf(i), dim) > maxBound(boxOf(j), dim)

\* max(dim) of the whole buffer's box is its min(dim), so the denominator of
\* every normalized separation is 0: the separation is infinite along a
\* dimension with a spread and NaN along the others, and the first infinite
\* one is never beaten.  Without one the seeds keep their initial 0.
AreSeeds(seed0, seed1) ==
    \/ \E dim \in Axes : /\ Spread(dim)
                         /\ \A d \in Axes : d < dim => ~ Spread(d)
                         /\ IsMinIndex(seed0, dim) /\ IsMaxIndex(seed1, dim)
    \/ (\A dim \in Axes : ~ Spread(dim)) /\ seed0 = 0 /\ seed1 = 0

\* The locals of SplitNode before its activation and after it.
NoLocals ==
    /\ t_overflowBuffer = [i \in Overflow |-> NoEntry]
    /\ m_groupAssign = [i \in Overflow |-> -1]
    /\ m_groups = [g \in {0, 1} |-> EmptyGroup]
    /\ group = -1

DropLocals ==
    /\ t_overflowBuffer' = [i \in Overflow |-> NoEntry]
    /\ m_groupAssign' = [i \in Overflow |-> -1]
    /\ m_groups' = [g \in {0, 1} |-> EmptyGroup]
    /\ group' = -1

\* The buffer is filled and every group is empty.
StartSplit(entries) ==
    /\ t_overflowBuffer' = entries
    /\ m_groupAssign' = [i \in Overflow |-> -1]
    /\ m_groups' = [g \in {0, 1} |-> EmptyGroup]
    /\ group' = -1
    /\ pc' = "seed"

PickSeeds ==
    /\ pc = "seed"
    /\ \E seed0, seed1 \in Overflow :
         /\ AreSeeds(seed0, seed1)
         /\ seed0 # seed1
         /\ m_groupAssign' = [m_groupAssign EXCEPT ![seed0] = 0,
                                                   ![seed1] = 1]
         /\ m_groups' = [g \in {0, 1} |->
                           Joined(g, IF g = 0 THEN seed0 ELSE seed1)]
    /\ pc' = "deal"
    /\ UNCHANGED <<t_overflowBuffer, group>>

\* One entry is both seeds: the second AssignGroup finds it taken and its
\* assertion fails.
SeedsCollide ==
    /\ pc = "seed"
    /\ \E seed \in Overflow : AreSeeds(seed, seed) /\ AssignGroup(seed, 0)
    /\ pc' = "aborted"
    /\ UNCHANGED <<t_overflowBuffer, group>>

unionWith(g, index) == UnionBox(boxOf(index), m_groups[g].m_box)

\* By how much group g grows.
growth(g, index) == minus[area(unionWith(g, index))][area(m_groups[g].m_box)]

\* diff, the distance of both growths: infinity less infinity is no number.
diff(index) ==
    LET growths == {growth(g, index) : g \in {0, 1}}
    IN IF NaN \in growths \/ growths = {Infinity} THEN NaN
       ELSE IF Infinity \in growths THEN Infinity
       ELSE Max(growths) - Min(growths)

\* The group that grows less by taking index, group 0 when both grow alike;
\* what is no number is not greater or equal to 0.
betterGroup(index) ==
    IF diff(index) # NaN /\ growth(1, index) >= growth(0, index) THEN 0 ELSE 1

\* Mutant: ties are not broken by the counts.
IsChosen_NoTieBreak(index) ==
    LET best == {i \in Unassigned : \A j \in Unassigned : diff(j) <= diff(i)}
    IN index \in best /\ \A j \in best : index <= j

\* What the scan over the unassigned entries ends with: the first whose two
\* growths differ most, unless a later such entry wants the smaller group.
\* Without a number no comparison holds: the first entry is then not replaced,
\* and a later one does not replace it.
IsChosen(index) ==
    \E distance \in {[i \in Unassigned |-> diff(i)]} :
      \E farthest \in {Max({distance[i] : i \in Unassigned})} :
        LET best == {i \in Unassigned : distance[i] = farthest}
            wanted == {i \in best : count(betterGroup(i))
                                      < count(1 - betterGroup(i))}
            pool == IF distance[Min(Unassigned)] = NaN THEN {Min(Unassigned)}
                    ELSE IF wanted = {} THEN best ELSE wanted
        IN index = Min(pool)

\* Mutant: dealing stops one entry late.
KeepDealing_Late ==
    /\ count(0) + count(1) < Size
    /\ count(0) <= Size - MinChildren
    /\ count(1) <= Size - MinChildren

KeepDealing ==
    /\ count(0) + count(1) < Size
    /\ count(0) < Size - MinChildren
    /\ count(1) < Size - MinChildren

AssignChosen ==
    /\ pc = "deal"
    /\ KeepDealing
    /\ \E index \in Unassigned :
         IsChosen(index) /\ AssignGroup(index, betterGroup(index))
    /\ UNCHANGED <<pc, t_overflowBuffer, group>>

\* Mutant: what the main loop leaves is forgotten.
StopDealing_NoRest ==
    /\ pc = "deal"
    /\ count(0) + count(1) = Size
    /\ pc' = "check"
    /\ UNCHANGED splitVars

\* The main loop is over; the entries it left all go to one group.
StopDealing ==
    /\ pc = "deal"
    /\ ~ KeepDealing
    /\ IF count(0) + count(1) < Size
         THEN /\ group' = IF count(0) >= Size - MinChildren THEN 1 ELSE 0
              /\ pc' = "rest"
         ELSE pc' = "check" /\ UNCHANGED group
    /\ UNCHANGED <<t_overflowBuffer, m_groupAssign, m_groups>>

AssignRest ==
    /\ pc = "rest"
    /\ \E index \in Unassigned :
         /\ \A j \in Unassigned : index <= j
         /\ AssignGroup(index, group)
    /\ UNCHANGED <<pc, t_overflowBuffer, group>>

RestAssigned ==
    /\ pc = "rest"
    /\ Unassigned = {}
    /\ pc' = "check"
    /\ UNCHANGED splitVars

\* The assertions after the assignment.
CheckGroups ==
    /\ pc = "check"
    /\ pc' = IF /\ count(0) + count(1) = Size
                /\ count(0) >= MinChildren
                /\ count(1) >= MinChildren
               THEN "assigned" ELSE "aborted"
    /\ UNCHANGED splitVars

SplitStep == \/ PickSeeds \/ SeedsCollide \/ AssignChosen \/ StopDealing
             \/ AssignRest \/ RestAssigned \/ CheckGroups
-----------------------------------------------------------------------------
\* The counts AssignGroup increments, which decide when dealing stops, are the
\* numbers of entries marked with each group.
CountsMatch == \A g \in {0, 1} : count(g) = Cardinality(Members(g))
=============================================================================
