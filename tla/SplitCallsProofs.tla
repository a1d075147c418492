-------------------------- MODULE SplitCallsProofs --------------------------
(***************************************************************************)
(* SplitNode keeps its types, its counts and the boxes of its groups, for  *)
(* every number of dimensions, every box and every admissible MaxChildren  *)
(* and MinChildren; and when a node can be halved at all, no assertion but *)
(* the one on the seeds can fail.  The two choices of a split, stated in   *)
(* NodeSplit by what they pick, are what the loops of the code come to.    *)
(***************************************************************************)
EXTENDS SplitCalls, NodeSplitProofs

\* What the counts are worth at each place of the program: dealing keeps both
\* groups small enough for the other to reach MinChildren.
Progress ==
    /\ pc = "seed" => Unassigned = Overflow
    /\ pc = "deal" => \A g \in {0, 1} : count(g) \in 1 .. Size - MinChildren
    /\ pc = "rest" => /\ group \in {0, 1}
                      /\ count(1 - group) = Size - MinChildren
    /\ pc \in {"check", "assigned"} =>
         /\ Unassigned = {}
         /\ \A g \in {0, 1} : count(g) >= MinChildren

IInv == TypeOK /\ CountsMatch /\ Progress /\ AbortsOnlyWithoutSpread

-----------------------------------------------------------------------------
\* Nothing changes when a dead program stays dead.
LEMMA StutterCore == SplitCore /\ UNCHANGED vars => SplitCore'
  BY DEF SplitCore, LocalsOK, CountsMatch, vars, splitVars, count, Members,
         Unassigned

\* Every step of the calls keeps the types and the counts.
LEMMA NextCore ==
    /\ Init => TypeOK /\ SplitCore
    /\ TypeOK /\ SplitCore /\ [Next]_vars => TypeOK' /\ SplitCore'
  <1>1. ASSUME Init PROVE TypeOK /\ SplitCore
    BY <1>1, NoLocalsCore DEF Init, TypeOK, SplitCore
  <1>2. ASSUME TypeOK, SplitCore, [Next]_vars PROVE TypeOK' /\ SplitCore'
    <2>1. SplitCore'
      <3>1. CASE CallSplit
        <4>1. PICK entries \in Splittable : StartSplit(entries)
          BY <3>1 DEF CallSplit
        <4>2. entries \in [Overflow -> SubNode]
          BY SplittableAssumption
        <4> QED
          BY <4>1, <4>2, StartSplitCore
      <3>2. CASE SplitStep
        BY <1>2, <3>2, SplitStepCore
      <3>3. CASE ReturnFromSplit
        BY <3>3, NoLocalsCore DEF ReturnFromSplit, SplitCore
      <3>4. CASE Aborted \/ UNCHANGED vars
        BY <1>2, <3>4, StutterCore DEF Aborted
      <3> QED
        BY <1>2, <3>1, <3>2, <3>3, <3>4 DEF Next
    <2>2. pc' \in {"idle", "seed", "deal", "rest", "check", "assigned", "aborted"}
      BY <1>2 DEF TypeOK, Next, vars, CallSplit, StartSplit, SplitStep,
         PickSeeds, SeedsCollide, AssignChosen, StopDealing, AssignRest,
         RestAssigned, CheckGroups, ReturnFromSplit, Aborted
    <2> QED
      BY <2>1, <2>2 DEF TypeOK, SplitCore
  <1> QED
    BY <1>1, <1>2

\* SplitNode never gives a field a value outside its type.
THEOREM SplitTypes == Spec => []TypeOK
  <1> QED
    BY NextCore, PTL DEF Spec

\* The counts AssignGroup keeps are the sizes of the groups.
THEOREM SplitCounts == Spec => []CountsMatch
  <1>1. SplitCore => CountsMatch
    BY DEF SplitCore
  <1> QED
    BY <1>1, NextCore, PTL DEF Spec

\* What every state keeps of the types and the counts.
LEMMA SplitCoreInvariant == Spec => [](TypeOK /\ SplitCore)
  <1> QED
    BY NextCore, PTL DEF Spec
-----------------------------------------------------------------------------
\* The entries of a group are finitely many boxes.
LEMMA MemberBoxes ==
    ASSUME LocalsOK, NEW g \in {0, 1}
    PROVE  LET boxes == {boxOf(i) : i \in Members(g)}
           IN /\ boxes \in SUBSET Box
              /\ IsFiniteSet(boxes)
              /\ Members(g) # {} => boxes # {}
  <1> DEFINE boxes == {boxOf(i) : i \in Members(g)}
  <1>1. boxes \in SUBSET Box
    BY DEF LocalsOK, Members, boxOf, SubNode
  <1>2. IsFiniteSet(boxes)
    <2>1. IsFiniteSet(Members(g))
      BY MembersPartition DEF LocalsOK
    <2>2. [i \in Members(g) |-> boxOf(i)] \in Surjection(Members(g), boxes)
      BY DEF Surjection
    <2> HIDE DEF boxes
    <2> QED
      BY <2>1, <2>2, FS_Surjection
  <1> QED
    BY <1>1, <1>2

\* An entry that joins group g leaves it with the smallest box around the
\* entries it then has.
LEMMA AssignGroupBox ==
    ASSUME LocalsOK, CountsMatch, GroupBoxExact,
           NEW g \in {0, 1}, NEW index \in Unassigned,
           AssignGroup(index, g), UNCHANGED t_overflowBuffer
    PROVE  GroupBoxExact'
  <1>1. index \in Overflow /\ m_groupAssign[index] = -1
    BY DEF Unassigned
  <1>2. /\ Members(g)' = Members(g) \cup {index}
        /\ Members(1 - g)' = Members(1 - g)
        /\ m_groups'[g].m_box = Joined(g, index).m_box
        /\ m_groups'[1 - g] = m_groups[1 - g]
        /\ \A i \in Overflow : boxOf(i)' = boxOf(i)
    BY <1>1 DEF LocalsOK, AssignGroup, Members, boxOf
  <1>3. ASSUME Members(1 - g)' # {}
        PROVE  m_groups'[1 - g].m_box
                 = Cover({boxOf(i)' : i \in Members(1 - g)'})
    <2>1. {boxOf(i)' : i \in Members(1 - g)}
            = {boxOf(i) : i \in Members(1 - g)}
      BY <1>2 DEF Members
    <2>2. 1 - g \in {0, 1}
      OBVIOUS
    <2> QED
      BY <1>2, <1>3, <2>1, <2>2 DEF GroupBoxExact
  <1>4. m_groups'[g].m_box = Cover({boxOf(i)' : i \in Members(g)'})
    <2> DEFINE old == {boxOf(i) : i \in Members(g)}
               new == {boxOf(i)' : i \in Members(g)'}
    <2>1. /\ old \in SUBSET Box /\ IsFiniteSet(old)
          /\ Members(g) # {} => old # {}
      BY MemberBoxes
    <2>2. new = old \cup {boxOf(index)}
      BY <1>1, <1>2 DEF Members
    <2>3. boxOf(index) \in Box
      BY <1>1 DEF LocalsOK, boxOf, SubNode
    <2>4. new \in SUBSET Box /\ IsFiniteSet(new) /\ new # {}
      <3>1. IsFiniteSet({boxOf(index)})
        BY FS_Singleton
      <3> HIDE DEF old, new
      <3> QED
        BY <2>1, <2>2, <2>3, <3>1, FS_Union
    <2>5. IsCover(Cover(new), new)
      <3> HIDE DEF new
      <3> QED
        BY <2>4, CoverIsCover
    <2>6. IsCover(Joined(g, index).m_box, new)
      <3>1. CASE Members(g) = {}
        <4>1. count(g) = 0
          BY <3>1, FS_EmptySet DEF CountsMatch
        <4>2. Joined(g, index).m_box = boxOf(index)
          BY <4>1 DEF Joined
        <4>3. new = {boxOf(index)}
          BY <2>2, <3>1
        <4> QED
          BY <2>3, <4>2, <4>3, CoverOfOne
      <3>2. CASE Members(g) # {}
        <4>1. m_groups[g].m_box = Cover(old)
          BY <3>2 DEF GroupBoxExact
        <4>2. IsCover(m_groups[g].m_box, old)
          <5> HIDE DEF old
          <5> QED
            BY <2>1, <3>2, <4>1, CoverIsCover
        <4>3. count(g) # 0
          <5>1. IsFiniteSet(Members(g))
            BY MembersPartition DEF LocalsOK
          <5> QED
            BY <3>2, <5>1, FS_EmptySet DEF CountsMatch
        <4>4. Joined(g, index).m_box = UnionBox(m_groups[g].m_box, boxOf(index))
          BY <4>3 DEF Joined
        <4>5. IsCover(boxOf(index), {boxOf(index)})
          BY <2>3, CoverOfOne
        <4> HIDE DEF old, new
        <4> QED
          BY <2>1, <2>2, <2>3, <4>2, <4>4, <4>5, CoverOfUnion
      <3> QED
        BY <3>1, <3>2
    <2> HIDE DEF old, new
    <2>7. Joined(g, index).m_box = Cover(new)
      BY <2>4, <2>5, <2>6, CoverUnique
    <2> QED
      BY <1>2, <2>7 DEF new
  <1>5. ASSUME NEW h \in {0, 1}, Members(h)' # {}
        PROVE  m_groups'[h].m_box = Cover({boxOf(i)' : i \in Members(h)'})
    <2>1. h = g \/ h = 1 - g
      OBVIOUS
    <2> QED
      BY <1>3, <1>4, <1>5, <2>1
  <1> QED
    BY <1>5 DEF GroupBoxExact

\* The box AssignGroup grows is, at any time, the smallest one around the
\* entries of the group.
THEOREM SplitBoxes == Spec => []GroupBoxExact
  <1>1. Init => GroupBoxExact
    BY DEF Init, NoLocals, GroupBoxExact, Members
  <1>2. TypeOK /\ SplitCore /\ GroupBoxExact /\ [Next]_vars => GroupBoxExact'
    <2> SUFFICES ASSUME TypeOK, SplitCore, GroupBoxExact, [Next]_vars
                 PROVE  GroupBoxExact'
      OBVIOUS
    <2>0. LocalsOK /\ CountsMatch
      BY DEF SplitCore
    <2>1. CASE CallSplit
      BY <2>1 DEF CallSplit, StartSplit, GroupBoxExact, Members
    <2>2. CASE PickSeeds
      <3>1. PICK seed0 \in Overflow, seed1 \in Overflow :
              /\ m_groups' = [g \in {0, 1} |->
                   [m_box |-> boxOf(IF g = 0 THEN seed0 ELSE seed1),
                    m_count |-> 1]]
              /\ Members(0)' = {seed0} /\ Members(1)' = {seed1}
        BY <2>0, <2>2, PickSeedsCounts DEF SplitCore, PickSeeds
      <3>2. ASSUME NEW i \in Overflow
            PROVE  boxOf(i)' = boxOf(i) /\ boxOf(i) = Cover({boxOf(i)})
        <4>1. boxOf(i)' = boxOf(i) /\ boxOf(i) \in Box
          BY <2>0, <2>2 DEF PickSeeds, LocalsOK, boxOf, SubNode
        <4>2. IsFiniteSet({boxOf(i)})
          BY FS_Singleton
        <4> QED
          BY <4>1, <4>2, CoverOfOne, CoverIsCover, CoverUnique
      <3>3. /\ m_groups'[0].m_box = Cover({boxOf(i)' : i \in Members(0)'})
            /\ m_groups'[1].m_box = Cover({boxOf(i)' : i \in Members(1)'})
        <4>1. /\ {boxOf(i)' : i \in {seed0}} = {boxOf(seed0)}
              /\ {boxOf(i)' : i \in {seed1}} = {boxOf(seed1)}
          BY <3>2
        <4> QED
          BY <3>1, <3>2, <4>1
      <3> QED
        BY <3>3 DEF GroupBoxExact
    <2>3. CASE SeedsCollide
      <3>1. PICK seed \in Overflow : AssignGroup(seed, 0)
        BY <2>3 DEF SeedsCollide
      <3>2. seed \in Unassigned
        BY <2>3 DEF SeedsCollide, SplitCore
      <3> QED
        BY <2>0, <2>3, <3>1, <3>2, AssignGroupBox DEF SeedsCollide
    <2>4. CASE AssignChosen
      <3>1. PICK index \in Unassigned, g \in {0, 1} : AssignGroup(index, g)
        BY <2>4 DEF AssignChosen, betterGroup
      <3> QED
        BY <2>0, <2>4, <3>1, AssignGroupBox DEF AssignChosen
    <2>5. CASE AssignRest
      <3>1. PICK index \in Unassigned : AssignGroup(index, group)
        BY <2>5 DEF AssignRest
      <3>2. group \in {0, 1}
        BY <2>5 DEF AssignRest, SplitCore
      <3> QED
        BY <2>0, <2>5, <3>1, <3>2, AssignGroupBox DEF AssignRest
    <2>6. CASE StopDealing \/ RestAssigned \/ CheckGroups \/ Aborted
                 \/ UNCHANGED vars
      <3>1. UNCHANGED <<t_overflowBuffer, m_groupAssign, m_groups>>
        BY <2>6 DEF StopDealing, RestAssigned, CheckGroups, Aborted, vars,
           splitVars
      <3>2. \A g \in {0, 1} : /\ Members(g)' = Members(g)
                              /\ m_groups'[g] = m_groups[g]
        BY <3>1 DEF Members
      <3>3. \A g \in {0, 1} : {boxOf(i)' : i \in Members(g)}
                               = {boxOf(i) : i \in Members(g)}
        BY <3>1 DEF boxOf
      <3> QED
        BY <3>2, <3>3 DEF GroupBoxExact
    <2>7. CASE ReturnFromSplit
      BY <2>7 DEF ReturnFromSplit, DropLocals, GroupBoxExact, Members
    <2> QED
      BY <2>1, <2>2, <2>3, <2>4, <2>5, <2>6, <2>7 DEF Next, SplitStep
  <1> QED
    BY <1>1, <1>2, SplitCoreInvariant, PTL DEF Spec
-----------------------------------------------------------------------------
\* The invariant holds of locals that were never used.
LEMMA NoLocalsInv ==
    /\ NoLocals /\ pc = "idle" => IInv
    /\ DropLocals /\ pc' = "idle" => IInv'
  BY NoLocalsCore DEF IInv, TypeOK, Progress, AbortsOnlyWithoutSpread

\* A call of SplitNode fills the buffer and empties the groups.
LEMMA CallSplitInv == IInv /\ CallSplit => IInv'
  <1> SUFFICES ASSUME IInv, CallSplit PROVE IInv'
    OBVIOUS
  <1>1. PICK entries \in Splittable : StartSplit(entries)
    BY DEF CallSplit
  <1>2. SplitCore' /\ pc' = "seed"
    BY <1>1, StartSplitCore, SplittableAssumption
  <1> QED
    BY <1>2 DEF SplitCore, IInv, TypeOK, LocalsOK, Progress, AbortsOnlyWithoutSpread

\* Two different seeds leave either group with one entry.
LEMMA PickSeedsInv == IInv /\ PickSeeds => IInv'
  <1> SUFFICES ASSUME IInv, PickSeeds PROVE IInv'
    OBVIOUS
  <1>1. pc' = "deal" /\ Unassigned = Overflow
    BY DEF PickSeeds, IInv, Progress
  <1>2. /\ LocalsOK' /\ CountsMatch'
        /\ count(0)' = 1 /\ count(1)' = 1
    BY <1>1, PickSeedsCounts DEF IInv, TypeOK, LocalsOK
  <1>3. \A g \in {0, 1} : count(g)' \in 1 .. Size - MinChildren
    BY <1>2, ChildrenAssumption DEF Size
  <1> QED
    BY <1>1, <1>2, <1>3 DEF IInv, TypeOK, LocalsOK, Progress, AbortsOnlyWithoutSpread

\* The seeds are the same entry only if no axis has a spread.
LEMMA SeedsCollideInv == IInv /\ SeedsCollide => IInv'
  <1> SUFFICES ASSUME IInv, SeedsCollide PROVE IInv'
    OBVIOUS
  <1>1. PICK seed \in Overflow : AreSeeds(seed, seed) /\ AssignGroup(seed, 0)
    BY DEF SeedsCollide
  <1>2. /\ pc = "seed" /\ pc' = "aborted"
        /\ UNCHANGED <<t_overflowBuffer, group>>
    BY DEF SeedsCollide
  <1>3. Unassigned = Overflow
    BY <1>2 DEF IInv, Progress
  <1>4. /\ TypeOK' /\ CountsMatch'
        /\ Unassigned' = Overflow \ {seed}
    BY <1>1, <1>2, <1>3, AssignGroupCounts DEF IInv, TypeOK, LocalsOK
  <1>5. \A dim \in Axes : ~ Spread(dim)
    <2>1. CASE \A dim \in Axes : ~ Spread(dim)
      BY <2>1
    <2>2. CASE \E dim \in Axes : /\ Spread(dim) /\ IsMinIndex(seed, dim)
                                 /\ IsMaxIndex(seed, dim)
      <3>1. PICK dim \in Axes : /\ Spread(dim) /\ IsMinIndex(seed, dim)
                                /\ IsMaxIndex(seed, dim)
        BY <2>2
      <3>2. \A j \in Overflow : boxOf(j)[dim].first \in Int
        BY DEF IInv, TypeOK, LocalsOK, boxOf, SubNode, Box, AnyBox, EDGE
      <3>3. \A j \in Overflow : boxOf(j)[dim].first = boxOf(seed)[dim].first
        BY <3>1, <3>2 DEF IsMinIndex, IsMaxIndex, minBound, maxBound
      <3> QED
        BY <3>1, <3>2, <3>3 DEF Spread, minBound
    <2> QED
      BY <1>1, <2>1, <2>2 DEF AreSeeds
  <1>6. \A dim \in Axes : ~ Spread(dim)'
    BY <1>2, <1>5 DEF Spread, boxOf
  <1>7. Cardinality(Unassigned') = MaxChildren
    <2>1. Cardinality(Overflow \ {seed}) = Cardinality(Overflow) - 1
      BY OverflowSize, FS_RemoveElement
    <2> QED
      BY <1>4, <2>1, OverflowSize, ChildrenAssumption DEF Size
  <1> QED
    BY <1>2, <1>4, <1>6, <1>7 DEF IInv, Progress, AbortsOnlyWithoutSpread

\* Dealing one entry keeps both groups within their bounds.
LEMMA AssignChosenInv == IInv /\ AssignChosen => IInv'
  <1> SUFFICES ASSUME IInv, AssignChosen PROVE IInv'
    OBVIOUS
  <1>1. PICK index \in Unassigned, g \in {0, 1} : AssignGroup(index, g)
    BY DEF AssignChosen, betterGroup
  <1>2. /\ pc = "deal" /\ pc' = "deal" /\ KeepDealing
        /\ UNCHANGED <<t_overflowBuffer, group>>
    BY DEF AssignChosen
  <1>3. TypeOK /\ LocalsOK /\ CountsMatch
    BY DEF IInv, TypeOK
  <1>4. /\ TypeOK' /\ CountsMatch'
        /\ count(g)' = count(g) + 1 /\ count(1 - g)' = count(1 - g)
    <2>1. /\ m_groupAssign' \in [Overflow -> {-1, 0, 1}]
          /\ m_groups' \in [{0, 1} -> [m_box : Box, m_count : 0 .. Size]]
          /\ CountsMatch'
          /\ count(g)' = count(g) + 1
          /\ count(1 - g)' = count(1 - g)
      BY <1>1, <1>2, <1>3, AssignGroupCounts
    <2>2. TypeOK'
      BY <1>2, <1>3, <2>1 DEF TypeOK, LocalsOK
    <2> QED
      BY <2>1, <2>2
  <1>5. \A h \in {0, 1} : count(h)' \in 1 .. Size - MinChildren
    <2>1. \A h \in {0, 1} : count(h) \in 1 .. Size - MinChildren
      BY <1>2 DEF IInv, Progress
    <2>2. count(0) < Size - MinChildren /\ count(1) < Size - MinChildren
      BY <1>2 DEF KeepDealing
    <2> QED
      BY <1>4, <2>1, <2>2, ChildrenAssumption DEF Size
  <1> QED
    BY <1>2, <1>4, <1>5 DEF IInv, Progress, AbortsOnlyWithoutSpread

\* When dealing stops, either all entries are dealt and both groups are large
\* enough, or one group has all it may have.
LEMMA StopDealingInv ==
    ASSUME 2 * MinChildren <= Size, IInv, StopDealing
    PROVE  IInv'
  <1>1. /\ pc = "deal" /\ ~ KeepDealing
        /\ UNCHANGED <<t_overflowBuffer, m_groupAssign, m_groups>>
    BY DEF StopDealing
  <1>2. CountsMatch'
    BY <1>1 DEF IInv, CountsMatch, count, Members
  <1>3. \A g \in {0, 1} : count(g)' = count(g)
    BY <1>1 DEF count
  <1>4. Unassigned' = Unassigned
    BY <1>1 DEF Unassigned
  <1>5. /\ count(0) \in 1 .. Size - MinChildren
        /\ count(1) \in 1 .. Size - MinChildren
    BY <1>1 DEF IInv, Progress
  <1>6. /\ IsFiniteSet(Unassigned)
        /\ Cardinality(Unassigned) \in Nat
        /\ count(0) + count(1) + Cardinality(Unassigned) = Size
    BY MembersPartition DEF IInv, TypeOK, LocalsOK, CountsMatch
  <1>7. Size \in Nat /\ MinChildren \in Nat
    BY OverflowSize, ChildrenAssumption
  <1>8. CASE count(0) + count(1) < Size
    <2>1. /\ group' = IF count(0) >= Size - MinChildren THEN 1 ELSE 0
          /\ pc' = "rest"
      BY <1>8 DEF StopDealing
    <2>2. count(0) = Size - MinChildren \/ count(1) = Size - MinChildren
      BY <1>1, <1>5, <1>7, <1>8 DEF KeepDealing
    <2>3. group' \in {0, 1} /\ count(1 - group') = Size - MinChildren
      BY <1>5, <1>7, <2>1, <2>2
    <2>4. TypeOK'
      BY <1>1, <2>1 DEF IInv, TypeOK, LocalsOK
    <2>5. Progress'
      BY <1>3, <2>1, <2>3 DEF Progress
    <2> QED
      BY <1>2, <2>1, <2>4, <2>5 DEF IInv, AbortsOnlyWithoutSpread
  <1>9. CASE ~ (count(0) + count(1) < Size)
    <2>1. pc' = "check" /\ group' = group
      BY <1>9 DEF StopDealing
    <2>2. Cardinality(Unassigned) = 0 /\ count(0) + count(1) = Size
      BY <1>5, <1>6, <1>7, <1>9
    <2>3. Unassigned = {}
      BY <1>6, <2>2, FS_EmptySet
    <2>4. count(0) >= MinChildren /\ count(1) >= MinChildren
      BY <1>5, <1>7, <2>2
    <2>5. TypeOK'
      BY <1>1, <2>1 DEF IInv, TypeOK, LocalsOK
    <2>6. Progress'
      BY <1>3, <1>4, <2>1, <2>3, <2>4 DEF Progress
    <2> QED
      BY <1>2, <2>1, <2>5, <2>6 DEF IInv, AbortsOnlyWithoutSpread
  <1> QED
    BY <1>8, <1>9

\* The entries left over all join the group that is still too small.
LEMMA AssignRestInv == IInv /\ AssignRest => IInv'
  <1> SUFFICES ASSUME IInv, AssignRest PROVE IInv'
    OBVIOUS
  <1>1. PICK index \in Unassigned : AssignGroup(index, group)
    BY DEF AssignRest
  <1>2. /\ pc = "rest" /\ pc' = "rest"
        /\ UNCHANGED <<t_overflowBuffer, group>>
    BY DEF AssignRest
  <1>3. group \in {0, 1} /\ count(1 - group) = Size - MinChildren
    BY <1>2 DEF IInv, Progress
  <1>4. TypeOK' /\ CountsMatch' /\ count(1 - group)' = count(1 - group)
    BY <1>1, <1>2, <1>3, AssignGroupCounts DEF IInv, TypeOK, LocalsOK
  <1>5. Progress'
    BY <1>2, <1>3, <1>4 DEF Progress, count
  <1> QED
    BY <1>2, <1>4, <1>5 DEF IInv, AbortsOnlyWithoutSpread

\* The loop over the left over entries ends with MinChildren in that group.
LEMMA RestAssignedInv ==
    ASSUME 2 * MinChildren <= Size, IInv, RestAssigned
    PROVE  IInv'
  <1>1. /\ pc = "rest" /\ pc' = "check" /\ Unassigned = {}
        /\ UNCHANGED splitVars
    BY DEF RestAssigned
  <1>2. /\ group \in {0, 1} /\ count(1 - group) = Size - MinChildren
    BY <1>1 DEF IInv, Progress
  <1>3. count(0) + count(1) = Size
    <2>1. Cardinality(Unassigned) = 0
      BY <1>1, FS_EmptySet
    <2> QED
      BY <2>1, MembersPartition DEF IInv, TypeOK, LocalsOK, CountsMatch
  <1>4. /\ Size \in Nat /\ MinChildren \in Nat
        /\ count(0) \in Nat /\ count(1) \in Nat
    BY OverflowSize, ChildrenAssumption DEF IInv, TypeOK, LocalsOK, count
  <1>5. count(0) >= MinChildren /\ count(1) >= MinChildren
    BY <1>2, <1>3, <1>4
  <1>6. TypeOK' /\ CountsMatch'
    BY <1>1 DEF IInv, TypeOK, LocalsOK, CountsMatch, count, Members, splitVars
  <1>7. Progress'
    BY <1>1, <1>5 DEF Progress, Unassigned, count, splitVars
  <1> QED
    BY <1>1, <1>6, <1>7 DEF IInv, AbortsOnlyWithoutSpread

\* The assertions on the groups all hold.
LEMMA CheckGroupsInv == IInv /\ CheckGroups => IInv' /\ pc' = "assigned"
  <1> SUFFICES ASSUME IInv, CheckGroups PROVE IInv' /\ pc' = "assigned"
    OBVIOUS
  <1>1. pc = "check" /\ UNCHANGED splitVars
    BY DEF CheckGroups
  <1>2. /\ Unassigned = {}
        /\ count(0) >= MinChildren /\ count(1) >= MinChildren
    BY <1>1 DEF IInv, Progress
  <1>3. count(0) + count(1) = Size
    <2>1. Cardinality(Unassigned) = 0
      BY <1>2, FS_EmptySet
    <2> QED
      BY <2>1, MembersPartition DEF IInv, TypeOK, LocalsOK, CountsMatch
  <1>4. pc' = "assigned"
    BY <1>2, <1>3 DEF CheckGroups
  <1>5. TypeOK' /\ CountsMatch'
    BY <1>1, <1>4 DEF IInv, TypeOK, LocalsOK, CountsMatch, count, Members, splitVars
  <1>6. Progress'
    BY <1>1, <1>2, <1>4 DEF Progress, Unassigned, count, splitVars
  <1> QED
    BY <1>4, <1>5, <1>6 DEF IInv, AbortsOnlyWithoutSpread

\* Nothing changes when a dead program stays dead.
LEMMA StutterInv == IInv /\ UNCHANGED vars => IInv'
  BY DEF IInv, TypeOK, LocalsOK, CountsMatch, Progress, AbortsOnlyWithoutSpread, vars,
         splitVars, count, Members, Unassigned, Spread, boxOf
-----------------------------------------------------------------------------
\* The invariant of the whole component, when no more than half of an
\* overflowing node must go to either group.
THEOREM SplitInvariant ==
    ASSUME 2 * MinChildren <= Size
    PROVE  Spec => []IInv
  <1>1. Init => IInv
    BY NoLocalsInv DEF Init
  <1>2. IInv /\ [Next]_vars => IInv'
    <2> SUFFICES ASSUME IInv, [Next]_vars PROVE IInv'
      OBVIOUS
    <2>1. CASE CallSplit
      BY <2>1, CallSplitInv
    <2>2. CASE PickSeeds
      BY <2>2, PickSeedsInv
    <2>3. CASE SeedsCollide
      BY <2>3, SeedsCollideInv
    <2>4. CASE AssignChosen
      BY <2>4, AssignChosenInv
    <2>5. CASE StopDealing
      BY <2>5, StopDealingInv
    <2>6. CASE AssignRest
      BY <2>6, AssignRestInv
    <2>7. CASE RestAssigned
      BY <2>7, RestAssignedInv
    <2>8. CASE CheckGroups
      BY <2>8, CheckGroupsInv
    <2>9. CASE ReturnFromSplit
      BY <2>9, NoLocalsInv DEF ReturnFromSplit
    <2>10. CASE Aborted
      BY <2>10, StutterInv DEF Aborted
    <2>11. CASE UNCHANGED vars
      BY <2>11, StutterInv
    <2> QED
      BY <2>1, <2>2, <2>3, <2>4, <2>5, <2>6, <2>7, <2>8, <2>9, <2>10, <2>11
      DEF Next, SplitStep
  <1> QED
    BY <1>1, <1>2, PTL DEF Spec

\* Both halves of a split node have MinChildren to MaxChildren entries.
THEOREM SplitIsBalanced ==
    ASSUME 2 * MinChildren <= Size
    PROVE  Spec => []SplitBalanced
  <1>1. IInv => SplitBalanced
    <2> SUFFICES ASSUME IInv, pc \in {"check", "assigned"}
                 PROVE  /\ Unassigned = {}
                        /\ \A g \in {0, 1} : Cardinality(Members(g))
                                             \in MinChildren .. MaxChildren
      BY DEF SplitBalanced
    <2>1. /\ Unassigned = {}
          /\ count(0) >= MinChildren /\ count(1) >= MinChildren
      BY DEF IInv, Progress
    <2>2. Cardinality(Unassigned) = 0
      BY <2>1, FS_EmptySet
    <2>3. /\ Cardinality(Members(0)) \in Nat /\ Cardinality(Members(1)) \in Nat
          /\ Cardinality(Members(0)) + Cardinality(Members(1)) = Size
          /\ Cardinality(Members(0)) = count(0)
          /\ Cardinality(Members(1)) = count(1)
      BY <2>2, MembersPartition DEF IInv, TypeOK, LocalsOK, CountsMatch
    <2> QED
      BY <2>1, <2>3, ChildrenAssumption DEF Size
  <1> QED
    BY <1>1, SplitInvariant, PTL

\* Of the assertions of SplitNode and AssignGroup only the one that finds the
\* same entry chosen for both seeds can fail.
THEOREM SplitAborts ==
    ASSUME 2 * MinChildren <= Size
    PROVE  Spec => []AbortsOnlyWithoutSpread
  <1>1. IInv => AbortsOnlyWithoutSpread
    BY DEF IInv
  <1> QED
    BY <1>1, SplitInvariant, PTL
-----------------------------------------------------------------------------
\* The first number of a row that starts outside of S and meets it.
LEMMA FirstFailure ==
    ASSUME NEW N \in Nat, NEW S \in SUBSET (0 .. N), S # {}, 0 \notin S
    PROVE  \E n \in S : /\ n \in 1 .. N /\ n - 1 \in 0 .. N /\ n - 1 \notin S
  <1>1. PICK n \in S : \A k \in S : n <= k
    <2>1. S \in SUBSET Nat
      OBVIOUS
    <2> QED
      BY <2>1, LeastNat
  <1> QED
    BY <1>1

\* f is the run of step from start, N steps long.
IsRun(f, start, step, N) ==
    f = [n \in 0 .. N |-> IF n = 0 THEN start ELSE step[n][f[n - 1]]]

\* A step on the values of a set has a run of every length, within that set.
LEMMA RunExists ==
    ASSUME NEW V, NEW start \in V, NEW N \in Nat,
           NEW step \in [1 .. N -> [V -> V]]
    PROVE  \E f \in [0 .. N -> V] : IsRun(f, start, step, N)
  <1> DEFINE Runs(n) == {f \in [0 .. n -> V] :
                           /\ f[0] = start
                           /\ \A k \in 1 .. n : f[k] = step[k][f[k - 1]]}
             Bad == {n \in 0 .. N : Runs(n) = {}}
  <1>1. Bad = {}
    <2> SUFFICES ASSUME Bad # {} PROVE FALSE
      OBVIOUS
    <2>1. 0 \notin Bad
      <3>1. [k \in 0 .. 0 |-> start] \in Runs(0)
        BY SMT
      <3> QED
        BY <3>1
    <2>2. PICK n \in Bad : n \in 1 .. N /\ n - 1 \in 0 .. N /\ n - 1 \notin Bad
      <3>1. Bad \in SUBSET (0 .. N)
        OBVIOUS
      <3> HIDE DEF Bad
      <3> QED
        BY <2>1, <3>1, FirstFailure
    <2>3. PICK f : f \in Runs(n - 1)
      BY <2>2
    <2>4. /\ f \in [0 .. n - 1 -> V] /\ f[0] = start
          /\ \A k \in 1 .. n - 1 : f[k] = step[k][f[k - 1]]
      BY <2>3
    <2> DEFINE g == [k \in 0 .. n |-> IF k = n THEN step[n][f[n - 1]] ELSE f[k]]
    <2>5. step[n][f[n - 1]] \in V
      <3>1. f[n - 1] \in V /\ n \in Nat
        BY <2>2, <2>4
      <3> QED
        BY <2>2, <3>1
    <2>6. g \in [0 .. n -> V] /\ g[0] = start
      BY <2>2, <2>4, <2>5
    <2>7. ASSUME NEW k \in 1 .. n PROVE g[k] = step[k][g[k - 1]]
      <3>1. k \in 0 .. n /\ k - 1 \in 0 .. n - 1 /\ k - 1 \in 0 .. n /\ k - 1 # n
        BY <2>2
      <3>2. g[k - 1] = f[k - 1]
        BY <3>1
      <3>3. CASE k = n
        BY <3>1, <3>2, <3>3
      <3>4. CASE k # n
        <4>1. k \in 1 .. n - 1 /\ g[k] = f[k]
          BY <2>2, <3>4
        <4> QED
          BY <2>4, <3>2, <4>1
      <3> QED
        BY <3>3, <3>4
    <2>8. g \in Runs(n)
      <3> HIDE DEF g
      <3> QED
        BY <2>6, <2>7
    <2> QED
      BY <2>2, <2>8
  <1>2. PICK f : f \in Runs(N)
    <2>1. N \in 0 .. N
      OBVIOUS
    <2>2. Runs(N) # {}
      BY <1>1, <2>1
    <2> QED
      BY <2>2
  <1>3. f = [n \in 0 .. N |-> f[n]]
    BY <1>2
  <1>4. ASSUME NEW n \in 0 .. N
        PROVE  f[n] = IF n = 0 THEN start ELSE step[n][f[n - 1]]
    BY <1>2
  <1> QED
    BY <1>2, <1>3, <1>4 DEF IsRun

-----------------------------------------------------------------------------
\* Place i has the least value of the first n + 1 bounds, and is the first.
IsLeastOf(i, bound, n) ==
    /\ i \in 0 .. n
    /\ \A j \in 0 .. n : /\ bound[i] <= bound[j]
                         /\ j < i => bound[i] < bound[j]

\* A loop that keeps the lesser of the one it has and the next.
LEMMA LeastSoFar ==
    ASSUME NEW N \in Nat, NEW bound \in [0 .. N -> Int], NEW first,
           \A n \in 0 .. N :
             first[n] = IF n = 0 THEN 0
                        ELSE IF bound[n] < bound[first[n - 1]] THEN n
                        ELSE first[n - 1]
    PROVE  IsLeastOf(first[N], bound, N)
  <1> DEFINE Bad == {n \in 0 .. N : ~ IsLeastOf(first[n], bound, n)}
  <1>1. Bad = {}
    <2> SUFFICES ASSUME Bad # {} PROVE FALSE
      OBVIOUS
    <2>1. 0 \notin Bad
      BY DEF IsLeastOf
    <2>2. PICK n \in Bad : n \in 1 .. N /\ n - 1 \in 0 .. N /\ n - 1 \notin Bad
      <3>1. Bad \in SUBSET (0 .. N)
        OBVIOUS
      <3> HIDE DEF Bad
      <3> QED
        BY <2>1, <3>1, FirstFailure
    <2>3. n \in Nat /\ n # 0 /\ n \in 0 .. N
      BY <2>2
    <2>4. PICK l : l = first[n - 1]
      OBVIOUS
    <2>5. IsLeastOf(l, bound, n - 1) /\ ~ IsLeastOf(first[n], bound, n)
      BY <2>2, <2>4
    <2>6. first[n] = IF bound[n] < bound[l] THEN n ELSE l
      BY <2>3, <2>4
    <2>7. \A j \in 0 .. n : /\ j \in 0 .. n - 1 \/ j = n
                            /\ bound[j] \in Int /\ j \in Nat
      BY <2>3
    <2>8. l \in 0 .. n /\ l < n
      BY <2>3, <2>5 DEF IsLeastOf
    <2> HIDE DEF Bad
    <2> QED
      BY <2>3, <2>5, <2>6, <2>7, <2>8, SMTT(30) DEF IsLeastOf
  <1>2. N \in 0 .. N
    OBVIOUS
  <1> QED
    BY <1>1, <1>2

\* The loop over the entries finds the first of the least bounds.
LEMMA FirstLeastFinds ==
    ASSUME NEW bound \in [Overflow -> Int]
    PROVE  IsLeastOf(FirstLeast(bound), bound, MaxChildren)
  <1> DEFINE step == [n \in 1 .. MaxChildren |->
                        [i \in Overflow |-> IF bound[n] < bound[i] THEN n ELSE i]]
             whole(f) == [n \in Overflow |->
                            IF n = 0 THEN 0
                            ELSE IF bound[n] < bound[f[n - 1]] THEN n
                            ELSE f[n - 1]]
             first == CHOOSE f : f = whole(f)
  <1>0. MaxChildren \in Nat /\ Overflow = 0 .. MaxChildren
    BY ChildrenAssumption DEF Overflow
  <1>1. PICK f \in [Overflow -> Overflow] : IsRun(f, 0, step, MaxChildren)
    <2>1. step \in [1 .. MaxChildren -> [Overflow -> Overflow]] /\ 0 \in Overflow
      BY <1>0
    <2> HIDE DEF step
    <2> QED
      BY <1>0, <2>1, RunExists
  <1>2. f = whole(f)
    <2>1. ASSUME NEW n \in Overflow
          PROVE  (IF n = 0 THEN 0 ELSE step[n][f[n - 1]]) = whole(f)[n]
      <3>1. CASE n # 0
        <4>1. n \in 1 .. MaxChildren /\ n - 1 \in Overflow
          BY <1>0, <3>1
        <4>2. f[n - 1] \in Overflow
          BY <1>1, <4>1
        <4> QED
          BY <3>1, <4>1, <4>2
      <3> QED
        BY <3>1
    <2>2. f = [n \in Overflow |-> IF n = 0 THEN 0 ELSE step[n][f[n - 1]]]
      BY <1>0, <1>1 DEF IsRun
    <2> HIDE DEF step
    <2> QED
      BY <2>1, <2>2
  <1>3. first = whole(first)
    <2> HIDE DEF whole
    <2> QED
      BY <1>2
  <1>4. FirstLeast(bound) = first[MaxChildren]
    BY DEF FirstLeast
  <1>5. \A n \in 0 .. MaxChildren :
          first[n] = IF n = 0 THEN 0
                     ELSE IF bound[n] < bound[first[n - 1]] THEN n
                     ELSE first[n - 1]
    <2> HIDE DEF first
    <2> QED
      BY <1>0, <1>3
  <1> HIDE DEF first
  <1> QED
    BY <1>0, <1>4, <1>5, LeastSoFar

\* The bounds of the buffer's boxes along one axis are integers.
LEMMA BoundsAlong ==
    ASSUME LocalsOK, NEW dim \in Axes
    PROVE  \A i \in Overflow : /\ minBound(boxOf(i), dim) \in Int
                               /\ maxBound(boxOf(i), dim) = minBound(boxOf(i), dim)
  <1>1. ASSUME NEW i \in Overflow PROVE minBound(boxOf(i), dim) \in Int
    <2>1. boxOf(i) \in Box
      BY DEF LocalsOK, boxOf, SubNode
    <2> QED
      BY <2>1, BoxEdges DEF minBound
  <1> QED
    BY <1>1 DEF minBound, maxBound

\* Along one axis the loop finds the first of the lowest lower bounds and the
\* first of the highest ones; they differ when there is a spread.
LEMMA SeedsAlongFind ==
    ASSUME LocalsOK, NEW dim \in Axes
    PROVE  LET seeds == SeedsAlong(dim)
           IN /\ seeds \in [seed0 : Overflow, seed1 : Overflow, found : {TRUE}]
              /\ IsMinIndex(seeds.seed0, dim) /\ IsMaxIndex(seeds.seed1, dim)
              /\ seeds.seed0 # seeds.seed1 <=> Spread(dim)
  <1> DEFINE low == [i \in Overflow |-> minBound(boxOf(i), dim)]
             high == [i \in Overflow |-> maxBound(boxOf(i), dim)]
             opposite == [i \in Overflow |-> - high[i]]
  <1>0. MaxChildren \in Nat /\ Overflow = 0 .. MaxChildren
    BY ChildrenAssumption DEF Overflow
  <1>1. /\ low \in [Overflow -> Int] /\ high \in [Overflow -> Int]
        /\ opposite \in [Overflow -> Int] /\ high = low
    BY BoundsAlong
  <1>2. PICK i : i = FirstLeast(low)
    OBVIOUS
  <1>3. PICK j : j = FirstGreatest(high)
    OBVIOUS
  <1>4. SeedsAlong(dim) = [seed0 |-> i, seed1 |-> j, found |-> TRUE]
    BY <1>2, <1>3 DEF SeedsAlong
  <1>5. IsLeastOf(i, low, MaxChildren)
    <2> HIDE DEF low
    <2> QED
      BY <1>1, <1>2, FirstLeastFinds
  <1>6. IsLeastOf(j, opposite, MaxChildren)
    <2>1. FirstGreatest(high) = FirstLeast(opposite)
      BY DEF FirstGreatest
    <2> HIDE DEF high, opposite
    <2> QED
      BY <1>1, <1>3, <2>1, FirstLeastFinds
  <1>7. /\ i \in Overflow /\ j \in Overflow
        /\ \A k \in Overflow : /\ low[i] <= low[k]
                               /\ k < i => low[i] < low[k]
                               /\ low[j] >= low[k]
                               /\ k < j => low[j] > low[k]
    <2>1. \A k \in Overflow : opposite[k] = - low[k] /\ low[k] \in Int
      BY <1>1
    <2> HIDE DEF low, high, opposite
    <2> QED
      BY <1>0, <1>5, <1>6, <2>1 DEF IsLeastOf
  <1>8. \A k \in Overflow : /\ low[k] = minBound(boxOf(k), dim)
                            /\ low[k] = maxBound(boxOf(k), dim)
    BY BoundsAlong
  <1>9. i # j <=> Spread(dim)
    <2>1. ASSUME Spread(dim) PROVE i # j
      <3>1. PICK k, l \in Overflow : low[k] < low[l]
        BY <1>8, <2>1 DEF Spread
      <3>2. /\ low[i] <= low[k] /\ low[l] <= low[j]
            /\ low[i] \in Int /\ low[j] \in Int
            /\ low[k] \in Int /\ low[l] \in Int
        BY <1>1, <1>7
      <3> HIDE DEF low
      <3> QED
        BY <3>1, <3>2
    <2>2. ASSUME ~ Spread(dim) PROVE i = j
      <3>1. \A k, l \in Overflow : low[k] = low[l]
        <4>1. \A k, l \in Overflow : ~ (low[k] < low[l])
          BY <1>8, <2>2 DEF Spread
        <4>2. \A k \in Overflow : low[k] \in Int
          BY <1>1
        <4> HIDE DEF low
        <4> QED
          BY <4>1, <4>2
      <3> HIDE DEF low
      <3> QED
        BY <1>0, <1>1, <1>7, <3>1
    <2> QED
      BY <2>1, <2>2
  <1>10. IsMinIndex(i, dim) /\ IsMaxIndex(j, dim)
    <2> HIDE DEF low
    <2> QED
      BY <1>7, <1>8 DEF IsMinIndex, IsMaxIndex
  <1> QED
    BY <1>4, <1>7, <1>9, <1>10

\* There is one entry of either kind along an axis.
LEMMA SeedsUnique ==
    ASSUME LocalsOK, NEW dim \in Axes, NEW i \in Overflow, NEW j \in Overflow
    PROVE  /\ IsMinIndex(i, dim) /\ IsMinIndex(j, dim) => i = j
           /\ IsMaxIndex(i, dim) /\ IsMaxIndex(j, dim) => i = j
  <1>1. /\ i \in Nat /\ j \in Nat
        /\ minBound(boxOf(i), dim) \in Int /\ minBound(boxOf(j), dim) \in Int
        /\ maxBound(boxOf(i), dim) \in Int /\ maxBound(boxOf(j), dim) \in Int
    BY ChildrenAssumption, BoundsAlong DEF Overflow
  <1> QED
    BY <1>1 DEF IsMinIndex, IsMaxIndex

\* No axis before n has a spread.
NoneBefore(n) == \A d \in Axes : d < n => ~ Spread(d)

\* Over all axes the loop keeps what it finds along the first with a spread.
LEMMA SeedScanFinds ==
    ASSUME LocalsOK
    PROVE  \/ /\ \A dim \in Axes : ~ Spread(dim)
              /\ SeedScan.seed0 = 0 /\ SeedScan.seed1 = 0
           \/ \E dim \in Axes : /\ Spread(dim) /\ NoneBefore(dim)
                                /\ SeedScan = SeedsAlong(dim)
  <1> DEFINE none == [seed0 |-> 0, seed1 |-> 0, found |-> FALSE]
             V == [seed0 : Overflow, seed1 : Overflow, found : BOOLEAN]
             next(best, dim) ==
               IF ~ best.found /\ SeedsAlong(dim).seed0 # SeedsAlong(dim).seed1
                 THEN SeedsAlong(dim) ELSE best
             step == [n \in 1 .. Dimensions |-> [best \in V |-> next(best, n - 1)]]
             whole(f) == [n \in 0 .. Dimensions |->
                            IF n = 0 THEN none ELSE next(f[n - 1], n - 1)]
             scanned == CHOOSE f : f = whole(f)
  <1>0. Dimensions \in Nat /\ Dimensions # 0 /\ Axes = 0 .. Dimensions - 1
    BY DimensionsAssumption DEF Axes
  <1>1. /\ \A dim \in Axes : SeedsAlong(dim) \in V
        /\ none \in V
    <2>1. 0 \in Overflow
      BY ChildrenAssumption DEF Overflow
    <2>2. \A dim \in Axes : SeedsAlong(dim) \in V
      BY SeedsAlongFind
    <2> QED
      BY <2>1, <2>2
  <1> HIDE DEF none, V
  <1>2. PICK f \in [0 .. Dimensions -> V] : IsRun(f, none, step, Dimensions)
    <2>1. step \in [1 .. Dimensions -> [V -> V]]
      <3>1. \A n \in 1 .. Dimensions : n - 1 \in Axes
        BY <1>0
      <3> QED
        BY <1>1, <3>1
    <2> HIDE DEF step
    <2> QED
      BY <1>0, <1>1, <2>1, RunExists
  <1>3. f = whole(f)
    <2>1. ASSUME NEW n \in 0 .. Dimensions
          PROVE  (IF n = 0 THEN none ELSE step[n][f[n - 1]]) = whole(f)[n]
      <3>1. CASE n # 0
        <4>1. n \in 1 .. Dimensions /\ n - 1 \in 0 .. Dimensions
          BY <1>0, <3>1
        <4>2. f[n - 1] \in V
          BY <1>2, <4>1
        <4> QED
          BY <3>1, <4>1, <4>2
      <3> QED
        BY <3>1
    <2>2. f = [n \in 0 .. Dimensions |-> IF n = 0 THEN none ELSE step[n][f[n - 1]]]
      BY <1>2 DEF IsRun
    <2> HIDE DEF step
    <2> QED
      BY <2>1, <2>2
  <1>4. scanned = whole(scanned)
    <2> HIDE DEF whole
    <2> QED
      BY <1>3
  <1>5. SeedScan = scanned[Dimensions]
    BY DEF SeedScan, none
  <1>6. \A n \in 0 .. Dimensions :
          scanned[n] = IF n = 0 THEN none ELSE next(scanned[n - 1], n - 1)
    <2> HIDE DEF scanned, next
    <2> QED
      BY <1>4
  <1> HIDE DEF scanned, whole, step
  <1> DEFINE Kept(n) == \/ NoneBefore(n) /\ scanned[n] = none
                        \/ \E dim \in Axes : /\ dim < n
                                             /\ Spread(dim) /\ NoneBefore(dim)
                                             /\ scanned[n] = SeedsAlong(dim)
             Bad == {n \in 0 .. Dimensions : ~ Kept(n)}
  <1>7. Bad = {}
    <2> SUFFICES ASSUME Bad # {} PROVE FALSE
      OBVIOUS
    <2>1. 0 \notin Bad
      <3>1. NoneBefore(0)
        BY <1>0 DEF NoneBefore
      <3>2. scanned[0] = none
        BY <1>0, <1>6
      <3> QED
        BY <3>1, <3>2
    <2>2. PICK n \in Bad : /\ n \in 1 .. Dimensions
                           /\ n - 1 \in 0 .. Dimensions /\ n - 1 \notin Bad
      <3>1. Bad \in SUBSET (0 .. Dimensions)
        OBVIOUS
      <3> HIDE DEF Bad
      <3> QED
        BY <1>0, <2>1, <3>1, FirstFailure
    <2>3. /\ n \in Nat /\ n # 0 /\ n - 1 \in Axes /\ n \in 0 .. Dimensions
          /\ \A d \in Axes : /\ d < n <=> d < n - 1 \/ d = n - 1
      BY <1>0, <2>2
    <2>4. Kept(n - 1) /\ ~ Kept(n)
      BY <2>2
    <2>5. scanned[n] = next(scanned[n - 1], n - 1)
      BY <1>6, <2>3
    <2>6. SeedsAlong(n - 1).seed0 # SeedsAlong(n - 1).seed1 <=> Spread(n - 1)
      BY <2>3, SeedsAlongFind
    <2>7. CASE NoneBefore(n - 1) /\ scanned[n - 1] = none
      <3>1. ~ none.found
        BY DEF none
      <3>2. CASE Spread(n - 1)
        <4>1. scanned[n] = SeedsAlong(n - 1)
          BY <2>5, <2>6, <2>7, <3>1, <3>2
        <4> QED
          BY <2>3, <2>4, <2>7, <3>2, <4>1
      <3>3. CASE ~ Spread(n - 1)
        <4>1. scanned[n] = none
          BY <2>5, <2>6, <2>7, <3>3
        <4>2. NoneBefore(n)
          BY <2>3, <2>7, <3>3 DEF NoneBefore
        <4> QED
          BY <2>4, <4>1, <4>2
      <3> QED
        BY <3>2, <3>3
    <2>8. CASE \E dim \in Axes : /\ dim < n - 1 /\ Spread(dim) /\ NoneBefore(dim)
                                /\ scanned[n - 1] = SeedsAlong(dim)
      <3>1. PICK dim \in Axes : /\ dim < n - 1 /\ Spread(dim) /\ NoneBefore(dim)
                                /\ scanned[n - 1] = SeedsAlong(dim)
        BY <2>8
      <3>2. SeedsAlong(dim).found
        BY DEF SeedsAlong
      <3>3. scanned[n] = SeedsAlong(dim)
        BY <2>5, <3>1, <3>2
      <3> QED
        BY <2>3, <2>4, <3>1, <3>3
    <2> QED
      BY <2>4, <2>7, <2>8
  <1>8. Dimensions \in 0 .. Dimensions /\ \A d \in Axes : d < Dimensions
    BY <1>0
  <1>9. Kept(Dimensions)
    BY <1>7, <1>8
  <1>10. NoneBefore(Dimensions) => \A dim \in Axes : ~ Spread(dim)
    BY <1>8 DEF NoneBefore
  <1> QED
    BY <1>5, <1>9, <1>10 DEF none

\* The seeds stated by what they are and those the loops come to are the same.
LEMMA SeedsAreScanned ==
    ASSUME LocalsOK
    PROVE  LET seeds == SeedScan
           IN \A i, j \in Overflow :
                AreSeeds(i, j) <=> i = seeds.seed0 /\ j = seeds.seed1
  <1> SUFFICES ASSUME NEW i \in Overflow, NEW j \in Overflow
               PROVE  AreSeeds(i, j) <=> i = SeedScan.seed0 /\ j = SeedScan.seed1
    OBVIOUS
  <1>1. CASE /\ \A dim \in Axes : ~ Spread(dim)
             /\ SeedScan.seed0 = 0 /\ SeedScan.seed1 = 0
    BY <1>1 DEF AreSeeds
  <1>2. CASE \E dim \in Axes : /\ Spread(dim) /\ NoneBefore(dim)
                              /\ SeedScan = SeedsAlong(dim)
    <2>1. PICK dim \in Axes : /\ Spread(dim) /\ NoneBefore(dim)
                             /\ SeedScan = SeedsAlong(dim)
      BY <1>2
    <2>2. PICK seeds : seeds = SeedsAlong(dim)
      OBVIOUS
    <2>3. /\ seeds.seed0 \in Overflow /\ seeds.seed1 \in Overflow
          /\ IsMinIndex(seeds.seed0, dim) /\ IsMaxIndex(seeds.seed1, dim)
      BY <2>2, SeedsAlongFind
    <2>4. ASSUME NEW other \in Axes, Spread(other), NoneBefore(other)
          PROVE  other = dim
      <3>1. other \in Int /\ dim \in Int /\ ~ (dim < other) /\ ~ (other < dim)
        BY <2>1, <2>4, DimensionsAssumption DEF NoneBefore, Axes
      <3> QED
        BY <3>1
    <2>5. AreSeeds(i, j) <=> IsMinIndex(i, dim) /\ IsMaxIndex(j, dim)
      BY <2>1, <2>4 DEF AreSeeds, NoneBefore
    <2>6. IsMinIndex(i, dim) <=> i = seeds.seed0
      BY <2>3, SeedsUnique
    <2>7. IsMaxIndex(j, dim) <=> j = seeds.seed1
      BY <2>3, SeedsUnique
    <2> QED
      BY <2>1, <2>2, <2>5, <2>6, <2>7
  <1> QED
    BY <1>1, <1>2, SeedScanFinds

-----------------------------------------------------------------------------
\* An area is finite, infinite or no number, and growth a difference of such.
LEMMA AreaType == ASSUME NEW b \in Box PROVE area(b) \in Double
  <1>1. encloses(b, b)
    BY BoxEdges DEF encloses
  <1> QED
    BY <1>1, AreaMonotone

LEMMA MinusType ==
    ASSUME NEW x \in Double, NEW y \in Double
    PROVE  minus[x][y] \in Int
  BY MaxAreaAssumption DEF minus, Double, Finite, Infinity, NaN

\* The distance of the growths is no number, or not negative.
LEMMA DiffType ==
    ASSUME LocalsOK, NEW i \in Overflow
    PROVE  /\ diff(i) \in Int /\ (diff(i) = NaN \/ diff(i) >= 0)
           /\ betterGroup(i) \in {0, 1}
  <1>1. ASSUME NEW g \in {0, 1} PROVE growth(g, i) \in Int
    <2>1. boxOf(i) \in Box /\ m_groups[g].m_box \in Box
      BY DEF LocalsOK, boxOf, SubNode
    <2>2. unionWith(g, i) \in Box
      BY <2>1, UnionBoxType DEF unionWith
    <2>3. area(unionWith(g, i)) \in Double /\ area(m_groups[g].m_box) \in Double
      BY <2>1, <2>2, AreaType
    <2> QED
      BY <2>3, MinusType DEF growth
  <1> DEFINE growths == {growth(g, i) : g \in {0, 1}}
  <1>2. growths = {growth(0, i), growth(1, i)}
    OBVIOUS
  <1>3. growths \in SUBSET Int /\ growths # {} /\ IsFiniteSet(growths)
    <2>1. IsFiniteSet({growth(0, i)})
      BY FS_Singleton
    <2>2. IsFiniteSet({growth(0, i)} \cup {growth(1, i)})
      BY <2>1, FS_AddElement
    <2>3. growths = {growth(0, i)} \cup {growth(1, i)}
      BY <1>2
    <2> QED
      BY <1>1, <1>2, <2>2, <2>3
  <1>4. PICK hi, lo : hi = Max(growths) /\ lo = Min(growths)
    OBVIOUS
  <1>5. hi \in Int /\ lo \in Int /\ lo <= hi
    <2> HIDE DEF growths
    <2> QED
      BY <1>3, <1>4, FiniteExtrema
  <1>6. diff(i) \in {NaN, Infinity, hi - lo}
    BY <1>4 DEF diff
  <1>7. NaN = -1 /\ Infinity \in Nat
    BY MaxAreaAssumption DEF NaN, Infinity
  <1> QED
    BY <1>5, <1>6, <1>7 DEF betterGroup

\* What the loop has when it has passed the first n entries: nothing if they
\* all have a group; the first without one if its distance is no number; else
\* the first of those with the greatest distance, and among them the first
\* that wants the smaller group when there is one.
Passed(n) == {i \in Unassigned : i < n}
WantsSmaller(i) == count(betterGroup(i)) < count(1 - betterGroup(i))

IsBest(best, n) ==
    /\ best.firstTime = FALSE
    /\ best.index \in Passed(n)
    /\ best.biggestDiff = diff(best.index)
    /\ best.group = betterGroup(best.index)
    /\ \E f \in Passed(n) :
         /\ \A j \in Passed(n) : f <= j
         /\ diff(f) = NaN => best.index = f
         /\ diff(f) # NaN =>
              /\ best.biggestDiff # NaN
              /\ \A j \in Passed(n) : diff(j) <= best.biggestDiff
              /\ \A j \in Passed(n) : diff(j) = best.biggestDiff =>
                   IF WantsSmaller(best.index)
                     THEN WantsSmaller(j) => best.index <= j
                     ELSE ~ WantsSmaller(j) /\ best.index <= j

ScanState == [firstTime : BOOLEAN, biggestDiff : Int, index : Overflow \cup {-1},
              group : {0, 1}]

\* One entry that has a group changes nothing; one that has none is the best,
\* or leaves the best what it was.
LEMMA ConsideredKeeps ==
    ASSUME LocalsOK, NEW n \in Overflow, NEW best,
           Passed(n) = {} => best = NothingScanned,
           Passed(n) # {} => IsBest(best, n)
    PROVE  /\ Passed(n + 1) = {} => Considered(best, n) = NothingScanned
           /\ Passed(n + 1) # {} => IsBest(Considered(best, n), n + 1)
  <1> DEFINE new == [firstTime |-> FALSE, biggestDiff |-> diff(n),
                     index |-> n, group |-> betterGroup(n)]
  <1>0. \A i \in Overflow : i \in Nat
    BY ChildrenAssumption DEF Overflow
  <1>1. Unassigned \subseteq Overflow /\ (n \in Unassigned <=> m_groupAssign[n] = -1)
    BY DEF Unassigned
  <1>2. CASE n \notin Unassigned
    <2>1. Passed(n + 1) = Passed(n)
      BY <1>0, <1>1, <1>2 DEF Passed
    <2>2. Considered(best, n) = best
      BY <1>1, <1>2 DEF Considered
    <2> QED
      BY <2>1, <2>2 DEF IsBest
  <1>3. CASE n \in Unassigned
    <2>1. /\ Passed(n + 1) = Passed(n) \cup {n} /\ n \notin Passed(n)
          /\ \A j \in Passed(n) : j < n /\ j <= n /\ j \in Overflow
      BY <1>0, <1>1, <1>3 DEF Passed
    <2>2. \A j \in Overflow : /\ diff(j) \in Int
                             /\ (diff(j) = NaN \/ diff(j) >= 0)
                             /\ betterGroup(j) \in {0, 1}
      BY DiffType
    <2>3. count(0) \in Nat /\ count(1) \in Nat
      BY ChildrenAssumption DEF LocalsOK, count, Size
    <2>4. NaN = -1
      BY DEF NaN
    <2>5. CASE Passed(n) = {}
      <3>1. Considered(best, n) = new
        BY <1>1, <1>3, <2>5 DEF Considered, NothingScanned
      <3>2. IsBest(new, n + 1)
        BY <2>1, <2>2, <2>5, <1>0 DEF IsBest
      <3> QED
        BY <2>1, <3>1, <3>2
    <2>6. CASE Passed(n) # {}
      <3>1. IsBest(best, n)
        BY <2>6
      <3>2. PICK f \in Passed(n) :
              /\ \A j \in Passed(n) : f <= j
              /\ diff(f) = NaN => best.index = f
              /\ diff(f) # NaN =>
                   /\ best.biggestDiff # NaN
                   /\ \A j \in Passed(n) : diff(j) <= best.biggestDiff
                   /\ \A j \in Passed(n) : diff(j) = best.biggestDiff =>
                        IF WantsSmaller(best.index)
                          THEN WantsSmaller(j) => best.index <= j
                          ELSE ~ WantsSmaller(j) /\ best.index <= j
        BY <3>1 DEF IsBest
      <3>3. /\ best.firstTime = FALSE /\ best.index \in Passed(n)
            /\ best.biggestDiff = diff(best.index)
            /\ best.group = betterGroup(best.index)
        BY <3>1 DEF IsBest
      <3>4. f \in Passed(n + 1) /\ \A j \in Passed(n + 1) : f <= j
        BY <2>1, <3>2, <1>0
      <3>5. CASE diff(f) = NaN
        <4>1. Considered(best, n) = best
          BY <3>2, <3>3, <3>5 DEF Considered
        <4>2. IsBest(best, n + 1)
          BY <2>1, <3>2, <3>3, <3>4, <3>5 DEF IsBest
        <4> QED
          BY <2>1, <4>1, <4>2
      <3>6. CASE diff(f) # NaN
        <4>1. CASE diff(n) > best.biggestDiff
          <5>1. Considered(best, n) = new /\ diff(n) # NaN
            BY <1>1, <1>3, <2>1, <2>2, <2>4, <3>2, <3>3, <3>6, <4>1 DEF Considered
          <5>2. /\ \A j \in Passed(n + 1) : diff(j) <= diff(n)
                /\ \A j \in Passed(n + 1) : diff(j) = diff(n) => j = n
            BY <2>1, <2>2, <3>2, <3>3, <3>6, <4>1
          <5>3. IsBest(new, n + 1)
            BY <1>0, <2>1, <3>4, <3>6, <5>1, <5>2 DEF IsBest
          <5> QED
            BY <2>1, <5>1, <5>3
        <4>2. CASE diff(n) = best.biggestDiff
          <5>1. /\ diff(n) # NaN
                /\ best.group \in {0, 1} /\ betterGroup(n) \in {0, 1}
            BY <2>1, <2>2, <3>2, <3>3, <3>6, <4>2
          <5>2. CASE count(betterGroup(n)) < count(best.group)
            <6>1. Considered(best, n) = new
              BY <1>1, <1>3, <3>2, <3>6, <4>2, <5>1, <5>2 DEF Considered
            <6>2. WantsSmaller(n) /\ ~ WantsSmaller(best.index)
              BY <2>3, <3>3, <5>1, <5>2 DEF WantsSmaller
            <6>3. IsBest(new, n + 1)
              BY <1>0, <2>1, <2>2, <3>2, <3>3, <3>4, <3>6, <4>2, <6>2 DEF IsBest
            <6> QED
              BY <2>1, <6>1, <6>3
          <5>3. CASE ~ (count(betterGroup(n)) < count(best.group))
            <6>1. Considered(best, n) = best
              BY <2>1, <2>2, <3>3, <4>2, <5>3 DEF Considered
            <6>2. WantsSmaller(n) => WantsSmaller(best.index)
              BY <2>3, <3>3, <5>1, <5>3 DEF WantsSmaller
            <6>3. IsBest(best, n + 1)
              BY <1>0, <2>1, <2>2, <3>2, <3>3, <3>4, <3>6, <4>2, <6>2 DEF IsBest
            <6> QED
              BY <2>1, <6>1, <6>3
          <5> QED
            BY <5>2, <5>3
        <4>3. CASE diff(n) < best.biggestDiff
          <5>1. Considered(best, n) = best
            BY <2>1, <2>2, <3>3, <4>3 DEF Considered
          <5>2. IsBest(best, n + 1)
            BY <1>0, <2>1, <2>2, <3>2, <3>3, <3>4, <3>6, <4>3 DEF IsBest
          <5> QED
            BY <2>1, <5>1, <5>2
        <4> QED
          BY <2>1, <2>2, <3>3, <4>1, <4>2, <4>3
      <3> QED
        BY <3>5, <3>6
    <2> QED
      BY <2>5, <2>6
  <1> QED
    BY <1>2, <1>3

\* The loop ends with the best of the entries that have no group.
LEMMA ScanFinds ==
    ASSUME LocalsOK, Unassigned # {}
    PROVE  IsBest(Scan, Size)
  <1> DEFINE step == [n \in 1 .. Size |->
                        [best \in ScanState |-> Considered(best, n - 1)]]
             whole(f) == [n \in 0 .. Size |->
                            IF n = 0 THEN NothingScanned
                            ELSE Considered(f[n - 1], n - 1)]
             scanned == CHOOSE f : f = whole(f)
  <1>0. /\ Size \in Nat /\ Size # 0
        /\ \A n \in 1 .. Size : n - 1 \in Overflow /\ n - 1 \in 0 .. Size
        /\ Overflow = 0 .. MaxChildren /\ Size = MaxChildren + 1
        /\ MaxChildren \in Nat
    BY ChildrenAssumption DEF Overflow, Size
  <1>1. NothingScanned \in ScanState
    BY DEF NothingScanned, ScanState
  <1>2. ASSUME NEW best \in ScanState, NEW i \in Overflow
        PROVE  Considered(best, i) \in ScanState
    BY DiffType DEF Considered, ScanState
  <1>3. PICK f \in [0 .. Size -> ScanState] : IsRun(f, NothingScanned, step, Size)
    <2>1. step \in [1 .. Size -> [ScanState -> ScanState]]
      BY <1>0, <1>2
    <2> HIDE DEF step
    <2> QED
      BY <1>0, <1>1, <2>1, RunExists
  <1>4. f = whole(f)
    <2>1. ASSUME NEW n \in 0 .. Size
          PROVE  (IF n = 0 THEN NothingScanned ELSE step[n][f[n - 1]]) = whole(f)[n]
      <3>1. CASE n # 0
        <4>1. n \in 1 .. Size /\ n - 1 \in 0 .. Size
          BY <1>0, <3>1
        <4>2. f[n - 1] \in ScanState
          BY <1>3, <4>1
        <4> QED
          BY <3>1, <4>1, <4>2
      <3> QED
        BY <3>1
    <2>2. f = [n \in 0 .. Size |->
                 IF n = 0 THEN NothingScanned ELSE step[n][f[n - 1]]]
      BY <1>3 DEF IsRun
    <2> HIDE DEF step
    <2> QED
      BY <2>1, <2>2
  <1>5. scanned = whole(scanned)
    <2> HIDE DEF whole
    <2> QED
      BY <1>4
  <1>6. Scan = scanned[Size]
    BY DEF Scan
  <1>7. \A n \in 0 .. Size :
          scanned[n] = IF n = 0 THEN NothingScanned
                       ELSE Considered(scanned[n - 1], n - 1)
    <2> HIDE DEF scanned
    <2> QED
      BY <1>5
  <1> HIDE DEF scanned, whole, step
  <1> DEFINE Good(n) == /\ Passed(n) = {} => scanned[n] = NothingScanned
                        /\ Passed(n) # {} => IsBest(scanned[n], n)
             Bad == {n \in 0 .. Size : ~ Good(n)}
  <1>8. Bad = {}
    <2> SUFFICES ASSUME Bad # {} PROVE FALSE
      OBVIOUS
    <2>1. 0 \notin Bad
      <3>1. Passed(0) = {}
        BY <1>0 DEF Passed, Unassigned
      <3>2. scanned[0] = NothingScanned
        BY <1>0, <1>7
      <3> QED
        BY <3>1, <3>2
    <2>2. PICK n \in Bad : /\ n \in 1 .. Size
                           /\ n - 1 \in 0 .. Size /\ n - 1 \notin Bad
      <3>1. Bad \in SUBSET (0 .. Size)
        OBVIOUS
      <3> HIDE DEF Bad
      <3> QED
        BY <1>0, <2>1, <3>1, FirstFailure
    <2>3. n \in Nat /\ n # 0 /\ n - 1 \in Overflow /\ n \in 0 .. Size
      BY <1>0, <2>2
    <2>4. Good(n - 1) /\ ~ Good(n)
      BY <2>2
    <2>5. PICK best : best = scanned[n - 1]
      OBVIOUS
    <2>6. scanned[n] = Considered(best, n - 1)
      BY <1>7, <2>3, <2>5
    <2>7. /\ Passed(n) = {} => Considered(best, n - 1) = NothingScanned
          /\ Passed(n) # {} => IsBest(Considered(best, n - 1), n)
      <3>1. (n - 1) + 1 = n
        BY <2>3
      <3>2. /\ Passed((n - 1) + 1) = {} => Considered(best, n - 1) = NothingScanned
            /\ Passed((n - 1) + 1) # {}
                 => IsBest(Considered(best, n - 1), (n - 1) + 1)
        BY <2>3, <2>4, <2>5, ConsideredKeeps
      <3> QED
        BY <3>1, <3>2
    <2> QED
      BY <2>4, <2>6, <2>7
  <1>9. Size \in 0 .. Size
    BY <1>0
  <1>10. Good(Size)
    BY <1>8, <1>9
  <1>11. Passed(Size) = Unassigned
    BY <1>0 DEF Passed, Unassigned
  <1> QED
    BY <1>6, <1>10, <1>11

\* The choice stated by what it is and the one the loop comes to are the same.
LEMMA ChoiceIsScanned ==
    ASSUME LocalsOK, Unassigned # {}
    PROVE  LET best == Scan
           IN \A i \in Unassigned :
                IsChosen(i) <=> i = best.index /\ betterGroup(i) = best.group
  <1>0. PICK found : found = Scan
    OBVIOUS
  <1>1. IsBest(found, Size)
    BY <1>0, ScanFinds
  <1>2. Passed(Size) = Unassigned
    BY ChildrenAssumption DEF Passed, Unassigned, Overflow, Size
  <1>3. /\ Unassigned \in SUBSET Int /\ IsFiniteSet(Unassigned)
        /\ Unassigned \subseteq Overflow
    BY OverflowSize, FS_Subset, ChildrenAssumption DEF Unassigned, Overflow
  <1>4. PICK f : f = Min(Unassigned)
    OBVIOUS
  <1>5. f \in Unassigned /\ \A j \in Unassigned : f <= j
    BY <1>3, <1>4, FiniteExtrema
  <1>6. \A j \in Unassigned : /\ diff(j) \in Int /\ j \in Int
                              /\ betterGroup(j) \in {0, 1}
    BY <1>3, DiffType
  <1> DEFINE distance == [i \in Unassigned |-> diff(i)]
             distances == {distance[i] : i \in Unassigned}
  <1>7. PICK farthest : farthest = Max(distances)
    OBVIOUS
  <1>8. farthest \in distances /\ \A x \in distances : x <= farthest
    <2>1. distances \in SUBSET Int /\ distances # {}
      BY <1>6
    <2>2. IsFiniteSet(distances)
      <3>1. distance \in Surjection(Unassigned, distances)
        BY DEF Surjection
      <3> HIDE DEF distance, distances
      <3> QED
        BY <1>3, <3>1, FS_Surjection
    <2> HIDE DEF distances
    <2> QED
      BY <1>7, <2>1, <2>2, FiniteExtrema
  <1> DEFINE far == {i \in Unassigned : distance[i] = farthest}
             wanted == {i \in far : count(betterGroup(i)) < count(1 - betterGroup(i))}
             pool == IF distance[f] = NaN THEN {f}
                     ELSE IF wanted = {} THEN far ELSE wanted
  <1>9. \A i \in Unassigned : IsChosen(i) <=> i = Min(pool)
    BY <1>4, <1>7 DEF IsChosen
  <1>10. /\ found.index \in Unassigned
         /\ found.biggestDiff = diff(found.index)
         /\ found.group = betterGroup(found.index)
         /\ diff(f) = NaN => found.index = f
         /\ diff(f) # NaN =>
              /\ \A j \in Unassigned : diff(j) <= found.biggestDiff
              /\ \A j \in Unassigned : diff(j) = found.biggestDiff =>
                   IF WantsSmaller(found.index)
                     THEN WantsSmaller(j) => found.index <= j
                     ELSE ~ WantsSmaller(j) /\ found.index <= j
    <2>1. PICK g \in Unassigned :
            /\ \A j \in Unassigned : g <= j
            /\ diff(g) = NaN => found.index = g
            /\ diff(g) # NaN =>
                 /\ \A j \in Unassigned : diff(j) <= found.biggestDiff
                 /\ \A j \in Unassigned : diff(j) = found.biggestDiff =>
                      IF WantsSmaller(found.index)
                        THEN WantsSmaller(j) => found.index <= j
                        ELSE ~ WantsSmaller(j) /\ found.index <= j
      BY <1>1, <1>2 DEF IsBest
    <2>2. g = f
      BY <1>5, <1>6, <2>1
    <2> QED
      BY <1>1, <1>2, <2>1, <2>2 DEF IsBest
  <1>11. found.index \in pool /\ \A j \in pool : found.index <= j
    <2>1. CASE diff(f) = NaN
      BY <1>5, <1>6, <1>10, <2>1
    <2>2. CASE diff(f) # NaN
      <3>1. farthest = diff(found.index)
        <4>1. /\ diff(found.index) \in distances
              /\ \A x \in distances : x <= diff(found.index)
          BY <1>10, <2>2
        <4>2. farthest <= diff(found.index) /\ diff(found.index) <= farthest
          <5> HIDE DEF distances
          <5> QED
            BY <1>8, <4>1, Zenon
        <4>3. farthest \in Int /\ diff(found.index) \in Int
          BY <1>6, <1>8, <1>10
        <4> QED
          BY <4>2, <4>3
      <3>2. \A i : i \in far <=> i \in Unassigned /\ diff(i) = found.biggestDiff
        BY <1>10, <3>1
      <3>3. \A i : i \in wanted <=> i \in far /\ WantsSmaller(i)
        BY DEF WantsSmaller
      <3>4. found.index \in far
        BY <1>10, <3>2
      <3>5. distance[f] # NaN
        BY <1>5, <2>2
      <3> HIDE DEF far, wanted, distance
      <3>6. CASE WantsSmaller(found.index)
        <4>1. wanted # {} /\ pool = wanted
          BY <3>3, <3>4, <3>5, <3>6
        <4> QED
          BY <1>10, <2>2, <3>2, <3>3, <3>4, <3>6, <4>1
      <3>7. CASE ~ WantsSmaller(found.index)
        <4>1. wanted = {}
          BY <1>10, <2>2, <3>2, <3>3, <3>7
        <4>2. pool = far
          BY <3>5, <4>1
        <4> QED
          BY <1>10, <2>2, <3>2, <3>4, <3>7, <4>2
      <3> QED
        BY <3>6, <3>7
    <2> QED
      BY <2>1, <2>2
  <1>12. Min(pool) = found.index
    <2>1. pool \subseteq Unassigned
      BY <1>5
    <2>2. IsFiniteSet(pool) /\ pool \in SUBSET Int /\ pool # {}
      <3> HIDE DEF pool
      <3> QED
        BY <1>3, <1>11, <2>1, FS_Subset
    <2>3. PICK m : m = Min(pool)
      OBVIOUS
    <2>4. m \in pool /\ \A j \in pool : m <= j
      <3> HIDE DEF pool
      <3> QED
        BY <2>2, <2>3, FiniteExtrema
    <2>5. m = found.index
      <3>1. m \in Int /\ found.index \in Int
        BY <1>11, <2>2, <2>4
      <3> HIDE DEF pool
      <3> QED
        BY <1>11, <2>4, <3>1
    <2> QED
      BY <2>3, <2>5
  <1> HIDE DEF pool
  <1> QED
    BY <1>0, <1>9, <1>10, <1>12

\* The two choices of a split, stated by what they pick, are what the loops of
\* the code come to, ties and areas that are no numbers included.
THEOREM ChoicesAreScans == Spec => []ChoicesMatchScans
  <1>1. TypeOK /\ SplitCore => ChoicesMatchScans
    <2> SUFFICES ASSUME TypeOK, SplitCore PROVE ChoicesMatchScans
      OBVIOUS
    <2>1. LocalsOK
      BY DEF TypeOK
    <2>2. LET seeds == SeedScan
          IN \A i, j \in Overflow :
               AreSeeds(i, j) <=> i = seeds.seed0 /\ j = seeds.seed1
      BY <2>1, SeedsAreScanned
    <2>3. LET best == Scan
          IN \A i \in Unassigned :
               IsChosen(i) <=> i = best.index /\ betterGroup(i) = best.group
      BY <2>1, ChoiceIsScanned
    <2> QED
      BY <2>2, <2>3 DEF ChoicesMatchScans
  <1> QED
    BY <1>1, SplitCoreInvariant, PTL
=============================================================================
