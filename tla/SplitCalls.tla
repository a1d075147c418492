----------------------------- MODULE SplitCalls -----------------------------
(***************************************************************************)
(* SplitNode on its own: called with any overflowing node, again and       *)
(* again, until an assertion ends the program.                             *)
(***************************************************************************)
EXTENDS NodeSplit

CONSTANT Splittable     \* the overflowing nodes a caller may pass

ASSUME SplittableAssumption == Splittable \subseteq [Overflow -> SubNode]

vars == <<pc, splitVars>>

Init == pc = "idle" /\ NoLocals

CallSplit == pc = "idle" /\ \E entries \in Splittable : StartSplit(entries)

ReturnFromSplit == pc = "assigned" /\ pc' = "idle" /\ DropLocals

Aborted == pc = "aborted" /\ UNCHANGED vars

Next == CallSplit \/ SplitStep \/ ReturnFromSplit \/ Aborted

Spec == Init /\ [][Next]_vars

\* The program is sequential: a function that was called keeps running.
FairSpec == Spec /\ WF_vars(SplitStep)
-----------------------------------------------------------------------------
\* The assignment of a group to an entry is within the types of GroupAssign.
TypeOK ==
    /\ pc \in {"idle", "seed", "deal", "rest", "check", "assigned", "aborted"}
    /\ LocalsOK

\* When the assertions on the groups are reached, no entry is left behind and
\* either group has MinChildren to MaxChildren of them, so that the loop that
\* fills the two nodes (spatialIndex.cpp:350-359) never overflows one.
SplitBalanced ==
    pc \in {"check", "assigned"} =>
        /\ Unassigned = {}
        /\ \A g \in {0, 1} :
             Cardinality(Members(g)) \in MinChildren .. MaxChildren

\* The box AssignGroup grows, on which every later choice depends, is at any
\* time the smallest box around the entries of the group.
GroupBoxExact ==
    \A g \in {0, 1} : Members(g) # {} =>
        m_groups[g].m_box = Cover({boxOf(i) : i \in Members(g)})

\* The only assertion of a split that can fail is the one that finds both
\* seeds to be the same entry, and only when along every axis all the lower
\* bounds are equal; the three assertions on the group sizes
\* (spatialIndex.cpp:336-339) hold for any boxes.
AbortsOnlyWithoutSpread ==
    pc = "aborted" => /\ \A dim \in Axes : ~ Spread(dim)
                      /\ Cardinality(Unassigned) = MaxChildren

\* One iteration of the loop over the buffer (spatialIndex.cpp:273-308): entry
\* i, when it has no group yet, against the best of the entries before it.
Considered(best, i) ==
    LET wants == betterGroup(i)
        numbers == diff(i) # NaN /\ best.biggestDiff # NaN
        better == \/ best.firstTime
                  \/ numbers /\ diff(i) > best.biggestDiff
                  \/ /\ numbers /\ diff(i) = best.biggestDiff
                     /\ count(wants) < count(best.group)
    IN IF m_groupAssign[i] = -1 /\ better
         THEN [firstTime |-> FALSE, biggestDiff |-> diff(i),
               index |-> i, group |-> wants]
       ELSE best

\* The whole loop, from firstTime to the choice it ends with.
NothingScanned ==
    [firstTime |-> TRUE, biggestDiff |-> 0, index |-> -1, group |-> 0]

Scan ==
    LET scanned[n \in 0 .. Size] ==
          IF n = 0 THEN NothingScanned
          ELSE Considered(scanned[n - 1], n - 1)
    IN scanned[Size]

\* The loop over the entries (spatialIndex.cpp:225-235), for one of the bounds.
FirstLeast(bound) ==
    LET first[n \in Overflow] ==
          IF n = 0 THEN 0
          ELSE IF bound[n] < bound[first[n - 1]] THEN n ELSE first[n - 1]
    IN first[MaxChildren]

\* The greatest bound is the least of the opposites.
FirstGreatest(bound) == FirstLeast([i \in Overflow |-> - bound[i]])

SeedsAlong(dim) ==
    [seed0 |-> FirstLeast([i \in Overflow |-> minBound(boxOf(i), dim)]),
     seed1 |-> FirstGreatest([i \in Overflow |-> maxBound(boxOf(i), dim)]),
     found |-> TRUE]

\* The loop over the axes (spatialIndex.cpp:220-248): a separation is infinite
\* or NaN, and only an infinite one beats the initial minus infinity.
SeedScan ==
    LET scanned[n \in 0 .. Dimensions] ==
          IF n = 0 THEN [seed0 |-> 0, seed1 |-> 0, found |-> FALSE]
          ELSE LET along == SeedsAlong(n - 1)
               IN IF ~ scanned[n - 1].found /\ along.seed0 # along.seed1
                    THEN along ELSE scanned[n - 1]
    IN scanned[Dimensions]

\* Both choices of SplitNode, stated above by what they pick, pick what the
\* code's scans over the buffer come to, ties included.
ChoicesMatchScans ==
    /\ pc = "seed" =>
         LET seeds == SeedScan
         IN \A i, j \in Overflow :
              AreSeeds(i, j) <=> i = seeds.seed0 /\ j = seeds.seed1
    /\ pc = "deal" /\ KeepDealing =>
         LET best == Scan
         IN \A i \in Unassigned :
              IsChosen(i) <=> i = best.index /\ betterGroup(i) = best.group

\* Every call of SplitNode ends: the main loop always finds an entry to deal.
SplitEnds == pc = "seed" ~> pc \in {"assigned", "aborted"}

\* What the comment at spatialIndex.cpp:250 says of the seeds, "Ensure the
\* chosen seeds are different", above an assertion that is commented out.
SeedsDiffer ==
    pc = "seed" => \A i, j \in Overflow : AreSeeds(i, j) => i # j

\* The assertions at spatialIndex.cpp:338-339: either group has MinChildren
\* entries once all are assigned.
MinimumReached ==
    pc = "check" => \A g \in {0, 1} : count(g) >= MinChildren
=============================================================================
