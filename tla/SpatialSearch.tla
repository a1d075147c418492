---------------------------- MODULE SpatialSearch ----------------------------
(***************************************************************************)
(* SpatialIndex::SearchTag on the tree that Insert builds, and the user's  *)
(* callback, which may call Insert.  The recursion of                      *)
(* RecursivelySearchTag is unfolded like that of the insertion: walk holds *)
(* its activations, each with the index of its loop.  They read m_csize    *)
(* and the slots anew in every iteration, so that an Insert made by the    *)
(* callback changes the nodes under the open loops.                        *)
(***************************************************************************)
EXTENDS SpatialIndex

CONSTANT Targets        \* the boxes SearchTag is called with

ASSUME TargetsAssumption == Targets \subseteq Box

VARIABLES
    searching,  \* "no", "walk" in the tree, or "callback" while that runs
    r_target,   \* the box searched for
    walk,       \* the activations of RecursivelySearchTag, innermost last
    reported,   \* the entries handed to the callback, in that order
    declined,   \* those for which it returned false
    before,     \* history: m_size when SearchTag was called
    entered,    \* history: the nodes this search has come to
    torn        \* history: "left" or "open" when such a node was split
                \* after the search had left it, or while it was in it

historyVars == <<before, entered, torn>>
searchVars == <<searching, r_target, walk, reported, declined, historyVars>>
allVars == <<vars, searchVars>>

SearchInit ==
    /\ Init
    /\ searching = "no"
    /\ r_target = Origin
    /\ walk = <<>>
    /\ reported = <<>>
    /\ declined = {}
    /\ before = 0
    /\ entered = {}
    /\ torn = {}

SearchTag(a_target) ==
    /\ pc = "idle" /\ searching = "no"
    /\ searching' = "walk"
    /\ r_target' = a_target
    /\ walk' = <<[p_node |-> m_root, i |-> 0]>>
    /\ before' = m_size
    /\ entered' = {m_root}
    /\ UNCHANGED <<vars, reported, declined, torn>>

top == Last(walk)
topEntry == sub(top.p_node, top.i)

\* The loop of the caller goes on with its next index.
Resumed(stack) ==
    IF stack = <<>> THEN stack
    ELSE [stack EXCEPT ![Len(stack)].i = stack[Len(stack)].i + 1]

InLoop ==
    searching = "walk" /\ walk # <<>> /\ top.i < heap[top.p_node].m_csize

\* A leaf's entry that overlaps the target goes to the callback.
Process ==
    /\ InLoop
    /\ isLeaf(top.p_node)
    /\ isOverlap(topEntry.m_box, r_target)
    /\ reported' = Append(reported, topEntry)
    /\ searching' = "callback"
    /\ UNCHANGED <<vars, r_target, walk, declined, historyVars>>

\* Mutant: a false ends the whole search.
Answer_EndsAll(conti) ==
    /\ searching = "callback" /\ pc = "idle"
    /\ searching' = "walk"
    /\ IF conti
         THEN walk' = Resumed(walk) /\ UNCHANGED declined
         ELSE walk' = <<>> /\ declined' = declined \cup {Last(reported)}
    /\ UNCHANGED <<vars, r_target, reported, historyVars>>

\* Mutant: the entry is handed out again until the callback declines.
Answer_Again(conti) ==
    /\ searching = "callback" /\ pc = "idle"
    /\ searching' = "walk"
    /\ IF conti
         THEN UNCHANGED <<walk, declined>>
         ELSE /\ walk' = Resumed(Front(walk))
              /\ declined' = declined \cup {Last(reported)}
    /\ UNCHANGED <<vars, r_target, reported, historyVars>>

\* The callback answers whether to continue.  A false only ends the loop over
\* this leaf; after a true the leaf's child, a null pointer, is searched.
Answer(conti) ==
    /\ searching = "callback" /\ pc = "idle"
    /\ searching' = "walk"
    /\ IF conti
         THEN walk' = Resumed(walk) /\ UNCHANGED declined
         ELSE /\ walk' = Resumed(Front(walk))
              /\ declined' = declined \cup {Last(reported)}
    /\ UNCHANGED <<vars, r_target, reported, historyVars>>

\* Mutant: the loop index is not advanced.
Pass_Stuck ==
    /\ InLoop
    /\ isLeaf(top.p_node)
    /\ ~ isOverlap(topEntry.m_box, r_target)
    /\ UNCHANGED <<vars, searchVars>>

Pass ==
    /\ InLoop
    /\ isLeaf(top.p_node)
    /\ ~ isOverlap(topEntry.m_box, r_target)
    /\ walk' = Resumed(walk)
    /\ UNCHANGED <<vars, searching, r_target, reported, declined, historyVars>>

\* Mutant: subtrees are pruned by enclosure, not by overlap.
Visit_Prunes ==
    /\ InLoop
    /\ ~ isLeaf(top.p_node)
    /\ walk' = IF encloses(topEntry.m_box, r_target)
                 THEN Append(walk, [p_node |-> topEntry.m_child, i |-> 0])
                 ELSE Resumed(walk)
    /\ entered' = entered \cup {topEntry.m_child}
    /\ UNCHANGED <<vars, searching, r_target, reported, declined, before, torn>>

\* Every child of an inner node is visited, whatever its box.
Visit ==
    /\ InLoop
    /\ ~ isLeaf(top.p_node)
    /\ walk' = Append(walk, [p_node |-> topEntry.m_child, i |-> 0])
    /\ entered' = entered \cup {topEntry.m_child}
    /\ UNCHANGED <<vars, searching, r_target, reported, declined, before, torn>>

LeaveNode ==
    /\ searching = "walk" /\ walk # <<>>
    /\ top.i >= heap[top.p_node].m_csize
    /\ walk' = Resumed(Front(walk))
    /\ UNCHANGED <<vars, searching, r_target, reported, declined, historyVars>>

\* SearchTag returns; what the callback collected is the user's.
EndSearch ==
    /\ searching = "walk" /\ walk = <<>>
    /\ searching' = "no"
    /\ r_target' = Origin
    /\ reported' = <<>>
    /\ declined' = {}
    /\ before' = 0 /\ entered' = {} /\ torn' = {}
    /\ UNCHANGED <<vars, walk>>

SearchStep == \/ Process
              \/ \E conti \in BOOLEAN : Answer(conti)
              \/ Pass \/ Visit \/ LeaveNode \/ EndSearch

open == {walk[k].p_node : k \in DOMAIN walk}

\* The index is called between two searches, or by the callback of one.
CallIndex ==
    /\ searching # "walk"
    /\ Next
    /\ torn' = IF pc = "assigned" /\ p_node \in entered
                 THEN torn \cup {IF p_node \in open THEN "open" ELSE "left"}
                 ELSE torn
    /\ UNCHANGED <<searching, r_target, walk, reported, declined, before, entered>>

SearchNext ==
    \/ CallIndex
    \/ \E a_target \in Targets : SearchTag(a_target)
    \/ SearchStep

SearchSpec == SearchInit /\ [][SearchNext]_allVars

FairSearchSpec ==
    /\ SearchSpec
    /\ WF_allVars(SearchStep)
    /\ WF_allVars(pc # "idle" /\ CallIndex)
-----------------------------------------------------------------------------
\* The index, its tree hidden, is an EntryStore: nothing is lost by Insert,
\* and a search reports each entry that matches once and misses none that was
\* stored when it began, as long as no node it has come to is split by its own
\* callback.  The entry of the k-th Insert is stored once that call returns.
Entry(subNode) == <<subNode.m_data, subNode.m_box>>

Store == INSTANCE EntryStore WITH
    phase <- IF Dead THEN "dead"
             ELSE IF searching = "no" THEN "ready"
             ELSE IF torn = {} THEN "searching" ELSE "disturbed",
    stored <- {<<k, inserted[k]>> : k \in DOMAIN inserted},
    query <- r_target,
    due <- {<<k, inserted[k]>> :
              k \in {k \in 1 .. before : isOverlap(inserted[k], r_target)}},
    reported <- [k \in DOMAIN reported |-> Entry(reported[k])],
    declined <- {Entry(e) : e \in declined}

ImplementsStore == Store!Spec

\* At the end of a search: the places of matching entries that it was due to
\* report and has not.
Missed ==
    {p \in Places : /\ isLeaf(p[1]) /\ at(p).m_data <= before
                    /\ isOverlap(at(p).m_box, r_target)
                    /\ at(p) \notin ToSet(reported)}

AfterDeclined(p) == \E s \in Used(p[1]) : s < p[2] /\ sub(p[1], s) \in declined

\* Two things make a search miss an entry: the entry stands in a leaf after
\* one for which the callback returned false, or a node was split while the
\* search was in it, so that its second half is where the search does not
\* look.  The split of a node it had left only makes it report entries again.
MissesExplained ==
    searching = "walk" /\ walk = <<>> =>
        /\ declined = {} /\ "open" \notin torn => Missed = {}
        /\ torn = {} => \A p \in Missed : AfterDeclined(p)

\* The entries that fit below a node of this height.
capacity(height) ==
    LET room[level \in 0 .. height] ==
          IF level = 0 THEN MaxChildren ELSE MaxChildren * room[level - 1]
    IN room[height]

\* A search makes at most as many calls as its root had room for entries
\* below it, even when every call of the callback inserts more: the loops run
\* over places, and the indices of the open ones only grow.
CallsBounded ==
    searching # "no" /\ walk # <<>> =>
        Len(reported) <= capacity(heap[walk[1].p_node].m_height)

\* The interface of the callback (spatialIndex.hpp:52): "True if processing
\* should continue, false otherwise"; once it says false nothing follows.
StopsWhenTold ==
    \A i \in DOMAIN reported : reported[i] \in declined => i = Len(reported)

\* Every search comes to its end, or the program to its own.
SearchReturns ==
    searching # "no" ~> searching = "no" \/ Dead
=============================================================================
