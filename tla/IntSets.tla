------------------------------- MODULE IntSets -------------------------------
(***************************************************************************)
(* What RangeSet objects promise: each is a set of integers.               *)
(***************************************************************************)
EXTENDS Integers

CONSTANTS Objects, Universe

VARIABLE sets

Init == sets = [o \in Objects |-> {}]

Becomes(o, S) == sets' = [sets EXCEPT ![o] = S]

\* A difference is exact unless the result is moved out of the function, when
\* it is empty, or the minuend holds a negative element, when it may lack some.
Differences(S, T) ==
    {S \ T, {}} \cup (IF \E e \in S : e < 0 THEN SUBSET (S \ T) ELSE {})

Next ==
    \/ \E o \in Objects, a, b \in Universe : Becomes(o, sets[o] \cup a .. b)
    \/ \E o \in Objects, e \in Universe : Becomes(o, sets[o] \ {e})
    \/ \E o \in Objects : Becomes(o, {})
    \/ \E o, p \in Objects : Becomes(o, sets[p])
    \/ \E o, p, q \in Objects :
         \/ Becomes(o, sets[p] \cup sets[q])
         \/ Becomes(o, sets[p] \cap sets[q])
         \/ \E D \in Differences(sets[p], sets[q]) : Becomes(o, D)

Spec == Init /\ [][Next]_sets
=============================================================================
