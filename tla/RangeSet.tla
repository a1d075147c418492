------------------------------ MODULE RangeSet ------------------------------
(***************************************************************************)
(* support/rangeSet.hpp and support/range.hpp: a set of integers as a list *)
(* of ranges.  A few RangeSet objects are the targets and operands of      *)
(* every operation.  add and remove are one step; addAll, And and subtract *)
(* take one step per iteration of their loop, with their locals as         *)
(* variables, and store the set they return in the object dest.            *)
(***************************************************************************)
EXTENDS Integers, SequencesExt

CONSTANTS Objects,      \* the RangeSet objects of the program
          Universe      \* the elements the program mentions

ASSUME ObjectsAssumption == Objects # {}
ASSUME UniverseAssumption == Universe \subseteq Int

VARIABLES
    _ranges,    \* of each object
    pc,         \* the loop in progress, or "idle"
    dest,       \* the object that is assigned the result
    this,       \* the operands of the operation
    other,
    i, j,       \* the loop's indices into the two
    result      \* the set being built

vars == <<_ranges, pc, dest, this, other, i, j, result>>
locals == <<dest, this, other, i, j, result>>
-----------------------------------------------------------------------------
\* Range and its predicates.
RangeOf(start, end) == [start |-> start, end |-> end]
RangeType == [start : Int, end : Int]
INVALID == RangeOf(-1, -2)

startsBeforeDisjoint(r, s) == r.start < s.start /\ r.end < s.start
startsAfterDisjoint(r, s) == r.start > s.end
startsAfterNonDisjoint(r, s) == r.start > s.start /\ r.start <= s.end
disjoint(r, s) == startsBeforeDisjoint(r, s) \/ startsAfterDisjoint(r, s)
adjacent(r, s) == r.start = s.end + 1 \/ r.end = s.start - 1
properlyContains(r, s) == s.start >= r.start /\ s.end <= r.end

Lesser(a, b) == IF a <= b THEN a ELSE b
Greater(a, b) == IF a >= b THEN a ELSE b

merge(r, s) == RangeOf(Lesser(r.start, s.start), Greater(r.end, s.end))
overlap(r, s) == RangeOf(Greater(r.start, s.start), Lesser(r.end, s.end))

\* Mutant: ranges that are next to each other are left apart.
touches_Overlap(r, s) == ~ disjoint(r, s)

touches(r, s) == adjacent(r, s) \/ ~ disjoint(r, s)

\* Mutant: only one of the ranges that follow is absorbed.
Absorbed_One(ranges, k, bigger) ==
    IF k < Len(ranges) /\ touches(bigger, ranges[k + 1])
      THEN SubSeq(ranges, 1, k - 1) \o <<merge(bigger, ranges[k + 1])>>
             \o SubSeq(ranges, k + 2, Len(ranges))
      ELSE [ranges EXCEPT ![k] = bigger]

\* The range at k becomes bigger and swallows the run of ranges after it that
\* touch bigger, the last of which may reach further.
Absorbed(ranges, k, bigger) ==
    LET run == {n \in k .. Len(ranges) :
                  \A m \in k + 1 .. n : touches(bigger, ranges[m])}
        last == Max(run)
        whole == IF last = k THEN bigger ELSE merge(bigger, ranges[last])
    IN SubSeq(ranges, 1, k - 1) \o <<whole>>
         \o SubSeq(ranges, last + 1, Len(ranges))

\* add(addition): the loop ends at the first range that addition equals,
\* touches or precedes.
Added(ranges, addition) ==
    LET halts == {k \in DOMAIN ranges :
                    \/ touches(addition, ranges[k])
                    \/ startsBeforeDisjoint(addition, ranges[k])}
        k == Min(halts)
    IN IF addition.end < addition.start THEN ranges
       ELSE IF halts = {} THEN Append(ranges, addition)
       ELSE IF addition = ranges[k] THEN ranges
       ELSE IF touches(addition, ranges[k])
         THEN Absorbed(ranges, k, merge(addition, ranges[k]))
       ELSE InsertAt(ranges, k, addition)

\* remove(el): the loop ends at the first range that does not end before el.
Removed(ranges, el) ==
    LET halts == {n \in DOMAIN ranges : el <= ranges[n].end}
        k == Min(halts)
        r == ranges[k]
    IN IF halts = {} THEN ranges
       ELSE IF el < r.start THEN ranges
       ELSE IF el = r.start /\ el = r.end THEN RemoveAt(ranges, k)
       ELSE IF el = r.start THEN [ranges EXCEPT ![k].start = el + 1]
       ELSE IF el = r.end THEN [ranges EXCEPT ![k].end = el - 1]
       ELSE Added([ranges EXCEPT ![k].end = el - 1], RangeOf(el + 1, r.end))

\* RangeSet(vector&&), to which of and the move constructor delegate, ignores
\* its argument.
Dropped(ranges) == <<>>

of(a, b) == Dropped(<<RangeOf(a, b)>>)
-----------------------------------------------------------------------------
\* The queries.

\* Mutant: the last element is taken to be past the end.
contains_Exclusive(ranges, el) ==
    /\ ranges # <<>>
    /\ Head(ranges).start <= el /\ el < Last(ranges).end
    /\ LET reach == {k \in DOMAIN ranges : ranges[k].end >= el}
       IN reach # {} /\ ranges[Min(reach)].start <= el

\* contains(el), by binary search.
contains(ranges, el) ==
    /\ ranges # <<>>
    /\ Head(ranges).start <= el /\ el <= Last(ranges).end
    /\ LET reach == {k \in DOMAIN ranges : ranges[k].end >= el}
       IN reach # {} /\ ranges[Min(reach)].start <= el

getSingleElement(ranges) ==
    IF Len(ranges) = 1 /\ ranges[1].start = ranges[1].end
      THEN ranges[1].start ELSE -1

getMinElement(ranges) == IF ranges = <<>> THEN -1 ELSE Head(ranges).start
getMaxElement(ranges) == IF ranges = <<>> THEN -1 ELSE Last(ranges).end

\* How many elements the first n ranges have.
counted(ranges) ==
    LET upTo[n \in 0 .. Len(ranges)] ==
          IF n = 0 THEN 0
          ELSE upTo[n - 1] + (ranges[n].end - ranges[n].start + 1)
    IN upTo

size(ranges) == counted(ranges)[Len(ranges)]

get(ranges, n) ==
    LET at == {k \in DOMAIN ranges : n < counted(ranges)[k]}
        k == Min(at)
    IN IF at = {} THEN -1
       ELSE ranges[k].start + (n - counted(ranges)[k - 1])
-----------------------------------------------------------------------------
Init ==
    /\ _ranges = [o \in Objects |-> <<>>]
    /\ pc = "idle"
    /\ dest = CHOOSE o \in Objects : TRUE
    /\ this = <<>> /\ other = <<>> /\ i = 1 /\ j = 1 /\ result = <<>>

Assign(o, ranges) ==
    /\ _ranges' = [_ranges EXCEPT ![o] = ranges]
    /\ pc' = "idle"
    /\ dest' = CHOOSE q \in Objects : TRUE
    /\ this' = <<>> /\ other' = <<>> /\ i' = 1 /\ j' = 1 /\ result' = <<>>

\* One step: add, remove, clear, the copy operations, of and the moves.
Add(o, start, end) ==
    pc = "idle" /\ Assign(o, Added(_ranges[o], RangeOf(start, end)))

RemoveElement(o, el) == pc = "idle" /\ Assign(o, Removed(_ranges[o], el))

Clear(o) == pc = "idle" /\ Assign(o, <<>>)

Copy(o, p) == pc = "idle" /\ Assign(o, _ranges[p])

MoveConstruct(o, p) == pc = "idle" /\ Assign(o, Dropped(_ranges[p]))

AssignOf(o, a, b) == pc = "idle" /\ Assign(o, of(a, b))

Start(loop, o, left, right, initial) ==
    /\ pc = "idle"
    /\ pc' = loop
    /\ dest' = o /\ this' = left /\ other' = right
    /\ i' = 1 /\ j' = 1 /\ result' = initial
    /\ UNCHANGED _ranges
-----------------------------------------------------------------------------
\* o.addAll(p), and o = p.Or(q), which adds the ranges of both to a new set.
AddAll(o, p) == Start("addAll", o, <<>>, _ranges[p], _ranges[o])
Or(o, p, q) == Start("addAll", o, <<>>, _ranges[p] \o _ranges[q], <<>>)

AddNext ==
    /\ pc = "addAll"
    /\ j <= Len(other)
    /\ result' = Added(result, other[j])
    /\ j' = j + 1
    /\ UNCHANGED <<_ranges, pc, dest, this, other, i>>

AddedAll == pc = "addAll" /\ j > Len(other) /\ Assign(dest, result)
-----------------------------------------------------------------------------
\* o = p.And(q)
And(o, p, q) == Start("and", o, _ranges[p], _ranges[q], <<>>)

mine == this[i]
theirs == other[j]

BothLeft == i <= Len(this) /\ j <= Len(other)

AndSkip ==
    /\ pc = "and" /\ BothLeft
    /\ \/ startsBeforeDisjoint(mine, theirs) /\ i' = i + 1 /\ j' = j
       \/ /\ ~ startsBeforeDisjoint(mine, theirs)
          /\ startsBeforeDisjoint(theirs, mine)
          /\ j' = j + 1 /\ i' = i
    /\ UNCHANGED <<_ranges, pc, dest, this, other, result>>

\* Mutant: the range that reaches further is left behind.
PassTheirs_Mine ==
    \/ properlyContains(theirs, mine)
    \/ ~ properlyContains(mine, theirs) /\ startsAfterNonDisjoint(theirs, mine)

\* Mutant: a range inside mine is not left.
PassTheirs_Never ==
    ~ properlyContains(theirs, mine) /\ startsAfterNonDisjoint(mine, theirs)

\* After an overlap the range that ends first is left: theirs when mine
\* contains it, or when neither contains the other and mine starts later.
PassTheirs ==
    \/ properlyContains(mine, theirs)
    \/ ~ properlyContains(theirs, mine) /\ startsAfterNonDisjoint(mine, theirs)

PassMine ==
    /\ ~ PassTheirs
    /\ properlyContains(theirs, mine) \/ startsAfterNonDisjoint(theirs, mine)

AndOverlap ==
    /\ pc = "and" /\ BothLeft
    /\ ~ disjoint(mine, theirs)
    /\ result' = Added(result, overlap(mine, theirs))
    /\ i' = IF PassMine THEN i + 1 ELSE i
    /\ j' = IF PassTheirs THEN j + 1 ELSE j
    /\ UNCHANGED <<_ranges, pc, dest, this, other>>

AndReturn == pc = "and" /\ ~ BothLeft /\ Assign(dest, result)
-----------------------------------------------------------------------------
\* o = subtract(p, q), which p.subtract(q) and q.complement(p) are.
Subtract(o, left, right) ==
    IF left = <<>> \/ right = <<>>
      THEN pc = "idle" /\ Assign(o, left)
      ELSE Start("subtract", o, left, right, left)

resultInterval == result[i]
rightInterval == other[j]

BothRemain == i <= Len(result) /\ j <= Len(other)

SubtractSkip ==
    /\ pc = "subtract" /\ BothRemain
    /\ \/ rightInterval.end < resultInterval.start /\ j' = j + 1 /\ i' = i
       \/ /\ ~ (rightInterval.end < resultInterval.start)
          /\ rightInterval.start > resultInterval.end
          /\ i' = i + 1 /\ j' = j
    /\ UNCHANGED <<_ranges, pc, dest, this, other, result>>

beforeCurrent ==
    IF rightInterval.start > resultInterval.start
      THEN RangeOf(resultInterval.start, rightInterval.start - 1) ELSE INVALID

afterCurrent ==
    IF rightInterval.end < resultInterval.end
      THEN RangeOf(rightInterval.end + 1, resultInterval.end) ELSE INVALID

\* A piece that starts at -1 is taken for the default, which means none.
Kept(piece) == piece.start > -1

IfKept(piece) == IF Kept(piece) THEN <<piece>> ELSE <<>>
pieces == IfKept(beforeCurrent) \o IfKept(afterCurrent)

\* Mutant: a piece that is kept is passed over, although the next right
\* interval may overlap it as well.
SubtractCut_PassesAfter ==
    /\ pc = "subtract" /\ BothRemain
    /\ rightInterval.end >= resultInterval.start
    /\ rightInterval.start <= resultInterval.end
    /\ result' = SubSeq(result, 1, i - 1) \o pieces
                   \o SubSeq(result, i + 1, Len(result))
    /\ i' = IF Kept(beforeCurrent) \/ Kept(afterCurrent) THEN i + 1 ELSE i
    /\ j' = IF Kept(afterCurrent) THEN j + 1 ELSE j
    /\ UNCHANGED <<_ranges, pc, dest, this, other>>

\* The overlapping right interval is cut out of the result interval.
SubtractCut ==
    /\ pc = "subtract" /\ BothRemain
    /\ rightInterval.end >= resultInterval.start
    /\ rightInterval.start <= resultInterval.end
    /\ result' = SubSeq(result, 1, i - 1) \o pieces
                   \o SubSeq(result, i + 1, Len(result))
    /\ i' = IF Kept(beforeCurrent) THEN i + 1 ELSE i
    /\ j' = IF Kept(afterCurrent) THEN j + 1 ELSE j
    /\ UNCHANGED <<_ranges, pc, dest, this, other>>

\* subtract returns from three places, so its result is elided by some
\* compilers and goes through the move constructor with others.
SubtractReturn ==
    /\ pc = "subtract" /\ ~ BothRemain
    /\ Assign(dest, result) \/ Assign(dest, Dropped(result))
-----------------------------------------------------------------------------
Call ==
    \/ \E o \in Objects, a, b \in Universe : Add(o, a, b)
    \/ \E o \in Objects, el \in Universe : RemoveElement(o, el)
    \/ \E o \in Objects : Clear(o)
    \/ \E o \in Objects, a, b \in Universe : AssignOf(o, a, b)
    \/ \E o, p \in Objects : Copy(o, p) \/ MoveConstruct(o, p) \/ AddAll(o, p)
    \/ \E o, p, q \in Objects :
         \/ Or(o, p, q) \/ And(o, p, q)
         \/ Subtract(o, _ranges[p], _ranges[q])
    \* complement(minElement, maxElement)
    \/ \E o, p \in Objects, a, b \in Universe : Subtract(o, of(a, b), _ranges[p])

LoopStep ==
    \/ AddNext \/ AddedAll
    \/ AndSkip \/ AndOverlap \/ AndReturn
    \/ SubtractSkip \/ SubtractCut \/ SubtractReturn

Next == Call \/ LoopStep

Spec == Init /\ [][Next]_vars

\* The program is sequential: a loop that was entered runs on.
FairSpec == Spec /\ WF_vars(LoopStep)
-----------------------------------------------------------------------------
Elements(ranges) == UNION {r.start .. r.end : r \in ToSet(ranges)}

\* Objects and locals keep their types.
TypeOK ==
    /\ _ranges \in [Objects -> Seq(RangeType)]
    /\ pc \in {"idle", "addAll", "and", "subtract"}
    /\ dest \in Objects
    /\ this \in Seq(RangeType) /\ other \in Seq(RangeType)
    /\ result \in Seq(RangeType)
    /\ i \in Nat \ {0} /\ j \in Nat \ {0}

\* The list is sorted, and its ranges neither empty nor next to each other.
IsCanonical(ranges) ==
    /\ \A k \in DOMAIN ranges : ranges[k].start <= ranges[k].end
    /\ \A k, l \in DOMAIN ranges :
         k < l => ranges[k].end + 1 < ranges[l].start

\* Every list of ranges, also the one an operation is building, is canonical
\* at every step: the searches of add, remove and contains rely on it.
Canonical ==
    /\ \A o \in Objects : IsCanonical(_ranges[o])
    /\ IsCanonical(result)

\* operator==, which compares the lists, is equality of the sets.
EqualIffSame ==
    pc = "idle" => \A o, p \in Objects :
        _ranges[o] = _ranges[p] <=> Elements(_ranges[o]) = Elements(_ranges[p])

\* contains by binary search, and the elements by rank, agree with the set.
QueriesExact ==
    pc = "idle" => \A o \in Objects :
        LET ranges == _ranges[o]
            S == Elements(ranges)
        IN /\ \A el \in Universe : contains(ranges, el) <=> el \in S
           /\ size(ranges) = Cardinality(S)
           /\ \A n \in 0 .. Cardinality(S) - 1 :
                /\ get(ranges, n) \in S
                /\ Cardinality({e \in S : e < get(ranges, n)}) = n
           /\ S # {} => /\ getMinElement(ranges) = Min(S)
                        /\ getMaxElement(ranges) = Max(S)
           /\ getSingleElement(ranges) # -1 => S = {getSingleElement(ranges)}

\* The objects behave as sets of integers under every sequence of operations,
\* but for the differences IntSets describes.
Sets == INSTANCE IntSets WITH sets <- [o \in Objects |-> Elements(_ranges[o])]

ImplementsSets == Sets!Spec

\* While subtract runs, the elements it has yet to remove are in the parts of
\* both lists its indices have not passed, and it removes no other: with no
\* negative element the loop ends with exactly the difference.
DifferenceInLoop ==
    pc = "subtract" /\ (\A e \in Elements(this) : e >= 0) =>
        /\ Elements(result) \ Elements(other) = Elements(this) \ Elements(other)
        /\ Elements(SubSeq(result, 1, i - 1)) \cap Elements(other) = {}
        /\ Elements(result) \cap Elements(SubSeq(other, 1, j - 1)) = {}

\* Every operation ends.
OperationEnds == pc # "idle" ~> pc = "idle"

\* "operation: (resultInterval - rightInterval)" (rangeSet.hpp:119): what
\* subtract assigns is the difference of its operands.
DifferenceExact ==
    [][pc = "subtract" /\ pc' = "idle" =>
         Elements(_ranges'[dest]) = Elements(this) \ Elements(other)]_vars
=============================================================================
