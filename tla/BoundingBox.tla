---------------------------- MODULE BoundingBox ----------------------------
(***************************************************************************)
(* The values of class BoundingBox (spatialIndex/broundingbox.hpp) and the *)
(* const member functions the R-tree is built from.  A box maps every axis *)
(* to the pair m_axis[i]; coordinates are integers, standing for doubles   *)
(* whose sums, differences and products are exact up to MaxArea.  Lengths  *)
(* and areas beyond it are infinite, and infinity times 0 is no number.    *)
(***************************************************************************)
EXTENDS Integers, FiniteSetsExt

CONSTANTS Dimensions,
          MaxArea   \* numeric_limits<double>::max(): above it is infinity

ASSUME DimensionsAssumption == Dimensions \in Nat \ {0}
ASSUME MaxAreaAssumption == MaxArea \in Nat \ {0}

Axes == 0 .. Dimensions - 1

EDGE == [first : Int, second : Int]

\* Every value of m_axis the type admits, ordered edges or not.
AnyBox == [Axes -> EDGE]

\* The boxes whose every edge is ordered.
Box == {b \in AnyBox : \A i \in Axes : b[i].first <= b[i].second}

Lesser(a, b) == IF a <= b THEN a ELSE b
Greater(a, b) == IF a >= b THEN a ELSE b

Edge(lo, hi) == [first |-> lo, second |-> hi]

\* BoundingBox(): the point at the origin.
Origin == [i \in Axes |-> Edge(0, 0)]

\* BoundingBox(vector) and BoundingBox(array): the Status of setAxis is
\* dropped, so an edge given in the wrong order leaves its axis at (0, 0).
BoxOf(edges) ==
    [i \in Axes |-> IF edges[i].first > edges[i].second
                      THEN Edge(0, 0) ELSE edges[i]]

UnionBox(self, other) ==
    [i \in Axes |-> Edge(Lesser(self[i].first, other[i].first),
                         Greater(self[i].second, other[i].second))]

intersection(self, other) ==
    [i \in Axes |-> Edge(Greater(self[i].first, other[i].first),
                         Lesser(self[i].second, other[i].second))]

\* What a length or an area can be.
Finite == 0 .. MaxArea
Infinity == MaxArea + 1
NaN == -1
Double == Finite \cup {Infinity, NaN}

rounded == [x \in Int |-> Lesser(x, Infinity)]

length(b, i) == rounded[b[i].second - b[i].first]

times == [x \in Double |-> [y \in Double |->
            IF x = NaN \/ y = NaN \/ {x, y} = {0, Infinity} THEN NaN
            ELSE rounded[x * y]]]

\* The area of a box less that of one inside it, which is infinite only if the
\* outer one is.
minus == [x \in Double |-> [y \in Double |->
            IF x = NaN \/ y \in {Infinity, NaN} THEN NaN
            ELSE IF x = Infinity THEN Infinity ELSE x - y]]

\* The product of the edge lengths, axis by axis: a box that is flat along one
\* axis and overflows along others has no number for an area.
area(b) ==
    LET product[n \in 0 .. Dimensions] ==
          IF n = 0 THEN 1 ELSE times[product[n - 1]][length(b, n - 1)]
    IN product[Dimensions]

encloses(self, other) ==
    \A i \in Axes : /\ self[i].first <= other[i].first
                    /\ other[i].second <= self[i].second

\* Strict: boxes that only touch do not overlap, nor does a point.
isOverlap(self, other) ==
    \A i \in Axes : /\ self[i].first < other[i].second
                    /\ other[i].first < self[i].second

containsPoint(self, point) ==
    \A i \in Axes : self[i].first <= point[i] /\ point[i] <= self[i].second

minBound(b, i) == b[i].first

\* max(a_xis) returns .first, as min(a_xis) does.
maxBound(b, i) == b[i].first

\* The smallest box around a finite non-empty set of boxes: what folding
\* UnionBox over the set yields, whatever the order.
Cover(boxes) ==
    [i \in Axes |-> Edge(Min({b[i].first : b \in boxes}),
                         Max({b[i].second : b \in boxes}))]
=============================================================================
