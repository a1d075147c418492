--------------------------- MODULE MCSpatialSearch ---------------------------
(***************************************************************************)
(* Instances of SpatialSearch for TLC.                                     *)
(***************************************************************************)
EXTENDS SpatialSearch

Rectangles(corners) ==
    {[i \in Axes |-> Edge(r[2 * i + 1], r[2 * i + 2])] : r \in corners}

\* Two overlapping rectangles and one apart from them.
MCBoxes == Rectangles({<<0, 2, 0, 3>>, <<1, 4, 1, 2>>, <<5, 6, 0, 1>>})

\* Over the second and the third, touching the first.
MCTargets == Rectangles({<<2, 6, 0, 2>>})
=============================================================================
