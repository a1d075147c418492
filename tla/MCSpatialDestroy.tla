-------------------------- MODULE MCSpatialDestroy --------------------------
(***************************************************************************)
(* Instances of SpatialDestroy for TLC.                                    *)
(***************************************************************************)
EXTENDS SpatialDestroy

\* A rectangle, a segment that starts in it, and a point and a segment to the
\* right, near each other, on the line of the first segment.  The segments are
\* further apart than MaxArea: the box around both is flat and overflows.
MCBoxes ==
    {[i \in Axes |-> Edge(r[2 * i + 1], r[2 * i + 2])] :
       r \in {<<-4, -2, 0, 1>>, <<-3, 0, 0, 0>>, <<2, 2, 0, 0>>, <<3, 5, 0, 0>>}}
=============================================================================
