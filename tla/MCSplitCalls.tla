---------------------------- MODULE MCSplitCalls ----------------------------
(***************************************************************************)
(* Instances of SplitCalls for TLC: every way of filling the buffer from a *)
(* few boxes, with nested, touching, disjoint and degenerate ones among    *)
(* them.                                                                   *)
(***************************************************************************)
EXTENDS SplitCalls

Entry(edges) ==
    [m_box |-> BoxOf(edges), m_child |-> nullptr, m_data |-> NoData]

\* Along one axis: a point, a segment it starts, one around it, two apart.
MCSegments == {<<1, 1>>, <<1, 3>>, <<0, 2>>, <<2, 3>>, <<4, 5>>}

MCSplittableLine ==
    [Overflow -> {Entry([i \in Axes |-> Edge(s[1], s[2])]) : s \in MCSegments}]

\* In the plane: a square, one around it, one above it, one to its upper right
\* that overlaps them, and a segment below, longer than MaxArea, whose area is
\* therefore no number.
MCRectangles == {<<0, 1, 0, 1>>, <<0, 2, 0, 2>>, <<0, 1, 3, 4>>, <<1, 3, 1, 4>>,
                 <<-5, 4, 0, 0>>}

MCSplittablePlane ==
    [Overflow -> {Entry([i \in Axes |-> Edge(r[2 * i + 1], r[2 * i + 2])]) :
                    r \in MCRectangles}]
=============================================================================
