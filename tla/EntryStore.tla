----------------------------- MODULE EntryStore -----------------------------
(***************************************************************************)
(* What a SpatialIndex promises its user, with no tree in it: a growing    *)
(* set of entries, and a search that hands the callback entries whose box  *)
(* overlaps the query, each at most once and in any order, and all that    *)
(* were stored when it began if the callback never declines.  The callback *)
(* may add entries.  A search that this disturbs promises less, until it   *)
(* ends: what it reports still matches.  The index may also be dead.       *)
(***************************************************************************)
EXTENDS BoundingBox, SequencesExt

VARIABLES
    phase,      \* "ready", "searching", "disturbed" or "dead"
    stored,     \* the entries: pairs of an identity and a box
    query,      \* the box searched for
    due,        \* the entries the search owes its caller
    reported,   \* the entries handed to the callback, in that order
    declined    \* those it answered with false

vars == <<phase, stored, query, due, reported, declined>>

Matching(box) == {e \in stored : isOverlap(e[2], box)}

InSearch == phase \in {"searching", "disturbed"}

Init ==
    /\ phase = "ready"
    /\ stored = {} /\ due = {} /\ reported = <<>> /\ declined = {}
    /\ query = Origin

\* Insert: one entry with a new identity joins.
Add ==
    /\ phase # "dead"
    /\ \E e \in stored' :
         stored' = stored \cup {e} /\ \A f \in stored : f[1] # e[1]
    /\ UNCHANGED <<phase, query, due, reported, declined>>

BeginSearch ==
    /\ phase = "ready"
    /\ phase' = "searching"
    /\ query' \in Box
    /\ due' = Matching(query')
    /\ UNCHANGED <<stored, reported, declined>>

Report(e) ==
    /\ InSearch
    /\ e \in Matching(query)
    /\ phase = "searching" => e \notin ToSet(reported)
    /\ reported' = Append(reported, e)
    /\ UNCHANGED <<phase, stored, query, due, declined>>

Decline ==
    /\ InSearch
    /\ reported # <<>>
    /\ declined' = declined \cup {Last(reported)}
    /\ UNCHANGED <<phase, stored, query, due, reported>>

Disturb ==
    /\ phase = "searching"
    /\ phase' = "disturbed"
    /\ UNCHANGED <<stored, query, due, reported, declined>>

EndSearch ==
    /\ InSearch
    /\ phase = "searching" /\ declined = {} => due \subseteq ToSet(reported)
    /\ phase' = "ready"
    /\ query' = Origin /\ due' = {} /\ reported' = <<>> /\ declined' = {}
    /\ UNCHANGED stored

Die ==
    /\ phase # "dead"
    /\ phase' = "dead"
    /\ UNCHANGED <<stored, query, due, reported, declined>>

Next == \/ Add \/ BeginSearch \/ Decline \/ Disturb \/ EndSearch \/ Die
        \/ \E e \in Matching(query) : Report(e)

Spec == Init /\ [][Next]_vars
=============================================================================
