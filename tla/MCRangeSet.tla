------------------------------ MODULE MCRangeSet ------------------------------
(***************************************************************************)
(* Instances of RangeSet for TLC.                                          *)
(***************************************************************************)
EXTENDS RangeSet

\* <EOF> and four characters: enough for three ranges apart.
MCUniverse == -1 .. 3

\* Characters only.
MCCharacters == 0 .. 2
=============================================================================
