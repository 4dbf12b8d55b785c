---------------------------- MODULE MCKabIngest ----------------------------
(***************************************************************************)
(* Instances of KabIngest for TLC.                                         *)
(***************************************************************************)
EXTENDS KabIngestRefinement

CONSTANTS video, audio, s1, s2, o1, o2

OneSegment    == {s1}
TwoSegments   == {s1, s2}
BothTracks    == {video, audio}
TwoOffsets    == {o1, o2}
OneOffset     == {o1}

=============================================================================
