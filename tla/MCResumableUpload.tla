------------------------- MODULE MCResumableUpload -------------------------
(***************************************************************************)
(* Instances of ResumableUpload for TLC.                                   *)
(***************************************************************************)
EXTENDS ResumableUpload, TLC

CONSTANTS i1, i2, c1, c2, s1, s2, r1, r2

TwoIndices == {i1, i2}
TwoContents == {c1, c2}
TwoSenders == {s1, s2}
TwoFinalizers == {r1, r2}

\* Chunks, contents and threads are interchangeable.
Symmetry == Permutations(TwoIndices) \cup Permutations(TwoContents)
            \cup Permutations(TwoSenders) \cup Permutations(TwoFinalizers)
=============================================================================
