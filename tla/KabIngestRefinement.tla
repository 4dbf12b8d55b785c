------------------------ MODULE KabIngestRefinement ------------------------
(***************************************************************************)
(* KabIngest implements SegmentLifecycle: the files of a segment, seen     *)
(* through the state the receiver's GET reports.                           *)
(***************************************************************************)
EXTENDS KabIngest

Lifecycle == INSTANCE SegmentLifecycle WITH
  received  <- {s \in Segments : Complete(s)},
  status    <- state,
  published <- result,
  tries     <- starts,
  MaxTries  <- MaxAttempts * (1 + Cardinality(Tracks))

\* The receiver and the worker together keep the promise of the ingest, for
\* every crash of either: the safety part and the settling part.
ImplementsLifecycle == Lifecycle!FairSpec
=============================================================================
