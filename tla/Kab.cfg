\* One segment, two tracks, one or both of them required, whose offsets may
\* differ; two crashes, one I/O error.
CONSTANTS
  video = video  audio = audio
  s1 = s1  s2 = s2
  o1 = o1  o2 = o2
  None = None
  Segments <- OneSegment
  Tracks <- BothTracks
  Offsets <- TwoOffsets
  MaxAttempts = 2
  MaxCrashes = 2
  MaxFaults = 1
SPECIFICATION FairSpec
INVARIANTS
  TypeOK
  SegmentSafe
PROPERTIES
  NeverProcessedTwice
  AcceptedIsSettled
  ImplementsLifecycle
