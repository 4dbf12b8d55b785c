\* Versions: three operations of two threads, a fault, a second mapping.
\* Synthesis: seven recordings, two runs, a stop; blocks of three, two at most.
SPECIFICATION EitherSpec
CONSTANTS
  Threads = {t1, t2}
  MaxOps = 3
  MaxMappings = 2
  MaxFaults = 1
  None = None
  Torn = Torn
  Excerpt = 2
  Target = 3
  Hard = 3
  MaxBlocks = 2
  ChunkUnits = 1
  PerSection = 1
  MaxPicks = 1
  MaxRuns = 2
  MaxStops = 1
SYMMETRY ThreadSymmetry
INVARIANT EitherTypeOK
PROPERTIES VersionsSound LastGoodKept SynthesisSafe
CHECK_DEADLOCK FALSE
