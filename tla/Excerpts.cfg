\* The seven recordings, one run of synthesis.
SPECIFICATION EitherSpec
CONSTANTS
  Threads = {t1, t2}
  MaxOps = 0
  MaxMappings = 2
  MaxFaults = 1
  None = None
  Torn = Torn
  Excerpt = 2
  Target = 3
  Hard = 3
  MaxBlocks = 2
  ChunkUnits = 1
  PerSection = 1
  MaxPicks = 1
  MaxRuns = 1
  MaxStops = 0
INVARIANT ExcerptsInOrder
CHECK_DEADLOCK FALSE
