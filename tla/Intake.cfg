\* Chunks: two slots of two chunks, two extensions, a quota below their bytes, two stops.
\* Completing: two requests at a time, with any number of segments, aborted at any point.
\* Capture: three fragments, two or fewer per chunk, two aggregating threads, a restart.
\* Requests: one chunk, two requests and the processor, six operations, a restart.
\* Table: two chunks, two logical videos, two changes beside one walk.
CONSTANTS
  Slots = {x1, x2}
  Extensions = {mp4, mkv}
  small = small  large = large
  Contents = {small, large}
  Size <- Bytes
  MaxChunks = 2
  MaxSession = 5
  MaxStops = 2
  Handlers = {h1, h2}
  Segments = {0, 1}
  Expected = {1, 2}
  Ends = {e1}
  MaxTries = 1
  MaxFaults = 1
  Fragments = {1, 2, 3}
  ChunkFragments = 2
  Tolerance = 1
  Aggregators = {upload, drain}
  Forcing = {drain}
  MaxCrashes = 1
  Requests = {d1, d2}
  Processor = p
  MaxCaptured = 1
  MaxOps = 6
  Pieces = {n1, n2}
  Logical = {"v1", "v2"}
  MaxTurns = 2
  MaxWalks = 1
  Instants = {0, 1, 2, 3, 4}
  Gap = 1
  None = None
SPECIFICATION Spec
INVARIANTS
  TypeOK
  TableSafe
PROPERTIES
  StorageSafe
  CompletionSafe
  RecordingSafe
  CaptureSafe
