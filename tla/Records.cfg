\* Playlist: two requests, two instants of recording, two titles.
\* Assignments: two requests, two media of which one begins with the other's name.
\* Edits: two sources, two specifications.
\* Watcher: two videos of one stem, a restart, two days, a watchdog that bites at once.
\* Transcriber: two recordings of two chunks, a queue of one.
\* Redis: two jobs, two workers, one retry, one fault.
\* Jobs: two copies of one file, with two workers and without a queue; two recent rows.
\* Frames: two extractions of a video of three changes.
\* Gates: two deliveries with a kill; three validations with one change of the lock file.
CONSTANTS
  Requests = {r1, r2}
  Titles = {a, b}
  MaxOffset = 1
  MaxOps = 5
  Clients = {c1, c2}
  m1 = m1
  m2 = m2
  LibraryMedia = {m1, m2}
  ProjectNames = {p, q}
  Longer <- LongerNames
  MaxRequests = 3
  MaxFailures = 1
  Sources = {f1, f2}
  Specs = {x, y}
  MaxEdits = 3
  MaxChanges = 2
  v1 = v1
  v2 = v2
  Videos = {v1, v2}
  Clips = {"clip"}
  ClipOf <- OneTitle
  Live <- LiveFiles
  Patience = 0
  MaxDays = 2
  MaxRestarts = 1
  Sessions = {s1, s2}
  Length = 2
  Capacity = 1
  RedisJobs = {j1, j2}
  Loaders = {1, 2}
  MaxRetries = 1
  MaxLapses = 1
  Paths = {k1, k2}
  Watcher = 0
  Depth = 3
  Recent = 2
  MaxRows = 6
  Times = {1, 2, 3}
  Cooldown = 2
  MaxFrames = 2
  MaxExtractions = 2
  MaxDeliveries = 2
  MaxRuns = 3
  MaxLocks = 2
  Nobody = Nobody
SPECIFICATION RecordsSpec
CONSTRAINT Brief
INVARIANTS
  RecordsTypeOK
  PlaylistSafe
  AssignmentsSafe
  EditsSafe
  WatcherSafe
  LegacyJobsSafe
  GatesSafe
PROPERTY FramesSafe
\* Everything may have been done.
CHECK_DEADLOCK FALSE
