\* Scans: three files, of which two have one name and one transcript, two contents, two processes, a stop.
\* Handlers: two recordings under eleven setups, two runs, a stop, two days, an edit.
CONSTANTS
  clip = clip  copy = copy  clip2 = clip2
  Media <- Clips
  Texts <- ClipTexts
  Transcript <- ClipOf
  Title <- ClipOf
  Starts <- OneStarts
  Routed = {clip2}
  Contents = {x, y}
  Processes = {p, q}
  None = None  Torn = Torn
  MaxPuts = 2
  MaxDeletes = 1
  MaxCrashes = 1
  MaxRuns = 3
  r1 = r1  r2 = r2  Odd = Odd
  Recordings = {r1, r2}
  Setups <- SomeSetups
  MaxAnalyses = 3
  MaxPasses = 2
  MaxDays = 2
  MaxEdits = 1
  MaxHalts = 1
SPECIFICATION EitherSpec
SYMMETRY Symmetry
CONSTRAINT Remembered
INVARIANTS
  TypeOK
  ScanSafe
  HandlersSafe
CHECK_DEADLOCK FALSE
