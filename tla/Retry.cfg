\* One name whose project has a handler, one content, one process.
CONSTANTS
  clip = clip  copy = copy  clip2 = clip2
  Media = {clip2}
  Texts <- ClipTexts
  Transcript <- ClipOf
  Title <- ClipOf
  Starts = {}
  Routed = {clip2}
  Contents = {x}
  Processes = {p}
  None = None  Torn = Torn
  MaxPuts = 1
  MaxDeletes = 0
  MaxCrashes = 0
  MaxRuns = 2
  r1 = r1  r2 = r2  Odd = Odd
  Recordings = {r1, r2}
  Setups <- SomeSetups
  MaxAnalyses = 1
  MaxPasses = 0
  MaxDays = 1
  MaxEdits = 0
  MaxHalts = 0
SPECIFICATION EitherSpec
INVARIANT RetriedNextScan
CHECK_DEADLOCK FALSE
