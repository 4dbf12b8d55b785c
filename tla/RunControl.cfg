\* Two requests, two jobs, one after the other and two at once.
CONSTANTS
  Requests = {r1, r2}
  MaxJobs = 2
  Limit = 2
  MaxReprocess = 1
  MaxRestarts = 1
  MaxFaults = 1
  None = None
SPECIFICATION FairSpec
INVARIANTS
  TypeOK
PROPERTIES
  RunsApart
  RunEnds
CHECK_DEADLOCK FALSE
