\* Two processes on two hosts, two jobs, one slot; a stop and an overlong execution.
CONSTANTS
  w1 = w1  w2 = w2
  here = here  container = container
  None = None
  Workers <- TwoWorkers
  Host <- TwoHosts
  MaxJobs = 2
  Limits = {1}
  MaxCrashes = 1
  MaxLong = 1
SPECIFICATION FairSpec
INVARIANT TypeOK
PROPERTIES
  JobsSafe
  QueuedIsSettled
