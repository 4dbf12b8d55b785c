\* Outbox: two packages, two hooks, a crash, two attempts.
\* Packages: six contents, projects that differ in one place, two publications,
\* one change in between.
CONSTANTS
  Packages = {p1, p2}
  Hooks = {h1, h2}
  None = None
  MaxAttempts = 2
  MaxRuns = 3
  MaxCrashes = 1
  Odd = Odd
  Projects <- SomeProjects
  Contents <- SixContents
  Times = {1, 2}
  Bound = 2
  MaxBuilds = 2
  MaxTurns = 1
SPECIFICATION EitherSpec
CHECK_DEADLOCK FALSE
SYMMETRY Symmetry
INVARIANTS
  TypeOK
  TerminalIsKept
  PackagesSafe
PROPERTY TerminalIsFinal
