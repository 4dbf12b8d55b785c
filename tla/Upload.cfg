\* Two chunks of two contents, two senders, two finalizers, one stop, one I/O error.
CONSTANTS
  i1 = i1  i2 = i2
  c1 = c1  c2 = c2
  s1 = s1  s2 = s2
  r1 = r1  r2 = r2
  None = None  Reserved = Reserved
  Indices <- TwoIndices
  Contents <- TwoContents
  Senders <- TwoSenders
  Finalizers <- TwoFinalizers
  MaxFiles = 3
  MaxCrashes = 1
  MaxFaults = 1
SPECIFICATION Spec
SYMMETRY Symmetry
INVARIANTS
  TypeOK
  UploadSafe
\* A cancelled upload accepts nothing more.
CHECK_DEADLOCK FALSE
