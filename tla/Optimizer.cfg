\* One source, a request, any two of: a replaced source, a deletion, a stop, a failed save.
CONSTANTS
  Compressors = {c1}
  Sources = {clip}
  Requests = {r1}
  None = None
  MaxOutputs = 3
  MaxEvents = 2
SPECIFICATION Spec
INVARIANTS
  TypeOK
  RemovalSafe
CHECK_DEADLOCK FALSE
