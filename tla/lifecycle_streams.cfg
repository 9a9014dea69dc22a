SPECIFICATION Spec
CONSTANTS
  MaxScans = 4
  MaxResults = 4
  Streams = {r1, r2}
  n1 = n1
  n2 = n2
  Nvrs = {n1, n2}
  None = None
  Builds <- OneUpdate
  Verdicts = {"PASSED"}
  Faults = {"crash"}
INVARIANTS
  SharedBaseIsDone
  OneEnabled
  DisabledIsNotNewest
PROPERTIES
  StreamsAreCurrent
  
  
CHECK_DEADLOCK FALSE
