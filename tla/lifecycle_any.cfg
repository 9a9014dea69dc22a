SPECIFICATION Spec
CONSTANTS
  MaxScans = 3
  MaxResults = 2
  Streams = {r1}
  n1 = n1
  n2 = n2
  Nvrs = {n1, n2}
  None = None
  Builds <- OneUpdate
  Verdicts = {"PASSED"}
  Faults = {"crash", "after_finish", "processing", "submit", "late", "admin"}
INVARIANTS
  ChainInv
  DeadIsDisabled
  VerdictHasBase
CHECK_DEADLOCK FALSE
