SPECIFICATION FairSpec
CONSTANTS
  MaxScans = 3
  MaxResults = 3
  Streams = {r1}
  n1 = n1
  n2 = n2
  Nvrs = {n1, n2}
  None = None
  Builds <- TwoBuilds
  Verdicts = {"PASSED"}
  Faults = {"crash", "after_finish", "processing"}
PROPERTIES
  ScanSettles
CHECK_DEADLOCK FALSE
