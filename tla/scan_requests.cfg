SPECIFICATION Spec
CONSTANTS
  MaxScans = 3
  MaxResults = 3
  MaxOverlaps = 4
  Slots = {u1, u2}
  Verdicts = {"PASSED"}
INVARIANTS  OneInProgress 
 
SYMMETRY Alike
CHECK_DEADLOCK FALSE
