SPECIFICATION Spec
CONSTANTS
  MaxScans = 2
  MaxChanges = 2
  MaxRuns = 3
  Packages = {p}
  r1 = r1
  r2 = r2
  Releases = {r1, r2}
  Everywhere = Everywhere
  Child <- MCChild
  Keys <- MCKeys
  Seconds = 40
  Lines = 1
INVARIANTS ShownIsCurrent 
CHECK_DEADLOCK FALSE
