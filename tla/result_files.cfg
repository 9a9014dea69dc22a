SPECIFICATION Spec
CONSTANTS
  Runs = {p1, p2}
  MaxRuns = 4
  Methods = {"ErrataDiffBuild", "VersionDiffBuild"}
  Faults = {"upload", "disk", "csdiff", "killed", "overlap", "base_removed", "removed"}
INVARIANT RetryWorks
PROPERTIES DoneHasDiffs VerdictStands
CHECK_DEADLOCK FALSE
