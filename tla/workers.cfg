SPECIFICATION Spec
CONSTANTS
  Workers = {w1, w2}
  NoWorker = NoWorker
  Tasks = {t1, t2}
  Methods = {"VersionDiffBuild", "ErrataDiffBuild"}
  MaxWorkers = 1
  MaxCancels = 1
INVARIANTS  LeavingIsIdle
PROPERTIES TasksEnd WorkersRetire
CHECK_DEADLOCK FALSE
