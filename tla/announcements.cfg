SPECIFICATION Spec
CONSTANTS
  Buses = {"umb", "kafka"}
  Prefixes = {"p"}
  Kinds = {"REBASE"}
  Verdicts = {"NEEDS_INSPECTION", "PASSED"}
  Owners <- MCOwners
  SendMail = TRUE
  Tasks <- MCTasks
  Watched = {"FAILED"}
  MaxRequests = 2
INVARIANTS  StatesAreTold
CHECK_DEADLOCK FALSE
