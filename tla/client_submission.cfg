SPECIFICATION ClientSpec
CONSTANTS
  Requests = {r1, r2}
  Files = {f1, f2}
  NoFile = NoFile
  Unasked = Unasked
  Refused = Refused
  Options <- SomeOptions
INVARIANTS LostIsExplained
PROPERTIES AcceptedEnds
CHECK_DEADLOCK FALSE
