SPECIFICATION ReqSpec
CONSTANTS
  MaxResults = 1
  MaxWaivers = 2
  MaxBugs = 2
  g1 = g1
  g2 = g2
  d1 = d1
  d2 = d2
  Groups = {g1, g2}
  Defects = {d1}
  None = none
  Contents <- TwoGroups
  Kinds = {"NOT_A_BUG", "IS_A_BUG"}
  Slots = {u1, u2}
  Mortal = {u1, u2}
  Trackers = {"bz"}
INVARIANTS  BugListsWaiver ReportedOnce 
PROPERTY RequestsAreWaiving
SYMMETRY Alike
