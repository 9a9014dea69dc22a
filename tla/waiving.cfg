SPECIFICATION Spec
CONSTANTS
  MaxResults = 3
  MaxWaivers = 3
  g1 = g1
  g2 = g2
  d1 = d1
  d2 = d2
  Groups = {g1, g2}
  Defects = {d1, d2}
  None = none
  Contents <- TwoContents
  Kinds = {"NOT_A_BUG", "IS_A_BUG"}
INVARIANTS VerdictMatchesGroups EverReviewed OpenHasNoWaiver
PROPERTY UninspectedStaysVisible
