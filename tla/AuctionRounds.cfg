CONSTANTS
  e1 = e1  e2 = e2  m1 = m1  m2 = m2  m3 = m3
  Equipment = {e1, e2}
  Material = {m1, m2, m3}
  LogAgent = LogAgent
  None = None
  Allowed <- AllOnE1
  Tons <- MCTons
  Target <- NoTarget
  NameCovers <- PrefixFree
  Radix = 2
  MaxAsks = 0
  MaxCrashes = 0
  UXEnds = FALSE
SPECIFICATION Spec
PROPERTIES
  AssignedLeavesNoBid
CHECK_DEADLOCK FALSE
