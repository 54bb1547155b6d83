CONSTANTS
  e1 = e1  e2 = e2  m1 = m1  m2 = m2  m3 = m3
  Equipment = {e1, e2}
  Material = {m1, m2}
  LogAgent = LogAgent
  None = None
  Allowed <- MCAllowed
  Tons <- MCTons
  Target <- MCTarget
  NameCovers <- PrefixFree
  Radix = 10
  MaxAsks = 2
  MaxCrashes = 1
  UXEnds = FALSE
SPECIFICATION Spec
INVARIANTS
  ServedIsComplete
PROPERTIES
  FinalResults
CHECK_DEADLOCK FALSE
