CONSTANTS
  e1 = e1  e2 = e2  m1 = m1  m2 = m2  m3 = m3
  Equipment = {e1}
  Material = {m1, m2}
  LogAgent = LogAgent
  None = None
  Allowed <- MCAllowed
  Tons <- MCTons
  Target <- MCTarget
  NameCovers <- M1PrefixOfM2
  Radix = 10
  MaxAsks = 1
  MaxCrashes = 1
  UXEnds = TRUE
SPECIFICATION FairSpec
PROPERTIES
  EndReachesAll
CHECK_DEADLOCK FALSE
