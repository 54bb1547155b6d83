CONSTANTS
  e1 = e1  e2 = e2  m1 = m1  m2 = m2  m3 = m3
  Equipment = {e1, e2}
  Material = {m2, m3}
  LogAgent = LogAgent
  None = None
  Allowed <- MCAllowed
  Tons <- MCTons
  Target <- MCTarget
  NameCovers <- PrefixFree
  Radix = 10
  MaxAsks = 0
  MaxCrashes = 0
  UXEnds = FALSE
SPECIFICATION FairSpec
INVARIANTS
  TypeOK
  OrderHasOneOwner
  OnlyTheAskedConfirms
  AskIsAnswered
  CompletedIsComplete
  NobodyMissesTheStart
PROPERTIES
  AuctionCompletes
  ImplementsAssignment
CHECK_DEADLOCK FALSE
