CONSTANTS
  None = None  u1 = u1  u2 = u2  plainRule = plainRule  ruleWithSettings = ruleWithSettings  t1 = t1  month = month  o1 = o1
  o2 = o2  o3 = o3  o4 = o4  m1 = m1  m2 = m2  m3 = m3  m4 = m4  e1 = e1
  e2 = e2  e3 = e3  pA = pA  pB = pB  l1 = l1  l2 = l2
  User = {u1, u2}
  Plain = {plainRule}
  Configurable = {ruleWithSettings}
  Setting = {1}
  MaxLists = 2
  Session = {u1, u2}
  StartTime = {t1}
  Month = {month}
  MonthOf <- LongTermMonthOf
  MaxRuns = 2
  MaxSecond = 1
  MaxRestarts = 1
  LotOrder = {o1, o2}
  Material = {m1, m2}
  OrderOf <- LotsOrderOf
  LotEquipment = {e1, e2, e3}
  EquipmentProcess <- LotsEquipmentProcess
  LotName = {l1, l2}
  Order = {o1, o2, o3}
  Plants <- MovesPlants
  Starts <- MovesStarts
  Allowed <- MovesAllowed
  Slow <- MovesSlow
  Poor <- MovesPoor
  Forced = {o3}
  Prohibitive <- MovesProhibitive
  WeightOf <- MovesWeightOf
  Target <- MovesTarget
  MinLot = 2
  MaxLot = 5
  Expiration = 2
  ExpirationAfterShuffle = 1
  NParallel = 2
  MaxTsps = 1
  MaxSteps = 3
  Process = {pA, pB}
  Solution = {"s1"}
  LotId = {l1}
  ProcessOf <- PlanningProcessOf
  Contents <- PlanningContents
  MaxResults = 1
  MaxClicks = 4
  MaxTransfers = 2
SPECIFICATION Spec
INVARIANTS
  ServiceTypeOK
  CrashKeepsRules
  StoredIsListed
  MovesAreSound
  TransfersAreSound
  PlansAreSound
  ProductionAddsUp
CHECK_DEADLOCK FALSE
