CONSTANTS
  None = None
  p1 = p1  p2 = p2  n1 = n1  n2 = n2
  w1 = w1  w2 = w2  base = base  r1 = r1  t1 = t1
  Page = {p1, p2}
  Name = {n1, n2}
  AgentKind = {"EQUIPMENT"}
  FirstField <- FieldAtFirst
  Limits <- LimitsOfStarts
  Worker = {w1, w2}
  Parent = {base}
  Replica = {r1}
  Topic = {t1}
  ParentOf <- ParentOfReplica
  TopicOf <- TopicOfReplica
  WorkerLimit = 1
  MaxAllowed = 2
  MaxRequests = 3
  MaxOutages = 2
SPECIFICATION Spec
INVARIANTS
  ClientAndContainersTypeOK
  LearnsOfItsAuction
  OneContainerPerReplica
PROPERTIES
  StartEnds
  LonelyReplicasEnd
CHECK_DEADLOCK FALSE
