CONSTANTS
  None = None
  MaxInvocations = 2
  NumProcesses = 1
  MaxWaits = 0
  Keep = 0
  Test = FALSE
  UserRun = {u1}
SPECIFICATION Spec
INVARIANTS
  BatchTypeOK
  OneSearchUnlessStopped
  NewestAreKept
PROPERTIES
  StopEndsTheJob
CHECK_DEADLOCK FALSE
