CONSTANTS
  None = None
  u1 = u1
  u2 = u2
  l1 = l1
  l2 = l2
  User = {u1, u2}
  Lot = {l1, l2}
  Snap <- Times
  Request <- Requests
  Near <- NearOf
  Load <- LoadOf
  MaxCaches = 1
  MaxUpdates = 0
  DroppedUpdates = 1
  MaxLocks = 0
  DroppedLocks = 1
  Again = FALSE
SPECIFICATION Spec
INVARIANTS
  SnapshotTypeOK
  ReadsSeeTransfers
  FailsOnlyCrossed
  NoLockIsLost
SYMMETRY Symmetric
