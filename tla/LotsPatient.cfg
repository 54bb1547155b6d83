CONSTANTS
  None = None
  Optimizer = {o1, o2}
  Run = {r1, r2}
  Value = {0, 1, 2}
  Optimum = 0
  Iterations = 2
  NMinUntilShuffle = 0
  ShortRun = 30
  LongestWait = 100
  Timed = {o1, o2}
  PatientUsers = TRUE
  MayFail = TRUE
SYMMETRY Alike
SPECIFICATION Spec
INVARIANTS
  LotTypeOK
  NoRunIsLost
  FrontKeepsBest
  StoredIsShown
PROPERTIES
  BestOnlyImproves
  StopEndsTheRun
  ImplementsLotCreator
