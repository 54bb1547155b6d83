CONSTANTS
  None = None
  Optimizer = {o1}
  Run = {r1, r2}
  Value = {0, 1, 2}
  Optimum = 0
  Iterations = 2
  NMinUntilShuffle = 0
  ShortRun = 30
  LongestWait = 100
  Timed = {}
  PatientUsers = FALSE
  MayFail = FALSE
SYMMETRY Alike
SPECIFICATION Spec
PROPERTIES
  BestOnlyImproves
