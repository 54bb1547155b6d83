CONSTANTS
  None = None
  Optimizer = {o1}
  Run = {r1}
  Value = {0, 1, 2, 3}
  Optimum = 0
  Iterations = 16
  NMinUntilShuffle = 5
  ShortRun = 30
  LongestWait = 100
  Timed = {}
  PatientUsers = TRUE
  MayFail = FALSE
SYMMETRY Alike
SPECIFICATION Spec
INVARIANTS
  RemembersBest
