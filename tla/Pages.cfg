CONSTANTS
  None = None  t1 = t1  o1 = o1  o2 = o2  o3 = o3  o4 = o4  e1 = e1  e2 = e2
  pA = pA  pB = pB  pC = pC
SPECIFICATION Spec
INVARIANTS
  PagesTypeOK
  PagesAreSound
CHECK_DEADLOCK FALSE
