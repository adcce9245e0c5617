SPECIFICATION Spec
CONSTANTS
  r1 = r1  r2 = r2  r3 = r3
  s1 = s1  s2 = s2
  w1 = w1  w2 = w2
  Request <- MCRequest
  Slot <- MCSlot
  Worker <- MCWorker
  None = None
  Exposed = FALSE
SYMMETRY Symmetry
INVARIANT TypeOK
 
 
