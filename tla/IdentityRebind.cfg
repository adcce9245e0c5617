SPECIFICATION Spec
CONSTANTS
  p1 = p1
  p2 = p2
  q1 = q1
  c1 = c1
  c2 = c2
  c3 = c3
  old = old
  beta = beta
  None = None
  Process <- MCProcess
  Call <- MCCall
  Cycle <- MCCycle
  Program <- MCProgram
  Reviewed <- MCReviewed
  Version <- MCVersion
  Found = {"pinned", "direct"}
  MaxStamp = 2
  MaxCycles = 2
SYMMETRY Symmetry
INVARIANTS TypeOK AdmittedIsWhole
PROPERTIES ReleaseIsTrue ActiveIsKept
CHECK_DEADLOCK FALSE
