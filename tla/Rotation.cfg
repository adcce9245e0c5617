SPECIFICATION Spec
CONSTANTS
  p1 = p1
  p2 = p2
  b1 = b1
  b2 = b2
  c1 = c1
  None = None
  Process <- MCProcess
  Binding <- MCBinding
  Content <- MCContent
  Cap = 1
SYMMETRY Symmetry
INVARIANT TypeOK
INVARIANT ImportIsExact
PROPERTY SettledIsCurrent
PROPERTY CandidateIsKept
CHECK_DEADLOCK FALSE
