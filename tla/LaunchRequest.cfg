SPECIFICATION Spec
CONSTANTS
  p1 = p1  p2 = p2  p3 = p3
  new = new  other = other  resume = resume
  Invocation <- MCInvocation
  Input <- MCInput
  ResumeInput <- MCResume
  Reaper = Reaper
  Evictor = Evictor
  None = None
  DisplaceDuringHandoff = FALSE
SYMMETRY Symmetry
INVARIANT TypeOK
INVARIANT EffectsAreHeld
 
PROPERTY EvidenceIsKept
PROPERTY ImplementsOneTurn
CHECK_DEADLOCK FALSE
