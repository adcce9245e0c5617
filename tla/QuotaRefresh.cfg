SPECIFICATION Spec
CONSTANTS
  i1 = i1  i2 = i2  i3 = i3
  x = x  y = y  m = m  n = n
  Invocation <- MCTwoInvocations
  Request <- MCRequest
  Input <- MCInput
  MaxVersion = 2
  None = None
INVARIANT TypeOK
INVARIANT EffectIsHeld
INVARIANT NoHiddenChange
PROPERTY AcceptsTheCurrent
PROPERTY Answered
CHECK_DEADLOCK FALSE
