SPECIFICATION EnumSpec
CONSTANTS
  i1 = i1  i2 = i2  i3 = i3
  x = x  y = y  z = z
  Caller <- MCCaller
  Request <- MCRequest
  Limit <- MCLimit
  MaxRows = 3
  MaxSnapshots = 2
  Nobody = Nobody
SYMMETRY Symmetry
INVARIANT EnumTypeOK
INVARIANT EnumerationIsExact
PROPERTY Retention
CHECK_DEADLOCK FALSE
