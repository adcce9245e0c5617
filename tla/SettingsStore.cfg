SPECIFICATION Spec
CONSTANTS
  p1 = p1
  p2 = p2
  c1 = c1
  c2 = c2
  n1 = n1
  n2 = n2
  u1 = u1
  u2 = u2
  u3 = u3
  None = None
  Process <- MCProcess
  CallId <- MCCall
  Name <- MCName
  Caller <- MCCaller
  MaxRecords = 2
  MaxReceipts = 1
  MaxHistory = 2
  MaxToken = 5
SYMMETRY Symmetry
INVARIANT TypeOK
INVARIANT AppliedOnce
INVARIANT CommitsAreRecorded
PROPERTY RetryIsReplayed
PROPERTY VersionNamesValues
CHECK_DEADLOCK FALSE
