SPECIFICATION LedgerSpec
CONSTANTS
  c1 = c1  c2 = c2  c3 = c3  c4 = c4
  None = None
  Call <- MCCall
  Size <- MCSize
  MaxEvents = 3
  MaxBytes = 4
  Legacy <- MCLegacy
SYMMETRY Symmetry
 
PROPERTY CommittedIsKept
CHECK_DEADLOCK FALSE
