CONSTANTS
  None = None
  c1 = c1
  c2 = c2
  reaper = reaper
  i1 = i1
  i2 = i2
  i3 = i3
  i4 = i4
  Caller <- MCCaller
  Reaper <- MCReaper
  Evictor <- MCEvictor
  Inode <- MCInode

SPECIFICATION Spec
INVARIANT SupervisorIsGone
CHECK_DEADLOCK FALSE
